-------------------------- MODULE NodeStatusProofs --------------------------
(***************************************************************************)
(* Proofs about which boards the hub shows as online and the weather it    *)
(* shows, for any interval, word and buffer size, any number of lines and  *)
(* heartbeats: no board is shown online that was not heard                 *)
(* (OnlineOnlyIfHeard), the weather is one line's with its time            *)
(* (WeatherOfOneLine), and is there when the station is (WeatherWithBadge).*)
(*                                                                         *)
(* A word of s_last_seen that does not belong to the time a board was last *)
(* heard is about to be written, by a task that took the time just now.    *)
(* So what a request reads is that time, unless the board was heard since  *)
(* the request was made (Fresh, Answers).                                  *)
(***************************************************************************)
EXTENDS NodeStatus, SequenceTheorems, FiniteSetTheorems, WellFoundedInduction, TLAPS

Texts == [what : {"status", "hb", "newline", "tail"}, n : Nat, size : Nat]
TwoWords == [Words -> Int]
Tasks == [pc : {"idle", "seen", "lock", "free", "copy", "time", "also"}, line : Nat,
          at : Int, words : SUBSET Words]
Requests == [pc : {"idle", "wroom2", "status", "env"}, at : Int, got : TwoWords,
             left : SUBSET Words, online : SUBSET Roles]

Shape ==
    /\ now \in Nat /\ wired \in Roles /\ lines \in [n : Nat, size : Nat] /\ lines.n <= MaxLines
    /\ relay \in [todo : Seq(Texts), between : BOOLEAN] /\ port \in [Roles -> Seq(Texts)]
    /\ seen \in [Roles -> TwoWords] /\ env \in [json : Int, time : Int]
    /\ mtx \in Roles \cup {"free"} /\ rx \in [Roles -> Tasks] /\ api \in Requests
    /\ heard \in [Roles -> Int] /\ handled \in [1..MaxLines -> Int]

\* The station's lines in q.
Lines(q) == {i \in 1..Len(q) : q[i].what = "status"}
Numbers(q) == {q[i].n : i \in Lines(q)}
Once(q) == \A i, j \in Lines(q) : q[i].n = q[j].n => i = j

Unhandled(n) == n \in 1..lines.n /\ handled[n] = Never

\* Every line of the station is in one place, on the way to the port it is wired
\* to, until it is handled.
OnTheWay ==
    /\ \A n \in 1..MaxLines : handled[n] # Never => n <= lines.n
    /\ Once(relay.todo)
    /\ \A n \in Numbers(relay.todo) : wired = "wroom2" /\ Unhandled(n)
    /\ \A r \in Roles : /\ Once(port[r])
                        /\ Numbers(port[r]) \cap Numbers(relay.todo) = {}
                        /\ \A n \in Numbers(port[r]) : r = wired /\ Unhandled(n)

\* A task that handles a line does it now.
Handling ==
    \A r \in Roles : rx[r].pc # "idle" =>
        /\ rx[r].at = now /\ (rx[r].pc = "seen" => heard[r] = now)
        /\ rx[r].pc # "seen" => rx[r].line # None
        /\ rx[r].line # None => r = wired /\ rx[r].line \in 1..MaxLines
                                /\ handled[rx[r].line] = now /\ heard["status"] = now
        /\ rx[r].pc \in {"free", "copy", "time"} <=> mtx = r
MutexTaken == \A r \in Roles : mtx = r => rx[r].pc \in {"free", "copy", "time"}

\* Word w of q's time will be written by r.
Owes(r, q, w) ==
    \/ rx[r].pc = "seen" /\ r = q /\ w \in rx[r].words
    \/ /\ q = "status" /\ rx[r].line # None
       /\ \/ rx[r].pc \in {"seen", "lock", "free", "copy", "time"}
          \/ rx[r].pc = "also" /\ w \in rx[r].words

Fresh ==
    \A q \in Roles : /\ heard[q] \in Never..now
                     /\ \A w \in Words : \/ seen[q][w] = Split(heard[q])[w]
                                         \/ heard[q] = now /\ \E r \in Roles : Owes(r, q, w)

\* Since the request was made q was heard, or what was read of its time is right.
Answers ==
    api.pc # "idle" =>
        /\ api.at \in 0..now
        /\ \A q \in api.online : heard[q] # Never /\ api.at - heard[q] < OfflineAfter
        /\ \A q \in Roles : api.pc = q =>
              heard[q] >= api.at \/ \A w \in Words \ api.left : api.got[w] = Split(heard[q])[w]

OfALine(json, time) ==
    \E n \in 1..MaxLines : json \in {n, Lacks(n)} /\ time = handled[n] /\ time \in Nat

\* The text and the time of the weather, and where s_mtx is held, half of it.
Weather ==
    /\ env.json \in Weathers
    /\ mtx = "free" => env.json # Freed
    /\ mtx = "free" /\ env.json # None => OfALine(env.json, env.time)
    /\ \A r \in Roles : rx[r].pc = "time" => env.json \in {rx[r].line, Lacks(rx[r].line)}
    /\ \A r \in Roles : rx[r].pc = "free" => env.json # Freed

\* What says that the station was heard when its lines come through the media board.
Stored ==
    wired = "wroom2" /\ env.json = None =>
        /\ \A r \in Roles : rx[r].pc # "also"
        /\ seen["status"] = Split(Never) /\ "status" \notin api.online
        /\ api.pc = "status" => \A w \in Words \ api.left : api.got[w] = Split(Never)[w]
PortUnused == wired = "wroom2" => port["status"] = <<>> /\ rx["status"].pc = "idle"

StatusInv ==
    /\ Shape /\ OnTheWay /\ Handling /\ MutexTaken /\ Fresh /\ Answers /\ Weather /\ Stored
    /\ PortUnused
-----------------------------------------------------------------------------
(* Times in two words *)

LEMMA SplitIs ==
    ASSUME NEW t \in Int
    PROVE  /\ Split(t) \in TwoWords /\ \A w \in Words : Split(t)[w] \in Int
           /\ Joined(Split(t)) = t
           /\ \A two \in TwoWords : (\A w \in Words : two[w] = Split(t)[w]) =>
                                       two = Split(t) /\ Joined(two) = t
<1>1. Word \in Nat \ {0}
  BY StatusAssumption
<1>2. /\ t \div Word \in Int /\ t % Word \in Int
      /\ t = Word * (t \div Word) + (t % Word)
  BY <1>1
<1>3. Split(t) \in TwoWords /\ \A w \in Words : Split(t)[w] \in Int
  BY <1>2 DEF Split, TwoWords
<1>4. Split(t)["hi"] = t \div Word /\ Split(t)["lo"] = t % Word
  BY DEF Split, Words
<1>5. Joined(Split(t)) = t
  BY <1>1, <1>2, <1>4 DEF Joined
<1>6. ASSUME NEW two \in TwoWords, \A w \in Words : two[w] = Split(t)[w]
      PROVE  two = Split(t)
  BY <1>3, <1>6 DEF TwoWords
<1> QED BY <1>3, <1>5, <1>6
-----------------------------------------------------------------------------
(* Lines on their way *)

\* One more text.
LEMMA AppendIs ==
    ASSUME NEW q \in Seq(Texts), NEW x \in Texts
    PROVE  /\ Append(q, x) \in Seq(Texts)
           /\ Numbers(Append(q, x)) = Numbers(q) \cup (IF x.what = "status" THEN {x.n} ELSE {})
           /\ Once(q) /\ (x.what = "status" => x.n \notin Numbers(q)) => Once(Append(q, x))
<1> DEFINE r == Append(q, x)
<1>1. /\ r \in Seq(Texts) /\ Len(r) = Len(q) + 1 /\ Len(q) \in Nat
      /\ \A i \in 1..Len(q) : r[i] = q[i]
      /\ r[Len(q) + 1] = x
  BY AppendProperties, LenProperties
<1> HIDE DEF r
<1>2. Lines(r) = Lines(q) \cup (IF x.what = "status" THEN {Len(q) + 1} ELSE {})
  BY <1>1 DEF Lines
<1>3. \A i \in Lines(q) : r[i] = q[i] /\ i # Len(q) + 1
  BY <1>1 DEF Lines
<1>4. Numbers(r) = Numbers(q) \cup (IF x.what = "status" THEN {x.n} ELSE {})
  BY <1>1, <1>2, <1>3 DEF Numbers
<1>5. Once(q) /\ (x.what = "status" => x.n \notin Numbers(q)) => Once(r)
  BY <1>1, <1>2, <1>3 DEF Once, Numbers
<1> QED BY <1>1, <1>4, <1>5 DEF r

\* What is left after the first e texts.
LEMMA RestIs ==
    ASSUME NEW q \in Seq(Texts), NEW e \in 1..Len(q), NEW r \in Seq(Texts),
           Len(r) = Len(q) - e, \A i \in 1..Len(r) : r[i] = q[i + e]
    PROVE  /\ Numbers(r) \subseteq Numbers(q) /\ (Once(q) => Once(r))
           /\ \A i \in 1..e : Once(q) /\ q[i].what = "status" =>
                                 q[i].n \in Numbers(q) /\ q[i].n \notin Numbers(r)
<1>1. Len(q) \in Nat /\ Len(r) \in Nat
  BY LenProperties
<1>2. \A i \in Lines(r) : i + e \in Lines(q) /\ r[i] = q[i + e] /\ i + e > e /\ i \in Nat
  BY <1>1 DEF Lines
<1>3. Numbers(r) \subseteq Numbers(q)
  BY <1>2 DEF Numbers
<1>4. Once(q) => Once(r)
  <2> SUFFICES ASSUME Once(q), NEW i \in Lines(r), NEW j \in Lines(r), r[i].n = r[j].n
               PROVE  i = j
    BY DEF Once
  <2>1. i + e \in Lines(q) /\ j + e \in Lines(q) /\ q[i + e].n = q[j + e].n
    BY <1>2
  <2>2. i + e = j + e
    BY <2>1 DEF Once
  <2>3. i \in Nat /\ j \in Nat /\ e \in Nat
    BY <1>1, <1>2
  <2> QED BY <2>2, <2>3
<1>5. ASSUME NEW i \in 1..e, Once(q), q[i].what = "status"
      PROVE  q[i].n \in Numbers(q) /\ q[i].n \notin Numbers(r)
  <2>1. i \in Lines(q)
    BY <1>1, <1>5 DEF Lines
  <2>2. \A j \in Lines(r) : q[i].n # r[j].n
    <3> SUFFICES ASSUME NEW j \in Lines(r), q[i].n = r[j].n PROVE FALSE
      OBVIOUS
    <3>1. j + e \in Lines(q) /\ r[j].n = q[j + e].n /\ j \in 1..Len(r)
      BY <1>2 DEF Lines
    <3>2. i = j + e
      BY <1>5, <2>1, <3>1 DEF Once
    <3> QED BY <1>1, <3>1, <3>2
  <2> QED BY <2>1, <2>2 DEF Numbers
<1> QED BY <1>3, <1>4, <1>5

LEMMA TailIs ==
    ASSUME NEW q \in Seq(Texts), q # <<>>
    PROVE  /\ Head(q) \in Texts /\ Tail(q) \in Seq(Texts)
           /\ Numbers(Tail(q)) \subseteq Numbers(q) /\ (Once(q) => Once(Tail(q)))
           /\ Once(q) /\ Head(q).what = "status" =>
                 Head(q).n \in Numbers(q) /\ Head(q).n \notin Numbers(Tail(q))
<1> DEFINE r == Tail(q)
<1>1. /\ Head(q) \in Texts /\ Head(q) = q[1] /\ r \in Seq(Texts) /\ Len(r) = Len(q) - 1
      /\ \A i \in 1..Len(r) : r[i] = q[i + 1]
  BY HeadTailProperties
<1>2. 1 \in 1..Len(q) /\ 1 \in 1..1
  BY EmptySeq, LenProperties
<1> HIDE DEF r
<1>3. /\ Numbers(r) \subseteq Numbers(q) /\ (Once(q) => Once(r))
      /\ Once(q) /\ q[1].what = "status" => q[1].n \in Numbers(q) /\ q[1].n \notin Numbers(r)
  BY <1>1, <1>2, RestIs
<1> QED BY <1>1, <1>3 DEF r

\* Two texts more.
LEMMA TwoMore ==
    ASSUME NEW q \in Seq(Texts), NEW x \in Texts, NEW y \in Texts
    PROVE  q \o <<x, y>> = Append(Append(q, x), y)
OBVIOUS
-----------------------------------------------------------------------------
(* Steps of the boards *)

\* They only change what is on the way.
LEMMA BoardStep ==
    ASSUME StatusInv, UNCHANGED <<now, wired, seen, env, mtx, rx, api, heard, handled>>,
           lines' \in [n : Nat, size : Nat], lines'.n <= MaxLines, lines.n <= lines'.n,
           relay' \in [todo : Seq(Texts), between : BOOLEAN], port' \in [Roles -> Seq(Texts)],
           Once(relay.todo)', \A r \in Roles : Once(port'[r]),
           \A n \in Numbers(relay'.todo) : wired = "wroom2" /\ n \in 1..lines'.n /\ handled[n] = Never,
           \A r \in Roles : \A n \in Numbers(port'[r]) :
               r = wired /\ n \in 1..lines'.n /\ handled[n] = Never,
           \A r \in Roles : Numbers(port'[r]) \cap Numbers(relay'.todo) = {},
           wired = "wroom2" => port'["status"] = <<>>
    PROVE  StatusInv'
<1>1. lines.n \in Nat /\ lines'.n \in Nat
  BY DEF StatusInv, Shape
<1>2. Shape'
  BY DEF StatusInv, Shape
<1>3. OnTheWay'
  <2>1. \A n \in 1..MaxLines : handled[n] # Never => n <= lines'.n
    BY <1>1 DEF StatusInv, OnTheWay
  <2>2. OnTheWay
    BY DEF StatusInv
  <2> QED BY <2>1 DEF OnTheWay, Unhandled
<1>4. Handling' /\ MutexTaken' /\ Fresh' /\ Answers' /\ Weather' /\ Stored' /\ PortUnused'
  BY DEF StatusInv, Handling, MutexTaken, Fresh, Owes, Answers, Weather, OfALine, Stored,
         PortUnused
<1> QED BY <1>2, <1>3, <1>4 DEF StatusInv

\* What is on the way before a step.
LEMMA WayIs ==
    ASSUME StatusInv
    PROVE  /\ lines \in [n : Nat, size : Nat] /\ lines.n \in Nat /\ lines.n <= MaxLines
           /\ relay \in [todo : Seq(Texts), between : BOOLEAN] /\ relay.todo \in Seq(Texts)
           /\ port \in [Roles -> Seq(Texts)] /\ \A r \in Roles : port[r] \in Seq(Texts)
           /\ Once(relay.todo) /\ \A r \in Roles : Once(port[r])
           /\ \A n \in Numbers(relay.todo) :
                 wired = "wroom2" /\ n \in 1..lines.n /\ handled[n] = Never
           /\ \A r \in Roles : \A n \in Numbers(port[r]) :
                 r = wired /\ n \in 1..lines.n /\ handled[n] = Never
           /\ \A r \in Roles : Numbers(port[r]) \cap Numbers(relay.todo) = {}
           /\ \A n \in 1..MaxLines : handled[n] # Never => n <= lines.n
           /\ wired \in Roles /\ handled \in [1..MaxLines -> Int]
           /\ wired = "wroom2" => port["status"] = <<>>
<1>1. /\ lines \in [n : Nat, size : Nat] /\ lines.n \in Nat /\ lines.n <= MaxLines
      /\ relay \in [todo : Seq(Texts), between : BOOLEAN] /\ relay.todo \in Seq(Texts)
      /\ port \in [Roles -> Seq(Texts)] /\ \A r \in Roles : port[r] \in Seq(Texts)
      /\ wired \in Roles /\ handled \in [1..MaxLines -> Int]
      /\ wired = "wroom2" => port["status"] = <<>>
  BY DEF StatusInv, Shape, PortUnused
<1>2. /\ Once(relay.todo) /\ \A r \in Roles : Once(port[r])
      /\ \A n \in Numbers(relay.todo) :
            wired = "wroom2" /\ n \in 1..lines.n /\ handled[n] = Never
      /\ \A r \in Roles : \A n \in Numbers(port[r]) :
            r = wired /\ n \in 1..lines.n /\ handled[n] = Never
      /\ \A r \in Roles : Numbers(port[r]) \cap Numbers(relay.todo) = {}
      /\ \A n \in 1..MaxLines : handled[n] # Never => n <= lines.n
  BY DEF StatusInv, OnTheWay, Unhandled
<1> QED BY <1>1, <1>2

LEMMA NewlineIs == /\ Newline \in Texts /\ Newline.what # "status"
                   /\ Beat \in Texts /\ Beat.what # "status"
BY DEF Newline, Beat, Texts, None

\* A text for the hub's port r that is no line of the station, or one that is nowhere
\* else any more.
LEMMA SentOn ==
    ASSUME StatusInv, UNCHANGED <<now, wired, seen, env, mtx, rx, api, heard, handled>>,
           UNCHANGED lines, NEW r \in Roles, wired = "wroom2" => r = "wroom2",
           NEW x \in Texts, port' = [port EXCEPT ![r] = Append(@, x)],
           relay' \in [todo : Seq(Texts), between : BOOLEAN],
           Numbers(relay'.todo) \subseteq Numbers(relay.todo), Once(relay.todo)',
           x.what = "status" => /\ x.n \in Numbers(relay.todo) /\ x.n \notin Numbers(relay'.todo)
                                /\ r = wired
    PROVE  StatusInv'
<1>1. /\ port' \in [Roles -> Seq(Texts)] /\ port'[r] = Append(port[r], x)
      /\ \A q \in Roles \ {r} : port'[q] = port[q]
  <2>1. Append(port[r], x) \in Seq(Texts)
    BY WayIs, AppendIs
  <2> QED BY <2>1, WayIs
<1>2. /\ Numbers(port'[r]) = Numbers(port[r]) \cup (IF x.what = "status" THEN {x.n} ELSE {})
      /\ Once(port'[r])
  <2>1. x.what = "status" => x.n \notin Numbers(port[r])
    BY WayIs
  <2>2. port[r] \in Seq(Texts) /\ Once(port[r])
    BY WayIs
  <2> QED BY <1>1, <2>1, <2>2, AppendIs
<1>3. \A q \in Roles : \A n \in Numbers(port'[q]) :
          q = wired /\ n \in 1..lines.n /\ handled[n] = Never
  BY <1>1, <1>2, WayIs
<1>4. \A q \in Roles : Numbers(port'[q]) \cap Numbers(relay'.todo) = {}
  <2>1. Numbers(port'[r]) \cap Numbers(relay'.todo) = {}
    BY <1>2, WayIs
  <2> QED BY <1>1, <2>1, WayIs
<1>5. \A q \in Roles : Once(port'[q])
  BY <1>1, <1>2, WayIs
<1>6. wired = "wroom2" => port'["status"] = <<>>
  BY <1>1, WayIs DEF Roles
<1>7. \A n \in Numbers(relay'.todo) : wired = "wroom2" /\ n \in 1..lines'.n /\ handled[n] = Never
  BY WayIs
<1>8. lines' \in [n : Nat, size : Nat] /\ lines'.n <= MaxLines /\ lines.n <= lines'.n
  BY WayIs
<1> QED BY <1>1, <1>3, <1>4, <1>5, <1>6, <1>7, <1>8, BoardStep

LEMMA RelayEndStep == StatusInv /\ RelayEnd => StatusInv'
<1> SUFFICES ASSUME StatusInv, RelayEnd PROVE StatusInv'
  OBVIOUS
<1>1. /\ port' = [port EXCEPT !["wroom2"] = Append(@, Newline)]
      /\ relay' = [relay EXCEPT !.between = FALSE]
      /\ UNCHANGED <<now, wired, lines, seen, env, mtx, rx, api, heard, handled>>
  BY DEF RelayEnd
<1>2. relay' \in [todo : Seq(Texts), between : BOOLEAN] /\ relay'.todo = relay.todo
  BY <1>1, WayIs
<1>3. "wroom2" \in Roles
  BY DEF Roles
<1> QED BY <1>1, <1>2, <1>3, NewlineIs, WayIs, SentOn

LEMMA RelayLineStep == StatusInv /\ RelayLine => StatusInv'
<1> SUFFICES ASSUME StatusInv, RelayLine PROVE StatusInv'
  OBVIOUS
<1>1. PICK x : x = Kept(Head(relay.todo))
  OBVIOUS
<1>2. /\ relay.todo # <<>>
      /\ UNCHANGED <<now, wired, lines, seen, env, mtx, rx, api, heard, handled>>
  BY DEF RelayLine
<1>3. /\ Head(relay.todo) \in Texts /\ Tail(relay.todo) \in Seq(Texts)
      /\ Numbers(Tail(relay.todo)) \subseteq Numbers(relay.todo) /\ Once(Tail(relay.todo))
      /\ Head(relay.todo).what = "status" =>
            /\ Head(relay.todo).n \in Numbers(relay.todo)
            /\ Head(relay.todo).n \notin Numbers(Tail(relay.todo))
  BY <1>2, WayIs, TailIs
<1>4. x \in Texts /\ (x.what = "status" => x = Head(relay.todo))
  <2>h. PICK h \in Texts : h = Head(relay.todo)
    BY <1>3
  <2>0. h.size \in Nat /\ LineMax \in Nat
    BY StatusAssumption DEF Texts
  <2>1. CASE h.size <= LineMax
    BY <1>1, <2>h, <2>1 DEF Kept
  <2>2. CASE h.size > LineMax
    <3>1. PICK k : k = Left(h.size)
      OBVIOUS
    <3>2. k \in Nat
      <4>1. LineMax + 1 \in Nat \ {0} /\ h.size % (LineMax + 1) \in Nat
        BY <2>0
      <4> QED BY <2>0, <3>1, <4>1 DEF Left
    <3>3. x = [what |-> "tail", n |-> None, size |-> k]
      BY <1>1, <2>h, <2>0, <2>2, <3>1 DEF Kept
    <3> QED BY <3>2, <3>3 DEF Texts, None
  <2> QED BY <2>0, <2>1, <2>2
<1>5. relay' \in [todo : Seq(Texts), between : BOOLEAN] /\ relay'.todo = Tail(relay.todo)
  <2>1. relay \in [todo : Seq(Texts), between : BOOLEAN]
    BY WayIs
  <2>2. \/ relay' = [relay EXCEPT !.todo = Tail(@)]
        \/ relay' = [todo |-> Tail(relay.todo), between |-> TRUE]
    BY DEF RelayLine
  <2>3. CASE relay' = [relay EXCEPT !.todo = Tail(@)]
    BY <1>3, <2>1, <2>3
  <2>4. CASE relay' = [todo |-> Tail(relay.todo), between |-> TRUE]
    BY <1>3, <2>4
  <2> QED BY <2>2, <2>3, <2>4
<1>6. x.what = "status" => wired = "wroom2"
  BY <1>3, <1>4, WayIs
<1>7. "wroom2" \in Roles
  BY DEF Roles
<1>8. Once(relay.todo)'
  BY <1>3, <1>5
<1>9. x.what = "status" => x.n \in Numbers(relay.todo) /\ x.n \notin Numbers(relay'.todo)
  BY <1>3, <1>4, <1>5
<1>10. Numbers(relay'.todo) \subseteq Numbers(relay.todo)
  BY <1>3, <1>5
<1>11. CASE port' = port
  <2>1. \A n \in Numbers(relay'.todo) : wired = "wroom2" /\ n \in 1..lines'.n /\ handled[n] = Never
    BY <1>2, <1>10, WayIs
  <2>2. /\ \A r \in Roles : Once(port'[r]) /\ Numbers(port'[r]) \cap Numbers(relay'.todo) = {}
        /\ \A r \in Roles : \A n \in Numbers(port'[r]) :
              r = wired /\ n \in 1..lines'.n /\ handled[n] = Never
    BY <1>2, <1>10, <1>11, WayIs
  <2>3. /\ lines' \in [n : Nat, size : Nat] /\ lines'.n <= MaxLines /\ lines.n <= lines'.n
        /\ port' \in [Roles -> Seq(Texts)] /\ (wired = "wroom2" => port'["status"] = <<>>)
    BY <1>2, <1>11, WayIs
  <2> QED BY <1>2, <1>5, <1>8, <2>1, <2>2, <2>3, BoardStep
<1>12. CASE port' = [port EXCEPT !["wroom2"] = Append(@, x)]
  BY <1>2, <1>4, <1>5, <1>6, <1>7, <1>8, <1>9, <1>10, <1>12, SentOn
<1>13. port' = port \/ port' = [port EXCEPT !["wroom2"] = Append(@, x)]
  BY <1>1 DEF RelayLine
<1> QED BY <1>11, <1>12, <1>13

LEMMA HeartbeatStep == StatusInv /\ Heartbeat => StatusInv'
<1> SUFFICES ASSUME StatusInv, Heartbeat PROVE StatusInv'
  OBVIOUS
<1>1. PICK q : q = Append(Append(port["wroom2"], Beat), Newline)
  OBVIOUS
<1>2. /\ port' = [port EXCEPT !["wroom2"] = q]
      /\ UNCHANGED <<now, wired, lines, relay, seen, env, mtx, rx, api, heard, handled>>
  <2>1. port["wroom2"] \in Seq(Texts)
    BY WayIs DEF Roles
  <2>2. q = port["wroom2"] \o <<Beat, Newline>>
    BY <1>1, <2>1, NewlineIs, TwoMore
  <2> QED BY <2>2 DEF Heartbeat
<1>3. q \in Seq(Texts) /\ Numbers(q) = Numbers(port["wroom2"]) /\ Once(q)
  <2>0. port["wroom2"] \in Seq(Texts) /\ Once(port["wroom2"])
    BY WayIs DEF Roles
  <2>1. /\ Append(port["wroom2"], Beat) \in Seq(Texts) /\ Once(Append(port["wroom2"], Beat))
        /\ Numbers(Append(port["wroom2"], Beat)) = Numbers(port["wroom2"])
    BY <2>0, NewlineIs, AppendIs
  <2> QED BY <1>1, <2>1, NewlineIs, AppendIs
<1>4. /\ port' \in [Roles -> Seq(Texts)] /\ port'["wroom2"] = q
      /\ \A r \in Roles \ {"wroom2"} : port'[r] = port[r]
  BY <1>2, <1>3, WayIs DEF Roles
<1>5. \A r \in Roles : Numbers(port'[r]) = Numbers(port[r]) /\ Once(port'[r])
  BY <1>3, <1>4, WayIs
<1>6. wired = "wroom2" => port'["status"] = <<>>
  BY <1>4, WayIs DEF Roles
<1>7. /\ Once(relay.todo)' /\ relay' = relay /\ lines' = lines
      /\ relay' \in [todo : Seq(Texts), between : BOOLEAN]
      /\ lines' \in [n : Nat, size : Nat] /\ lines'.n <= MaxLines /\ lines.n <= lines'.n
  BY <1>2, WayIs
<1>8. /\ \A n \in Numbers(relay'.todo) : wired = "wroom2" /\ n \in 1..lines'.n /\ handled[n] = Never
      /\ \A r \in Roles : \A n \in Numbers(port'[r]) :
            r = wired /\ n \in 1..lines'.n /\ handled[n] = Never
      /\ \A r \in Roles : Numbers(port'[r]) \cap Numbers(relay'.todo) = {}
  BY <1>5, <1>7, WayIs
<1> QED BY <1>2, <1>4, <1>5, <1>6, <1>7, <1>8, BoardStep

LEMMA WriteStatusStep == \A size \in Sizes : StatusInv /\ WriteStatus(size) => StatusInv'
<1> SUFFICES ASSUME NEW size \in Sizes, StatusInv, WriteStatus(size) PROVE StatusInv'
  OBVIOUS
<1>1. size \in Nat
  BY StatusAssumption
<1>2. /\ lines.n < MaxLines /\ lines' = [n |-> lines.n + 1, size |-> size]
      /\ UNCHANGED <<now, wired, seen, env, mtx, rx, api, heard, handled>>
  BY DEF WriteStatus
<1>3. lines' \in [n : Nat, size : Nat] /\ lines'.n = lines.n + 1 /\ lines.n \in Nat
  BY <1>1, <1>2, WayIs
<1>n. PICK n : n = lines.n + 1
  OBVIOUS
<1>f. /\ n \in Nat /\ n \in 1..lines'.n /\ lines'.n <= MaxLines /\ lines.n <= lines'.n
      /\ handled[n] = Never /\ n \notin Numbers(relay.todo)
      /\ \A r \in Roles : n \notin Numbers(port[r])
      /\ 1..lines.n \subseteq 1..lines'.n
  <2>0. MaxLines \in Nat
    BY StatusAssumption
  <2>1. n \in Nat /\ n \in 1..lines'.n /\ n \in 1..MaxLines /\ n \notin 1..lines.n
    BY <1>2, <1>3, <1>n, <2>0
  <2>2. handled[n] = Never
    BY <1>3, <1>n, <2>1, WayIs
  <2>3. n \notin Numbers(relay.todo) /\ \A r \in Roles : n \notin Numbers(port[r])
    BY <2>1, WayIs
  <2> QED BY <1>2, <1>3, <2>0, <2>1, <2>2, <2>3
<1>4. PICK x : x = [what |-> "status", n |-> n, size |-> size]
  OBVIOUS
<1>5. x \in Texts /\ x.what = "status" /\ x.n = n
  BY <1>1, <1>f, <1>4 DEF Texts
<1>6. CASE wired = "wroom2"
  <2>1. relay' = [relay EXCEPT !.todo = Append(@, x)] /\ port' = port
    BY <1>3, <1>n, <1>4, <1>6 DEF WriteStatus
  <2>2. /\ Append(relay.todo, x) \in Seq(Texts)
        /\ Numbers(Append(relay.todo, x)) = Numbers(relay.todo) \cup {n}
        /\ Once(Append(relay.todo, x))
    BY <1>5, <1>f, WayIs, AppendIs
  <2>3. /\ relay' \in [todo : Seq(Texts), between : BOOLEAN]
        /\ relay'.todo = Append(relay.todo, x)
    BY <2>1, <2>2, WayIs
  <2>4. Numbers(relay'.todo) = Numbers(relay.todo) \cup {n} /\ Once(relay.todo)'
    BY <2>2, <2>3
  <2>5. \A k \in Numbers(relay'.todo) : wired = "wroom2" /\ k \in 1..lines'.n /\ handled[k] = Never
    BY <1>6, <1>f, <2>4, WayIs
  <2>6. \A r \in Roles : \A k \in Numbers(port'[r]) :
            r = wired /\ k \in 1..lines'.n /\ handled[k] = Never
    BY <1>f, <2>1, WayIs
  <2>7. \A r \in Roles : Numbers(port'[r]) \cap Numbers(relay'.todo) = {}
    BY <1>f, <2>1, <2>4, WayIs
  <2>8. /\ port' \in [Roles -> Seq(Texts)] /\ \A r \in Roles : Once(port'[r])
        /\ wired = "wroom2" => port'["status"] = <<>>
    BY <2>1, WayIs
  <2> QED BY <1>2, <1>3, <1>f, <2>3, <2>4, <2>5, <2>6, <2>7, <2>8, BoardStep
<1>7. CASE wired # "wroom2"
  <2>1. port' = [port EXCEPT !["status"] = @ \o <<x, Newline>>] /\ relay' = relay
    BY <1>3, <1>n, <1>4, <1>7 DEF WriteStatus
  <2>2. PICK q : q = Append(Append(port["status"], x), Newline)
    OBVIOUS
  <2>3. port["status"] \in Seq(Texts) /\ wired = "status" /\ Once(port["status"])
    BY <1>7, WayIs DEF Roles
  <2>4. q = port["status"] \o <<x, Newline>>
    BY <1>5, <2>2, <2>3, NewlineIs, TwoMore
  <2>5. q \in Seq(Texts) /\ Numbers(q) = Numbers(port["status"]) \cup {n} /\ Once(q)
    <3>1. /\ Append(port["status"], x) \in Seq(Texts)
          /\ Numbers(Append(port["status"], x)) = Numbers(port["status"]) \cup {n}
          /\ Once(Append(port["status"], x))
      BY <1>5, <1>f, <2>3, AppendIs DEF Roles
    <3> QED BY <2>2, <3>1, NewlineIs, AppendIs
  <2>6. /\ port' \in [Roles -> Seq(Texts)] /\ port'["status"] = q
        /\ \A r \in Roles \ {"status"} : port'[r] = port[r]
    BY <2>1, <2>4, <2>5, WayIs DEF Roles
  <2>7. \A r \in Roles : Once(port'[r])
    BY <2>5, <2>6, WayIs
  <2>8. \A r \in Roles : \A k \in Numbers(port'[r]) :
            r = wired /\ k \in 1..lines'.n /\ handled[k] = Never
    <3>1. \A k \in Numbers(q) : k \in 1..lines'.n /\ handled[k] = Never
      BY <1>f, <2>5, WayIs DEF Roles
    <3> QED BY <1>f, <2>3, <2>6, <3>1, WayIs
  <2>9. \A r \in Roles : Numbers(port'[r]) \cap Numbers(relay'.todo) = {}
    <3>1. Numbers(q) \cap Numbers(relay.todo) = {}
      BY <1>f, <2>5, WayIs DEF Roles
    <3> QED BY <2>1, <2>6, <3>1, WayIs
  <2>10. /\ relay' \in [todo : Seq(Texts), between : BOOLEAN] /\ Once(relay.todo)'
         /\ \A k \in Numbers(relay'.todo) :
               wired = "wroom2" /\ k \in 1..lines'.n /\ handled[k] = Never
    BY <1>f, <2>1, WayIs
  <2> QED BY <1>2, <1>3, <1>7, <1>f, <2>6, <2>7, <2>8, <2>9, <2>10, BoardStep
<1> QED BY <1>6, <1>7
-----------------------------------------------------------------------------
(* Steps of time and of the request *)

LEMMA Types ==
    ASSUME StatusInv
    PROVE  /\ now \in Nat /\ OfflineAfter \in Nat \ {0} /\ MaxLines \in Nat
           /\ seen \in [Roles -> TwoWords] /\ rx \in [Roles -> Tasks] /\ heard \in [Roles -> Int]
           /\ \A r \in Roles : /\ seen[r] \in TwoWords /\ rx[r] \in Tasks /\ rx[r].line \in Nat
                               /\ rx[r].words \in SUBSET Words /\ rx[r].at \in Int
                               /\ heard[r] \in Int /\ heard[r] \in Never..now
           /\ api \in Requests /\ api.at \in Int /\ api.got \in TwoWords
           /\ api.left \in SUBSET Words /\ api.online \in SUBSET Roles
           /\ env \in [json : Int, time : Int] /\ env.json \in Int /\ env.time \in Int
           /\ mtx \in Roles \cup {"free"} /\ handled \in [1..MaxLines -> Int]
<1>1. /\ now \in Nat /\ seen \in [Roles -> TwoWords] /\ rx \in [Roles -> Tasks]
      /\ heard \in [Roles -> Int] /\ api \in Requests /\ env \in [json : Int, time : Int]
      /\ mtx \in Roles \cup {"free"} /\ handled \in [1..MaxLines -> Int]
  BY DEF StatusInv, Shape
<1>2. OfflineAfter \in Nat \ {0} /\ MaxLines \in Nat
  BY StatusAssumption
<1>3. \A r \in Roles : heard[r] \in Never..now
  BY DEF StatusInv, Fresh
<1>4. \A r \in Roles : /\ seen[r] \in TwoWords /\ rx[r] \in Tasks /\ rx[r].line \in Nat
                       /\ rx[r].words \in SUBSET Words /\ rx[r].at \in Int /\ heard[r] \in Int
  BY <1>1 DEF Tasks
<1>5. /\ api.at \in Int /\ api.got \in TwoWords /\ api.left \in SUBSET Words
      /\ api.online \in SUBSET Roles /\ env.json \in Int /\ env.time \in Int
  BY <1>1 DEF Requests
<1> QED BY <1>1, <1>2, <1>3, <1>4, <1>5

LEMMA TickStep == StatusInv /\ Tick => StatusInv'
<1> SUFFICES ASSUME StatusInv, Tick PROVE StatusInv'
  OBVIOUS
<1>1. /\ now' = now + 1 /\ \A r \in Roles : rx[r].pc = "idle"
      /\ UNCHANGED <<wired, lines, relay, port, seen, env, mtx, rx, api, heard, handled>>
  BY DEF Tick, At
<1>2. Shape' /\ OnTheWay' /\ PortUnused'
  <2>1. Shape'
    <3>1. now' \in Nat
      BY <1>1, Types
    <3>2. Shape
      BY DEF StatusInv
    <3> QED BY <1>1, <3>1, <3>2 DEF Shape
  <2>2. OnTheWay' /\ PortUnused'
    BY <1>1 DEF StatusInv, OnTheWay, Unhandled, PortUnused
  <2> QED BY <2>1, <2>2
<1>3. Handling' /\ MutexTaken' /\ Weather' /\ Stored'
  BY <1>1 DEF StatusInv, Handling, MutexTaken, Weather, OfALine, Stored
<1>4. Fresh'
  <2>1. ASSUME NEW q \in Roles, NEW w \in Words PROVE seen[q][w] = Split(heard[q])[w]
    <3>1. ~\E r \in Roles : Owes(r, q, w)
      BY <1>1 DEF Owes
    <3> QED BY <3>1 DEF StatusInv, Fresh
  <2>2. \A q \in Roles : heard[q] \in Never..now'
    BY <1>1, Types DEF Never
  <2> QED BY <1>1, <2>1, <2>2 DEF Fresh
<1>5. Answers'
  <2>1. api.at \in 0..now => api.at \in 0..now'
    BY <1>1, Types
  <2> QED BY <1>1, <2>1 DEF StatusInv, Answers
<1> QED BY <1>2, <1>3, <1>4, <1>5 DEF StatusInv

\* What a step of the request leaves alone.
LEMMA RequestStep ==
    ASSUME StatusInv, api' \in Requests, Answers', Stored',
           UNCHANGED <<now, wired, lines, relay, port, seen, env, mtx, rx, heard, handled>>
    PROVE  StatusInv'
<1>1. Shape'
  BY DEF StatusInv, Shape
<1>2. OnTheWay' /\ PortUnused' /\ Handling' /\ MutexTaken' /\ Weather'
  BY DEF StatusInv, OnTheWay, Unhandled, PortUnused, Handling, MutexTaken, Weather,
         OfALine
<1>3. Fresh'
  BY DEF StatusInv, Fresh, Owes
<1> QED BY <1>1, <1>2, <1>3 DEF StatusInv

LEMMA NoRequestIs ==
    /\ NoRequest \in Requests /\ NoRequest.pc = "idle" /\ NoRequest.online = {}
    /\ Split(Never) \in TwoWords /\ Never \in Int
<1>1. Never \in Int
  BY DEF Never
<1>2. Split(Never) \in TwoWords
  BY <1>1, SplitIs
<1> QED BY <1>1, <1>2 DEF NoRequest, Requests

LEMMA AskStep ==
    ASSUME StatusInv, Ask \/ \E weather \in Weathers : ReadEnv(weather)
    PROVE  StatusInv'
<1>0. UNCHANGED <<now, wired, lines, relay, port, seen, env, mtx, rx, heard, handled>>
  BY DEF Ask, ReadEnv, Rest
<1>1. CASE Ask
  <2>1. api' = [NoRequest EXCEPT !.pc = "wroom2", !.at = now, !.left = Words]
    BY <1>1 DEF Ask
  <2>2. \A a \in Requests : \A t \in Int :
            LET g == [a EXCEPT !.pc = "wroom2", !.at = t, !.left = Words]
            IN  g \in Requests /\ g.pc = "wroom2" /\ g.at = t /\ g.left = Words
                /\ g.online = a.online
    BY DEF Requests
  <2>3. /\ api' \in Requests /\ api'.pc = "wroom2" /\ api'.at = now /\ api'.left = Words
        /\ api'.online = {}
    <3>1. NoRequest \in Requests /\ now \in Int
      BY NoRequestIs, Types
    <3>2. LET g == [NoRequest EXCEPT !.pc = "wroom2", !.at = now, !.left = Words]
          IN  g \in Requests /\ g.pc = "wroom2" /\ g.at = now /\ g.left = Words
              /\ g.online = NoRequest.online
      BY <2>2, <3>1
    <3> QED BY <2>1, <3>2, NoRequestIs
  <2>4. Answers'
    BY <1>0, <2>3, Types DEF Answers
  <2>5. Stored'
    BY <1>0, <2>3 DEF StatusInv, Stored
  <2> QED BY <1>0, <2>3, <2>4, <2>5, RequestStep
<1>2. CASE \E weather \in Weathers : ReadEnv(weather)
  <2>1. api' = NoRequest
    BY <1>2 DEF ReadEnv
  <2>2. Answers'
    BY <2>1, NoRequestIs DEF Answers
  <2>3. Stored'
    BY <1>0, <2>1, NoRequestIs DEF StatusInv, Stored
  <2> QED BY <1>0, <2>1, <2>2, <2>3, NoRequestIs, RequestStep
<1> QED BY <1>1, <1>2

LEMMA ReadSeenStep ==
    ASSUME StatusInv, NEW r \in Roles, NEW w \in Words, ReadSeen(r, w)
    PROVE  StatusInv'
<1>g. PICK got : got = [api.got EXCEPT ![w] = seen[r][w]]
  OBVIOUS
<1>1. /\ api.pc = r /\ w \in api.left
      /\ UNCHANGED <<now, wired, lines, relay, port, seen, env, mtx, rx, heard, handled>>
      /\ api' = IF api.left # {w} THEN [api EXCEPT !.got = got, !.left = @ \ {w}]
                ELSE [api EXCEPT !.got = Split(Never), !.left = Words,
                                 !.online = IF Online(Joined(got)) THEN @ \cup {r} ELSE @,
                                 !.pc = IF r = "wroom2" THEN "status" ELSE "env"]
  BY <1>g DEF ReadSeen, Rest
<1>2. got \in TwoWords /\ got[w] = seen[r][w] /\ \A v \in Words \ {w} : got[v] = api.got[v]
  BY <1>g, Types DEF TwoWords
<1>3. api.pc # "idle" /\ api.at \in 0..now
  BY <1>1 DEF StatusInv, Answers, Roles
\* The words read so far.
<1>4. \/ heard[r] >= api.at
      \/ /\ \A v \in Words \ (api.left \ {w}) : got[v] = Split(heard[r])[v]
         /\ heard[r] < api.at
  <2>1. heard[r] >= api.at \/ \A v \in Words \ api.left : api.got[v] = Split(heard[r])[v]
    BY <1>1, <1>3 DEF StatusInv, Answers
  <2>2. seen[r][w] = Split(heard[r])[w] \/ heard[r] = now
    BY DEF StatusInv, Fresh
  <2> QED BY <1>2, <1>3, <2>1, <2>2, Types
\* And of the station, when none of its lines was stored.
<1>5. ASSUME wired = "wroom2", env.json = None, r = "status"
      PROVE  \A v \in Words \ (api.left \ {w}) : got[v] = Split(Never)[v]
  BY <1>1, <1>2, <1>5 DEF StatusInv, Stored
<1>6. CASE api.left # {w}
  <2>1. PICK left : left = api.left \ {w}
    OBVIOUS
  <2>2. left \in SUBSET Words
    BY <2>1, Types
  <2>3. api' = [api EXCEPT !.got = got, !.left = left]
    BY <1>1, <1>6, <2>1
  <2>4. /\ api' \in Requests /\ api'.got = got /\ api'.left = api.left \ {w}
        /\ api'.pc = api.pc /\ api'.at = api.at /\ api'.online = api.online
    <3>1. api \in Requests
      BY Types
    <3> QED BY <1>2, <2>1, <2>2, <2>3, <3>1 DEF Requests
  <2>5. Answers'
    <3>1. \A q \in api.online : heard[q] # Never /\ api.at - heard[q] < OfflineAfter
      BY <1>3 DEF StatusInv, Answers
    <3> QED BY <1>1, <1>3, <1>4, <2>4, <3>1 DEF Answers
  <2>6. Stored'
    BY <1>1, <1>5, <2>4 DEF StatusInv, Stored
  <2> QED BY <1>1, <2>4, <2>5, <2>6, RequestStep
<1>7. CASE api.left = {w}
  <2>o. PICK online : online = IF Online(Joined(got)) THEN api.online \cup {r} ELSE api.online
    OBVIOUS
  <2>p. PICK pc \in {"status", "env"} :
            pc = (IF r = "wroom2" THEN "status" ELSE "env") /\ pc # r
    BY DEF Roles
  <2>2. online \in SUBSET Roles
    BY <2>o, Types
  <2>3. api' = [api EXCEPT !.got = Split(Never), !.left = Words, !.online = online, !.pc = pc]
    BY <1>1, <1>7, <2>o, <2>p
  <2>4. /\ api' \in Requests /\ api'.left = Words /\ api'.pc = pc /\ api'.at = api.at
        /\ api'.online = online
    <3>1. api \in Requests /\ Split(Never) \in TwoWords
      BY NoRequestIs, Types
    <3>2. PICK g \in TwoWords : api' = [api EXCEPT !.got = g, !.left = Words,
                                               !.online = online, !.pc = pc]
      BY <2>3, <3>1
    <3> QED BY <2>2, <3>1, <3>2 DEF Requests
  <2>5. ASSUME Online(Joined(got))
        PROVE  heard[r] # Never /\ api.at - heard[r] < OfflineAfter
    <3>1. CASE heard[r] >= api.at
      BY <1>3, <3>1, Types DEF Never
    <3>2. CASE \A v \in Words : got[v] = Split(heard[r])[v]
      <4>1. Joined(got) = heard[r]
        BY <1>2, <3>2, SplitIs, Types
      <4> QED BY <2>5, <4>1, Types DEF Online, Never
    <3> QED BY <1>4, <1>7, <3>1, <3>2
  <2>6. Answers'
    <3>1. \A q \in online : heard[q] # Never /\ api.at - heard[q] < OfflineAfter
      BY <1>3, <2>o, <2>5 DEF StatusInv, Answers
    <3> QED BY <1>1, <1>3, <2>4, <3>1 DEF Answers
  <2>7. Stored'
    <3> SUFFICES ASSUME wired = "wroom2", env.json = None PROVE "status" \notin online
      BY <1>1, <2>4 DEF StatusInv, Stored
    <3>1. "status" \notin api.online
      BY DEF StatusInv, Stored
    <3>2. ASSUME r = "status" PROVE ~Online(Joined(got))
      <4>1. \A v \in Words : got[v] = Split(Never)[v]
        BY <1>5, <1>7, <3>2
      <4>2. Joined(got) = Never
        BY <1>2, <4>1, SplitIs, NoRequestIs
      <4> QED BY <4>2 DEF Online, Never
    <3> QED BY <2>o, <3>1, <3>2
  <2> QED BY <1>1, <2>4, <2>6, <2>7, RequestStep
<1> QED BY <1>6, <1>7
-----------------------------------------------------------------------------
(* The rx tasks: a line is read *)

LEMMA MinExists ==
    ASSUME NEW T, T \subseteq Nat, T # {}
    PROVE  Min(T) \in T
<1> DEFINE Below(x) == 0..x
           R == StrictSubsetOrdering(Nat)
           B == {Below(x) : x \in T}
<1>1. \E b \in B : \A c \in B : ~(<<c, b>> \in R)
  <2>1. \A x \in T : IsFiniteSet(Below(x)) /\ Below(x) \subseteq Nat
    BY FS_Interval
  <2>2. B \subseteq FiniteSubsetsOf(Nat) /\ B # {}
    BY <2>1 DEF FiniteSubsetsOf
  <2> QED BY <2>2, FS_StrictSubsetOrderingWellFounded, WFMin
<1>2. PICK x \in T : \A y \in T : ~(<<Below(y), Below(x)>> \in R)
  BY <1>1
<1>3. \A y \in T : x <= y
  <2> SUFFICES ASSUME NEW y \in T, y < x PROVE FALSE
    OBVIOUS
  <2>1. Below(y) \subseteq Below(x) /\ x \in Below(x) /\ x \notin Below(y)
    OBVIOUS
  <2>2. <<Below(y), Below(x)>> \in R
    BY <2>1 DEF StrictSubsetOrdering
  <2> QED BY <1>2, <2>2
<1> QED BY <1>3 DEF Min

\* The first line that is there, and what is left.
LEMMA LineIs ==
    ASSUME NEW q \in Seq(Texts), \E i \in DOMAIN q : q[i] = Newline
    PROVE  LET end == SelectInSeq(q, LAMBDA t : t = Newline)
               text == SubSeq(q, 1, end - 1)
               rest == SubSeq(q, end + 1, Len(q))
           IN  /\ rest \in Seq(Texts) /\ Numbers(rest) \subseteq Numbers(q)
               /\ Once(q) => Once(rest)
               /\ text # <<>> => /\ text[1] \in Texts
                                 /\ Once(q) /\ text[1].what = "status" =>
                                       /\ text[1].n \in Numbers(q)
                                       /\ text[1].n \notin Numbers(rest)
<1> DEFINE Ends == {i \in 1..Len(q) : q[i] = Newline}
           end == SelectInSeq(q, LAMBDA t : t = Newline)
           text == SubSeq(q, 1, end - 1)
           rest == SubSeq(q, end + 1, Len(q))
<1>1. Len(q) \in Nat /\ DOMAIN q = 1..Len(q) /\ \A i \in 1..Len(q) : q[i] \in Texts
  BY LenProperties, ElementOfSeq
<1>2. Ends # {} /\ Ends \subseteq Nat
  BY <1>1
<1>3. end = Min(Ends)
  BY <1>2 DEF SelectInSeq
<1>4. end \in 1..Len(q)
  BY <1>2, <1>3, MinExists
<1> HIDE DEF end, Ends
<1>5. /\ rest \in Seq(Texts) /\ Len(rest) = Len(q) - end
      /\ \A i \in 1..Len(rest) : rest[i] = q[i + end]
  <2>1. /\ end + 1 \in Int /\ Len(q) \in Int /\ \A i \in (end + 1)..Len(q) : q[i] \in Texts
        /\ end \in Int
    BY <1>1, <1>4
  <2>2. /\ rest \in Seq(Texts)
        /\ Len(rest) = IF end + 1 <= Len(q) THEN Len(q) - (end + 1) + 1 ELSE 0
        /\ \A i \in 1..(Len(q) - (end + 1) + 1) : rest[i] = q[end + 1 + i - 1]
    BY <2>1, SubSeqProperties
  <2> HIDE DEF rest
  <2>3. Len(rest) = Len(q) - end
    <3>1. Len(rest) = IF end + 1 <= Len(q) THEN Len(q) - (end + 1) + 1 ELSE 0
      BY <2>2
    <3>2. /\ Len(q) \in Nat /\ end \in Nat /\ end <= Len(q)
      BY <1>1, <1>4
    <3>3. (IF end + 1 <= Len(q) THEN Len(q) - (end + 1) + 1 ELSE 0) = Len(q) - end
      BY <3>2
    <3> QED BY <3>1, <3>3
  <2>4. ASSUME NEW i \in 1..Len(rest) PROVE rest[i] = q[i + end]
    <3>1. i \in Int /\ i \in 1..(Len(q) - (end + 1) + 1) /\ end + 1 + i - 1 = i + end
      BY <1>1, <1>4, <2>3
    <3> QED BY <2>2, <3>1
  <2> QED BY <2>2, <2>3, <2>4
<1>6. /\ Numbers(rest) \subseteq Numbers(q) /\ (Once(q) => Once(rest))
      /\ \A i \in 1..end : Once(q) /\ q[i].what = "status" =>
                              q[i].n \in Numbers(q) /\ q[i].n \notin Numbers(rest)
  <2> HIDE DEF rest
  <2> QED BY <1>4, <1>5, RestIs
<1>7. ASSUME text # <<>> PROVE text[1] = q[1] /\ 1 \in 1..end /\ 1 \in 1..Len(q)
  <2>1. 1 \in Int /\ end - 1 \in Int /\ \A i \in 1..(end - 1) : q[i] \in Texts
    BY <1>1, <1>4
  <2>2. end - 1 >= 1
    BY <1>7, <2>1, SubSeqEmpty
  <2>3. text[1] = q[1 + 1 - 1]
    <3>1. 1 \in 1..((end - 1) - 1 + 1)
      BY <2>1, <2>2
    <3> QED BY <2>1, <3>1, SubSeqProperties
  <2> QED BY <1>1, <1>4, <2>2, <2>3
<1> HIDE DEF text, rest
<1>8. /\ rest \in Seq(Texts) /\ Numbers(rest) \subseteq Numbers(q) /\ (Once(q) => Once(rest))
      /\ text # <<>> => /\ text[1] \in Texts
                        /\ Once(q) /\ text[1].what = "status" =>
                              text[1].n \in Numbers(q) /\ text[1].n \notin Numbers(rest)
  BY <1>1, <1>5, <1>6, <1>7
<1> QED BY <1>8 DEF end, text, rest

\* What the steps of the tasks find.
LEMMA Facts ==
    ASSUME StatusInv
    PROVE  /\ OnTheWay /\ Handling /\ MutexTaken /\ Fresh /\ Answers /\ Weather /\ Stored
           /\ PortUnused /\ Shape
BY DEF StatusInv

\* A line is read off r's port; task t handles it, and the roles in counts were heard.
\* Line n, when it is one of the station's, is handled now.
LEMMA LineRead ==
    ASSUME StatusInv, NEW r \in Roles, rx[r].pc = "idle", port[r] # <<>>,
           UNCHANGED <<now, wired, lines, relay, seen, env, mtx, api>>,
           NEW rest \in Seq(Texts), port' = [port EXCEPT ![r] = rest],
           Numbers(rest) \subseteq Numbers(port[r]), Once(rest),
           NEW t \in Tasks, rx' = [rx EXCEPT ![r] = t],
           NEW counts \in SUBSET Roles,
           heard' = [q \in Roles |-> IF q \in counts THEN now ELSE heard[q]],
           t.pc \in {"idle", "seen"},
           t.pc = "seen" => t.at = now /\ t.words = Words /\ r \in counts,
           counts \subseteq {r, "status"},
           counts # {} => t.pc = "seen",
           "status" \in counts => r = "status" \/ t.line # None,
           NEW n, NEW mark \in Int \ {Never},
           \/ handled' = handled /\ n = None
           \/ /\ n \in Numbers(port[r]) /\ n \notin Numbers(rest) /\ n # None
              /\ handled' = [handled EXCEPT ![n] = mark],
           t.pc = "seen" /\ t.line # None => n = t.line /\ mark = now /\ "status" \in counts
    PROVE  StatusInv'
<1>1. /\ port' \in [Roles -> Seq(Texts)] /\ port'[r] = rest
      /\ \A q \in Roles \ {r} : port'[q] = port[q]
  BY WayIs
<1>2. /\ rx' \in [Roles -> Tasks] /\ rx'[r] = t /\ \A q \in Roles \ {r} : rx'[q] = rx[q]
  BY Types
<1>3. \A q \in Roles : heard'[q] = IF q \in counts THEN now ELSE heard[q]
  OBVIOUS
<1>n. n # None => /\ n \in Numbers(port[r]) /\ n \notin Numbers(rest) /\ n \in 1..lines.n
                  /\ n \in 1..MaxLines /\ handled[n] = Never /\ r = wired
                  /\ handled' = [handled EXCEPT ![n] = mark]
                  /\ n \notin Numbers(relay.todo)
  <2> SUFFICES ASSUME n # None
               PROVE  /\ n \in Numbers(port[r]) /\ n \notin Numbers(rest) /\ n \in 1..lines.n
                      /\ n \in 1..MaxLines /\ handled[n] = Never /\ r = wired
                      /\ handled' = [handled EXCEPT ![n] = mark]
                      /\ n \notin Numbers(relay.todo)
    OBVIOUS
  <2>1. /\ n \in Numbers(port[r]) /\ n \notin Numbers(rest)
        /\ handled' = [handled EXCEPT ![n] = mark]
    OBVIOUS
  <2>2. n \in 1..lines.n /\ handled[n] = Never /\ r = wired /\ n \notin Numbers(relay.todo)
    BY <2>1, WayIs
  <2>3. n \in 1..MaxLines
    BY <2>2, WayIs, Types
  <2> QED BY <2>1, <2>2, <2>3
<1>h. /\ handled' \in [1..MaxLines -> Int]
      /\ \A k \in 1..MaxLines : handled'[k] = IF k = n THEN mark ELSE handled[k]
  <2>1. CASE n # None
    <3>1. handled' = [handled EXCEPT ![n] = mark] /\ n \in 1..MaxLines
      BY <1>n, <2>1
    <3>2. handled \in [1..MaxLines -> Int] /\ mark \in Int
      BY Types
    <3> QED BY <3>1, <3>2
  <2>2. CASE n = None
    <3>1. handled' = handled /\ n \notin 1..MaxLines
      BY <2>2 DEF None
    <3> QED BY <3>1, Types
  <2> QED BY <2>1, <2>2
<1>4. Shape'
  <2>1. heard' \in [Roles -> Int]
    BY Types
  <2> QED BY <1>1, <1>2, <1>h, <2>1, Facts DEF Shape
<1>5. OnTheWay'
  <2>1. \A q \in Roles : Numbers(port'[q]) \subseteq Numbers(port[q]) /\ Once(port'[q])
    BY <1>1, WayIs
  <2>0. \A k \in 1..lines.n : k \in 1..MaxLines
    <3>1. lines.n \in Nat /\ lines.n <= MaxLines /\ MaxLines \in Nat
      BY WayIs, Types
    <3> QED BY <3>1
  <2>2. ASSUME NEW q \in Roles, NEW k \in Numbers(port'[q])
        PROVE  q = wired /\ k \in 1..lines.n /\ handled'[k] = Never
    <3>1. q = wired /\ k \in 1..lines.n /\ handled[k] = Never /\ k \in 1..MaxLines
      <4>1. k \in Numbers(port[q])
        BY <2>1
      <4> QED BY <2>0, <4>1, WayIs
    <3>2. k # n
      <4>1. n # None => n \notin Numbers(port'[q])
        <5>1. CASE q = r
          BY <1>1, <1>n, <5>1
        <5>2. CASE q # r
          BY <1>n, <3>1, <5>2
        <5> QED BY <5>1, <5>2
      <4> QED BY <3>1, <4>1 DEF None
    <3> QED BY <1>h, <3>1, <3>2
  <2>3. ASSUME NEW k \in Numbers(relay.todo)
        PROVE  wired = "wroom2" /\ k \in 1..lines.n /\ handled'[k] = Never
    <3>1. wired = "wroom2" /\ k \in 1..lines.n /\ handled[k] = Never /\ k \in 1..MaxLines
      BY <2>0, WayIs
    <3>2. k # n
      BY <1>n, <3>1 DEF None
    <3> QED BY <1>h, <3>1, <3>2
  <2>4. \A k \in 1..MaxLines : handled'[k] # Never => k <= lines.n
    BY <1>h, <1>n, WayIs
  <2>5. \A q \in Roles : Numbers(port'[q]) \cap Numbers(relay.todo) = {}
    BY <2>1, WayIs
  <2>6. Once(relay.todo)
    BY WayIs
  <2> QED BY <2>1, <2>2, <2>3, <2>4, <2>5, <2>6 DEF OnTheWay, Unhandled
<1>6. Handling'
  <2>1. \A k \in 1..MaxLines : handled[k] = now => handled'[k] = now
    <3>1. now # Never
      BY Types DEF Never
    <3> QED BY <1>n, <1>h, <3>1 DEF None
  <2>2. \A q \in Roles : heard[q] = now => heard'[q] = now
    BY <1>3
  <2>3. \A q \in Roles \ {r} : rx'[q].pc # "idle" =>
        /\ rx'[q].at = now /\ (rx'[q].pc = "seen" => heard'[q] = now)
        /\ rx'[q].pc # "seen" => rx'[q].line # None
        /\ rx'[q].line # None => q = wired /\ rx'[q].line \in 1..MaxLines
                                /\ handled'[rx'[q].line] = now /\ heard'["status"] = now
        /\ rx'[q].pc \in {"free", "copy", "time"} <=> mtx = q
    BY <1>2, <2>1, <2>2, Facts DEF Handling, Roles
  <2>4. mtx # r
    BY Facts DEF MutexTaken
  <2>5. t.pc # "idle" =>
        /\ t.at = now /\ (t.pc = "seen" => heard'[r] = now)
        /\ t.pc # "seen" => t.line # None
        /\ t.line # None => r = wired /\ t.line \in 1..MaxLines
                            /\ handled'[t.line] = now /\ heard'["status"] = now
        /\ t.pc \in {"free", "copy", "time"} <=> mtx = r
    <3>1. t.line # None /\ t.pc = "seen" =>
            /\ n = t.line /\ mark = now /\ "status" \in counts /\ n # None
      OBVIOUS
    <3>2. t.line # None /\ t.pc = "seen" =>
            /\ r = wired /\ t.line \in 1..MaxLines /\ handled'[t.line] = now
      BY <1>n, <1>h, <3>1
    <3> QED BY <1>3, <2>4, <3>1, <3>2 DEF Roles
  <2> QED BY <1>2, <2>3, <2>5 DEF Handling
<1>7. MutexTaken'
  BY <1>2, Facts DEF MutexTaken
<1>8. Fresh'
  <2>1. \A q \in Roles : heard'[q] \in Never..now
    BY <1>3, Types DEF Never
  <2>2. ASSUME NEW q \in Roles, NEW w \in Words
        PROVE  \/ seen[q][w] = Split(heard'[q])[w]
               \/ heard'[q] = now /\ \E p \in Roles : Owes(p, q, w)'
    <3>1. CASE q \in counts
      <4>1. t.pc = "seen" /\ t.words = Words /\ (q = r \/ (q = "status" /\ t.line # None))
        BY <3>1
      <4>2. Owes(r, q, w)'
        BY <1>2, <4>1 DEF Owes
      <4> QED BY <1>3, <3>1, <4>2
    <3>2. CASE q \notin counts
      <4>1. \/ seen[q][w] = Split(heard[q])[w]
            \/ heard[q] = now /\ \E p \in Roles : Owes(p, q, w)
        BY Facts DEF Fresh
      <4>2. ASSUME NEW p \in Roles, Owes(p, q, w) PROVE Owes(p, q, w)'
        <5>1. p # r
          BY <4>2 DEF Owes
        <5> QED BY <1>2, <4>2, <5>1 DEF Owes
      <4> QED BY <1>3, <3>2, <4>1, <4>2
    <3> QED BY <3>1, <3>2
  <2> QED BY <2>1, <2>2 DEF Fresh
<1>9. Answers'
  <2> SUFFICES ASSUME api.pc # "idle"
               PROVE  /\ api.at \in 0..now
                      /\ \A q \in api.online : heard'[q] # Never /\ api.at - heard'[q] < OfflineAfter
                      /\ \A q \in Roles : api.pc = q =>
                            \/ heard'[q] >= api.at
                            \/ \A w \in Words \ api.left : api.got[w] = Split(heard'[q])[w]
    BY ZenonT(30) DEF Answers
  <2>1. /\ api.at \in 0..now
        /\ \A q \in api.online : heard[q] # Never /\ api.at - heard[q] < OfflineAfter
        /\ \A q \in Roles : api.pc = q =>
              \/ heard[q] >= api.at
              \/ \A w \in Words \ api.left : api.got[w] = Split(heard[q])[w]
    BY Facts DEF Answers
  <2>2. now # Never /\ api.at - now < OfflineAfter /\ now >= api.at
    <3>1. now \in Nat /\ api.at \in 0..now /\ OfflineAfter \in Nat \ {0}
      BY <2>1, Types, StatusAssumption
    <3> QED BY <3>1 DEF Never
  <2>3. \A q \in api.online : heard'[q] # Never /\ api.at - heard'[q] < OfflineAfter
    BY <1>3, <2>1, <2>2, Types
  <2> QED BY <1>3, <2>1, <2>2, <2>3
<1>10. Weather'
  <2>1. \A k \in 1..MaxLines : handled[k] # Never => handled'[k] = handled[k]
    BY <1>h, <1>n DEF None
  <2>2. env.json \in Weathers /\ (mtx = "free" => env.json # Freed)
    BY Facts DEF Weather
  <2>3. mtx = "free" /\ env.json # None => OfALine(env.json, env.time)
    BY Facts DEF Weather
  <2>4. OfALine(env.json, env.time) => OfALine(env.json, env.time)'
    <3> SUFFICES ASSUME OfALine(env.json, env.time)
                 PROVE  \E k \in 1..MaxLines : /\ env.json \in {k, Lacks(k)}
                                                /\ env.time = handled'[k] /\ env.time \in Nat
      BY DEF OfALine
    <3>1. PICK k \in 1..MaxLines : /\ env.json \in {k, Lacks(k)}
                                   /\ env.time = handled[k] /\ env.time \in Nat
      BY DEF OfALine
    <3>2. handled[k] # Never
      BY <3>1 DEF Never
    <3> QED BY <2>1, <3>1, <3>2
  <2>5. \A q \in Roles : /\ rx'[q].pc = "time" => env.json \in {rx'[q].line, Lacks(rx'[q].line)}
                         /\ rx'[q].pc = "free" => env.json # Freed
    BY <1>2, Facts DEF Weather
  <2> QED BY <2>2, <2>3, <2>4, <2>5 DEF Weather
<1>11. Stored'
  BY <1>2, Facts DEF Stored
<1>12. PortUnused'
  <2> SUFFICES ASSUME wired = "wroom2" PROVE port'["status"] = <<>> /\ rx'["status"].pc = "idle"
    BY DEF PortUnused
  <2>1. r # "status"
    BY Facts DEF PortUnused
  <2> QED BY <1>1, <1>2, <2>1, Facts DEF PortUnused, Roles
<1> QED BY <1>4, <1>5, <1>6, <1>7, <1>8, <1>9, <1>10, <1>11, <1>12 DEF StatusInv

LEMMA ReadLineStep ==
    ASSUME StatusInv, NEW r \in Roles, ReadLine(r)
    PROVE  StatusInv'
<1>e. PICK end : end = SelectInSeq(port[r], LAMBDA t : t = Newline)
  OBVIOUS
<1>t. PICK text : text = SubSeq(port[r], 1, end - 1)
  OBVIOUS
<1>r. PICK rest : rest = SubSeq(port[r], end + 1, Len(port[r]))
  OBVIOUS
<1>1. /\ rx[r].pc = "idle" /\ \E i \in DOMAIN port[r] : port[r][i] = Newline
      /\ UNCHANGED <<now, wired, lines, relay, seen, env, mtx, api>>
      /\ port' = [port EXCEPT ![r] = rest]
  BY <1>e, <1>r, WayIs DEF ReadLine, At, Rest
<1>2. port[r] \in Seq(Texts) /\ Once(port[r]) /\ port[r] # <<>>
  <2>1. port[r] \in Seq(Texts) /\ Once(port[r])
    BY WayIs
  <2>2. DOMAIN port[r] # {}
    BY <1>1
  <2> QED BY <2>1, <2>2, EmptySeq, LenProperties
<1>3. /\ rest \in Seq(Texts) /\ Numbers(rest) \subseteq Numbers(port[r]) /\ Once(rest)
      /\ text # <<>> => /\ text[1] \in Texts
                        /\ text[1].what = "status" => /\ text[1].n \in Numbers(port[r])
                                                      /\ text[1].n \notin Numbers(rest)
  BY <1>1, <1>2, <1>e, <1>t, <1>r, LineIs
<1>4. heard \in [Roles -> Int] /\ rx \in [Roles -> Tasks] /\ now \in Nat
  BY Types
<1>i. Idle \in Tasks /\ Idle.pc = "idle"
  BY DEF Idle, Tasks, None, Never
<1>0. None \notin Numbers(port[r]) /\ now \in Int \ {Never}
  <2>1. lines.n \in Nat /\ \A n \in Numbers(port[r]) : n \in 1..lines.n
    BY WayIs
  <2>2. None \notin 1..lines.n
    BY <2>1 DEF None
  <2> QED BY <1>4, <2>1, <2>2 DEF Never
<1>5. CASE text = <<>>
  <2>1. rx' = rx /\ heard' = heard /\ handled' = handled
    BY <1>e, <1>t, <1>5 DEF ReadLine
  <2>t. PICK t : t = rx[r]
    OBVIOUS
  <2>2. /\ rx' = [rx EXCEPT ![r] = t] /\ t \in Tasks /\ t.pc = "idle"
        /\ heard' = [q \in Roles |-> IF q \in {} THEN now ELSE heard[q]] /\ handled' = handled
    BY <1>1, <1>4, <2>1, <2>t
  <2>3. {} \in SUBSET Roles
    OBVIOUS
  <2> QED BY <1>0, <1>1, <1>2, <1>3, <2>2, <2>3, LineRead
<1>6. CASE text # <<>>
  <2>m. PICK meaning \in Meanings(text) \cup {"unparsed"} :
          LET env1 == meaning = "status"
              null == meaning \in {"junk", "unparsed"}
              counts == (IF null THEN {} ELSE {r})
                           \cup (IF env1 THEN {"status"} ELSE {})
          IN  /\ rx' = [rx EXCEPT ![r] =
                      IF null THEN Idle
                      ELSE [pc |-> "seen", line |-> IF env1 THEN text[1].n ELSE None,
                            at |-> now, words |-> Words]]
              /\ heard' = [q \in Roles |-> IF q \in counts THEN now ELSE heard[q]]
              /\ handled' = IF env1 THEN [handled EXCEPT ![text[1].n] = now]
                            ELSE IF meaning = "unparsed" /\ text[1].what = "status"
                            THEN [handled EXCEPT ![text[1].n] = NoMemory] ELSE handled
    BY <1>e, <1>t, <1>6 DEF ReadLine
  <2>1. meaning = "status" => text[1].what = "status"
    BY DEF Meanings
  <2>2. CASE meaning = "junk"
    <3>1. /\ rx' = [rx EXCEPT ![r] = Idle] /\ handled' = handled
          /\ heard' = [q \in Roles |-> IF q \in {} THEN now ELSE heard[q]]
      BY <2>m, <2>2
    <3>2. {} \in SUBSET Roles
      OBVIOUS
    <3> QED BY <1>0, <1>1, <1>2, <1>3, <1>i, <3>1, <3>2, LineRead
  <2>5. CASE meaning = "unparsed"
    <3>1. /\ rx' = [rx EXCEPT ![r] = Idle]
          /\ heard' = [q \in Roles |-> IF q \in {} THEN now ELSE heard[q]]
          /\ handled' = IF text[1].what = "status"
                        THEN [handled EXCEPT ![text[1].n] = NoMemory] ELSE handled
      BY <2>m, <2>5
    <3>2. {} \in SUBSET Roles /\ NoMemory \in Int \ {Never}
      BY DEF NoMemory, Never
    <3>3. CASE text[1].what = "status"
      <4>n. PICK n : n = text[1].n
        OBVIOUS
      <4>1. /\ n \in Numbers(port[r]) /\ n \notin Numbers(rest) /\ n # None
            /\ handled' = [handled EXCEPT ![n] = NoMemory]
        BY <1>0, <1>3, <1>6, <3>1, <3>3, <4>n
      <4>t. PICK t \in Tasks : t = Idle /\ t.pc = "idle" /\ t.pc # "seen"
        BY <1>i
      <4>2. /\ rx' = [rx EXCEPT ![r] = t]
            /\ heard' = [q \in Roles |-> IF q \in {} THEN now ELSE heard[q]]
        BY <3>1, <4>t
      <4>3. Once(rest) /\ rest \in Seq(Texts) /\ Numbers(rest) \subseteq Numbers(port[r])
        BY <1>3
      <4> QED BY <1>1, <1>2, <3>2, <4>t, <4>1, <4>2, <4>3, LineRead
    <3>4. CASE text[1].what # "status"
      BY <1>0, <1>1, <1>2, <1>3, <1>i, <3>1, <3>2, <3>4, LineRead
    <3> QED BY <3>3, <3>4
  <2>3. CASE meaning \notin {"junk", "unparsed", "status"}
    <3>t. PICK t : t = [pc |-> "seen", line |-> None, at |-> now, words |-> Words]
      OBVIOUS
    <3>1. /\ rx' = [rx EXCEPT ![r] = t] /\ handled' = handled
          /\ heard' = [q \in Roles |-> IF q \in {r} THEN now ELSE heard[q]]
      BY <2>m, <2>3, <3>t
    <3>2. /\ t \in Tasks /\ t.pc = "seen" /\ t.line = None /\ t.at = now /\ t.words = Words
          /\ {r} \in SUBSET Roles
      BY <1>4, <3>t DEF Tasks, None
    <3> QED BY <1>0, <1>1, <1>2, <1>3, <3>1, <3>2, LineRead
  <2>4. CASE meaning = "status"
    <3>t. PICK t : t = [pc |-> "seen", line |-> text[1].n, at |-> now, words |-> Words]
      OBVIOUS
    <3>1. /\ rx' = [rx EXCEPT ![r] = t] /\ handled' = [handled EXCEPT ![text[1].n] = now]
          /\ heard' = [q \in Roles |-> IF q \in {r, "status"} THEN now ELSE heard[q]]
      <4>1. {r} \cup {"status"} = {r, "status"}
        OBVIOUS
      <4> QED BY <2>m, <2>4, <3>t, <4>1
    <3>2. /\ text[1].n \in Numbers(port[r]) /\ text[1].n \notin Numbers(rest) /\ text[1].n \in Nat
      BY <1>3, <1>6, <2>1, <2>4 DEF Texts
    <3>3. text[1].n # None
      <4>1. text[1].n \in 1..lines.n
        BY <3>2, WayIs
      <4> QED BY <4>1 DEF None
    <3>4. /\ t \in Tasks /\ t.pc = "seen" /\ t.line = text[1].n /\ t.at = now /\ t.words = Words
          /\ {r, "status"} \in SUBSET Roles
      BY <1>4, <3>2, <3>t DEF Tasks, Roles
    <3>n. PICK n : n = text[1].n
      OBVIOUS
    <3>c. PICK counts \in SUBSET Roles : counts = {r, "status"}
      BY <3>4
    <3>5. /\ n \in Numbers(port[r]) /\ n \notin Numbers(rest) /\ n # None /\ t.line = n
          /\ handled' = [handled EXCEPT ![n] = now] /\ t.pc = "seen"
          /\ heard' = [q \in Roles |-> IF q \in counts THEN now ELSE heard[q]]
      BY <3>1, <3>2, <3>3, <3>4, <3>n, <3>c
    <3>6. t \in Tasks /\ t.at = now /\ t.words = Words /\ rx' = [rx EXCEPT ![r] = t]
      BY <3>1, <3>4
    <3>7. r \in counts /\ "status" \in counts /\ counts \subseteq {r, "status"}
      BY <3>c
    <3>8. Once(rest) /\ rest \in Seq(Texts) /\ Numbers(rest) \subseteq Numbers(port[r])
      BY <1>3
    <3>m. PICK mark \in Int \ {Never} : mark = now
      BY <1>0
    <3>9. /\ t.pc \in {"idle", "seen"}
          /\ t.pc = "seen" => t.at = now /\ t.words = Words /\ r \in counts
          /\ counts \subseteq {r, "status"} /\ (counts # {} => t.pc = "seen")
          /\ "status" \in counts => r = "status" \/ t.line # None
          /\ \/ handled' = handled /\ n = None
             \/ /\ n \in Numbers(port[r]) /\ n \notin Numbers(rest) /\ n # None
                /\ handled' = [handled EXCEPT ![n] = mark]
          /\ t.pc = "seen" /\ t.line # None => n = t.line /\ mark = now /\ "status" \in counts
      BY <3>5, <3>6, <3>7, <3>m
    <3>10. /\ rx[r].pc = "idle" /\ port[r] # <<>> /\ port' = [port EXCEPT ![r] = rest]
           /\ UNCHANGED <<now, wired, lines, relay, seen, env, mtx, api>>
      BY <1>1, <1>2
    <3> QED BY <3>5, <3>6, <3>8, <3>9, <3>10, LineRead
  <2> QED BY <2>2, <2>3, <2>4, <2>5
<1> QED BY <1>5, <1>6
-----------------------------------------------------------------------------
(* The rx tasks: what is done with a line *)

\* Task r goes on with its line as t.
LEMMA TaskStep ==
    ASSUME StatusInv, NEW r \in Roles, NEW t \in Tasks, rx' = [rx EXCEPT ![r] = t],
           UNCHANGED <<now, wired, lines, relay, port, api, heard, handled>>,
           rx[r].pc # "idle", t.line = rx[r].line, t.at = rx[r].at,
           t.pc = "seen" => rx[r].pc = "seen",
           t.pc \notin {"idle", "seen"} => t.line # None,
           seen' \in [Roles -> TwoWords], env' \in [json : Int, time : Int],
           mtx' \in Roles \cup {"free"},
           t.pc \in {"free", "copy", "time"} <=> mtx' = r,
           mtx' # mtx => {mtx, mtx'} \subseteq {r, "free"},
           Fresh', Weather', Stored'
    PROVE  StatusInv'
<1>1. /\ rx' \in [Roles -> Tasks] /\ rx'[r] = t /\ \A q \in Roles \ {r} : rx'[q] = rx[q]
  BY Types
<1>2. Shape' /\ OnTheWay'
  BY <1>1, Facts DEF Shape, OnTheWay, Unhandled
<1>3. \A q \in Roles \ {r} : mtx' = q <=> mtx = q
  BY DEF Roles
<1>4. Handling'
  <2>1. ASSUME NEW q \in Roles \ {r}
        PROVE  rx[q].pc # "idle" =>
            /\ rx[q].at = now /\ (rx[q].pc = "seen" => heard[q] = now)
            /\ rx[q].pc # "seen" => rx[q].line # None
            /\ rx[q].line # None => q = wired /\ rx[q].line \in 1..MaxLines
                                  /\ handled[rx[q].line] = now /\ heard["status"] = now
            /\ rx[q].pc \in {"free", "copy", "time"} <=> mtx' = q
    BY <1>3, Facts DEF Handling
  <2>2. t.pc # "idle" =>
            /\ t.at = now /\ (t.pc = "seen" => heard[r] = now)
            /\ t.pc # "seen" => t.line # None
            /\ t.line # None => r = wired /\ t.line \in 1..MaxLines
                                /\ handled[t.line] = now /\ heard["status"] = now
            /\ t.pc \in {"free", "copy", "time"} <=> mtx' = r
    BY Facts DEF Handling
  <2> QED BY <1>1, <2>1, <2>2 DEF Handling
<1>5. MutexTaken'
  BY <1>1, <1>3, Facts DEF MutexTaken
<1>6. Answers'
  BY Facts DEF Answers
<1>7. PortUnused'
  BY <1>1, Facts DEF PortUnused, Roles
<1> QED BY <1>2, <1>4, <1>5, <1>6, <1>7 DEF StatusInv

LEMMA StoreStep ==
    ASSUME StatusInv, NEW r \in Roles, NEW w \in Words,
           StoreSeen(r, w) \/ StoreStatus(r, w)
    PROVE  StatusInv'
<1>q. PICK q \in Roles, next \in {"idle", "lock"} :
          /\ Store(r, q, w, next)
          /\ \/ rx[r].pc = "seen" /\ q = r /\ (next = "lock" <=> rx[r].line # None)
             \/ rx[r].pc = "also" /\ q = "status" /\ next = "idle"
  <2>1. CASE StoreSeen(r, w)
    <3>1. CASE rx[r].line = None
      BY <2>1, <3>1 DEF StoreSeen, NotedFirst, At
    <3>2. CASE rx[r].line # None
      BY <2>1, <3>2 DEF StoreSeen, NotedFirst, At
    <3> QED BY <3>1, <3>2
  <2>2. CASE StoreStatus(r, w)
    BY <2>2 DEF StoreStatus, At, Roles
  <2> QED BY <2>1, <2>2
<1>p. PICK pc \in {"seen", "also", "idle", "lock"} :
          pc = IF rx[r].words = {w} THEN next ELSE rx[r].pc
  BY <1>q
<1>s. PICK left \in SUBSET Words : left = rx[r].words \ {w}
  BY Types
<1>t. PICK t : t = [rx[r] EXCEPT !.words = left, !.pc = pc]
  OBVIOUS
<1>1. /\ w \in rx[r].words /\ seen' = [seen EXCEPT ![q][w] = Split(rx[r].at)[w]]
      /\ rx' = [rx EXCEPT ![r].words = @ \ {w},
                          ![r].pc = IF rx[r].words = {w} THEN next ELSE @]
      /\ UNCHANGED <<now, wired, lines, relay, port, env, mtx, api, heard, handled>>
  BY <1>q DEF Store, Rest
<1>2. /\ t \in Tasks /\ t.pc = pc /\ t.words = left /\ t.line = rx[r].line /\ t.at = rx[r].at
      /\ rx' = [rx EXCEPT ![r] = t]
  <2>1. rx[r] \in Tasks /\ rx \in [Roles -> Tasks]
    BY Types
  <2>2. t \in Tasks /\ t.pc = pc /\ t.words = left /\ t.line = rx[r].line /\ t.at = rx[r].at
    BY <1>t, <2>1 DEF Tasks
  <2>3. rx' = [rx EXCEPT ![r] = t]
    BY <1>1, <1>p, <1>s, <1>t, <2>1 DEF Tasks
  <2> QED BY <2>2, <2>3
<1>3. rx[r].at = now /\ heard[q] = now /\ (rx[r].pc = "also" => rx[r].line # None)
  BY <1>q, Facts DEF Handling
<1>4. /\ seen' \in [Roles -> TwoWords] /\ seen'[q][w] = Split(heard[q])[w]
      /\ \A p \in Roles : \A v \in Words : p # q \/ v # w => seen'[p][v] = seen[p][v]
  <2>1. PICK x \in Int : x = Split(rx[r].at)[w]
    BY SplitIs, Types
  <2>2. seen \in [Roles -> TwoWords] /\ seen[q] \in TwoWords
    BY Types
  <2>3. seen' = [seen EXCEPT ![q] = [seen[q] EXCEPT ![w] = x]]
    BY <1>1, <2>1, <2>2
  <2>4. PICK two \in TwoWords : two = [seen[q] EXCEPT ![w] = x]
    BY <2>2 DEF TwoWords
  <2>5. two[w] = x /\ \A v \in Words \ {w} : two[v] = seen[q][v]
    BY <2>2, <2>4 DEF TwoWords
  <2>6. seen' \in [Roles -> TwoWords] /\ seen'[q] = two /\ \A p \in Roles \ {q} : seen'[p] = seen[p]
    BY <2>2, <2>3, <2>4
  <2> QED BY <1>3, <2>1, <2>5, <2>6
<1>5. rx'[r] = t /\ \A p \in Roles \ {r} : rx'[p] = rx[p]
  BY <1>2, Types
<1>6. Fresh'
  <2>1. ASSUME NEW p \in Roles, NEW v \in Words, p # q \/ v # w
        PROVE  \/ seen'[p][v] = Split(heard[p])[v]
               \/ heard[p] = now /\ \E o \in Roles : Owes(o, p, v)'
    <3>1. \/ seen[p][v] = Split(heard[p])[v]
          \/ heard[p] = now /\ \E o \in Roles : Owes(o, p, v)
      BY Facts DEF Fresh
    <3>2. ASSUME NEW o \in Roles, Owes(o, p, v) PROVE Owes(o, p, v)'
      <4>1. CASE o # r
        BY <1>5, <3>2, <4>1 DEF Owes
      <4>2. CASE o = r /\ rx[r].pc = "seen"
        <5>1. CASE p = r
          <6>2. CASE v \in rx[r].words
            <7>1. v # w
              BY <1>q, <2>1, <4>2, <5>1
            <7>2. v \in left /\ pc = "seen"
              BY <1>p, <1>s, <4>2, <6>2, <7>1
            <7> QED BY <1>2, <1>5, <4>2, <5>1, <7>2 DEF Owes
          <6>3. CASE v \notin rx[r].words
            <7>1. p = "status" /\ rx[r].line # None
              BY <3>2, <4>2, <6>3 DEF Owes
            <7>2. pc \in {"seen", "lock"}
              BY <1>q, <1>p, <4>2, <7>1
            <7> QED BY <1>2, <1>5, <4>2, <7>1, <7>2 DEF Owes
          <6> QED BY <6>2, <6>3
        <5>2. CASE p # r
          <6>1. p = "status" /\ rx[r].line # None
            BY <3>2, <4>2, <5>2 DEF Owes
          <6>2. pc \in {"seen", "lock"}
            BY <1>q, <1>p, <4>2, <6>1
          <6> QED BY <1>2, <1>5, <4>2, <6>1, <6>2 DEF Owes
        <5> QED BY <5>1, <5>2
      <4>3. CASE o = r /\ rx[r].pc = "also"
        <5>1. p = "status" /\ rx[r].line # None /\ v \in rx[r].words
          BY <3>2, <4>3 DEF Owes
        <5>2. v \in left /\ pc = "also"
          BY <1>q, <1>p, <1>s, <2>1, <4>3, <5>1
        <5> QED BY <1>2, <1>5, <4>3, <5>1, <5>2 DEF Owes
      <4> QED BY <1>q, <4>1, <4>2, <4>3
    <3> QED BY <1>4, <2>1, <3>1, <3>2
  <2>2. ASSUME NEW p \in Roles, NEW v \in Words
        PROVE  \/ seen'[p][v] = Split(heard[p])[v]
               \/ heard[p] = now /\ \E o \in Roles : Owes(o, p, v)'
    BY <1>4, <2>1
  <2> QED BY <1>1, <2>2, Facts DEF Fresh
<1>7. Weather'
  <2>1. pc \notin {"time", "free"}
    OBVIOUS
  <2> QED BY <1>1, <1>2, <1>5, <2>1, Facts DEF Weather, OfALine
<1>8. Stored'
  <2> SUFFICES ASSUME wired = "wroom2", env.json = None
               PROVE  /\ \A p \in Roles : rx'[p].pc # "also"
                      /\ seen'["status"] = Split(Never)
    BY <1>1, Facts DEF Stored
  <2>1. /\ \A p \in Roles : rx[p].pc # "also"
        /\ seen["status"] = Split(Never) /\ rx["status"].pc = "idle"
    BY Facts DEF Stored, PortUnused
  <2>2. q = r /\ q # "status" /\ pc # "also"
    BY <1>q, <1>p, <2>1
  <2>3. seen'["status"] = seen["status"]
    <3>1. seen' = [seen EXCEPT ![q] = [seen[q] EXCEPT ![w] = Split(rx[r].at)[w]]]
      BY <1>1, Types
    <3> QED BY <2>2, <3>1, Types DEF Roles
  <2> QED BY <1>2, <1>5, <2>1, <2>2, <2>3
<1>9. /\ rx[r].pc # "idle" /\ (t.pc = "seen" => rx[r].pc = "seen")
      /\ t.pc \notin {"idle", "seen"} => t.line # None
      /\ mtx # r
  <2>1. mtx # r
    BY <1>q, Facts DEF MutexTaken
  <2> QED BY <1>q, <1>p, <1>2, <1>3, <2>1
<1>10. /\ env' \in [json : Int, time : Int] /\ mtx' \in Roles \cup {"free"} /\ mtx' = mtx
       /\ t.pc \in {"free", "copy", "time"} <=> mtx' = r
  BY <1>1, <1>2, <1>9, Types
<1> QED BY <1>1, <1>2, <1>4, <1>6, <1>7, <1>8, <1>9, <1>10, TaskStep

\* A task owes the same with a line for the station, before and after.
LEMMA OwesStill ==
    ASSUME StatusInv, NEW r \in Roles, rx'[r].line = rx[r].line, rx[r].line # None,
           rx[r].pc \in {"lock", "free", "copy", "time"},
           \/ rx'[r].pc \in {"free", "copy", "time"}
           \/ rx'[r].pc = "also" /\ rx'[r].words = Words,
           \A q \in Roles \ {r} : rx'[q] = rx[q], seen' = seen, heard' = heard, now' = now
    PROVE  Fresh'
<1>1. ASSUME NEW p \in Roles, NEW v \in Words, NEW o \in Roles, Owes(o, p, v)
      PROVE  Owes(o, p, v)'
  <2>1. CASE o # r
    BY <1>1, <2>1 DEF Owes
  <2>2. CASE o = r
    BY <1>1, <2>2 DEF Owes
  <2> QED BY <2>1, <2>2
<1>2. \A p \in Roles : heard[p] \in Never..now
  BY Facts DEF Fresh
<1>3. ASSUME NEW p \in Roles, NEW v \in Words
      PROVE  \/ seen[p][v] = Split(heard[p])[v]
             \/ heard[p] = now /\ \E o \in Roles : Owes(o, p, v)'
  BY <1>1, Facts DEF Fresh
<1> QED BY <1>2, <1>3 DEF Fresh

\* The task that holds s_mtx, or takes it, goes on to pc.
LEMMA EnvStep ==
    ASSUME StatusInv, NEW r \in Roles, rx[r].pc \in {"lock", "free", "copy"},
           NEW pc \in {"free", "copy", "time"}, rx' = [rx EXCEPT ![r].pc = pc],
           UNCHANGED <<now, wired, lines, relay, port, seen, api, heard, handled>>,
           mtx' = r, mtx \in {r, "free"}, env' \in [json : Int, time : Int],
           env'.json \in Weathers,
           pc = "time" => env'.json \in {rx[r].line, Lacks(rx[r].line)},
           pc = "free" => env'.json # Freed,
           env'.json = None => env.json = None
    PROVE  StatusInv'
<1>t. PICK t : t = [rx[r] EXCEPT !.pc = pc]
  OBVIOUS
<1>1. /\ t \in Tasks /\ t.pc = pc /\ t.line = rx[r].line /\ t.at = rx[r].at
      /\ rx' = [rx EXCEPT ![r] = t]
  BY <1>t, Types DEF Tasks
<1>2. rx'[r] = t /\ \A q \in Roles \ {r} : rx'[q] = rx[q]
  BY <1>1, Types
<1>3. rx[r].line # None
  BY Facts DEF Handling
<1>4. Fresh'
  <2>1. rx'[r].line = rx[r].line /\ rx'[r].pc \in {"free", "copy", "time"}
    BY <1>1, <1>2
  <2> QED BY <1>2, <1>3, <2>1, OwesStill
<1>5. Weather'
  <2>1. ASSUME NEW q \in Roles \ {r} PROVE rx'[q].pc \notin {"time", "free"}
    <3>1. mtx # q
      BY DEF Roles
    <3> QED BY <1>2, <3>1, Facts DEF Handling
  <2>2. mtx' # "free"
    BY DEF Roles
  <2> QED BY <1>1, <1>2, <2>1, <2>2 DEF Weather
<1>6. Stored'
  BY <1>1, <1>2, Facts DEF Stored
<1>7. seen' \in [Roles -> TwoWords] /\ mtx' \in Roles \cup {"free"}
  BY Types
<1>8. /\ rx[r].pc # "idle" /\ t.pc # "seen" /\ t.line # None
      /\ t.pc \in {"free", "copy", "time"} <=> mtx' = r
      /\ mtx' # mtx => {mtx, mtx'} \subseteq {r, "free"}
  BY <1>1, <1>3
<1> QED BY <1>1, <1>4, <1>5, <1>6, <1>7, <1>8, TaskStep

LEMMA WeathersAre ==
    /\ {None, Freed} \subseteq Weathers /\ Weathers \subseteq Int /\ Freed # None
    /\ \A n \in 1..MaxLines : /\ n \in Weathers /\ n # None
                              /\ Lacks(n) \in Weathers /\ Lacks(n) # None /\ Lacks(n) # Freed
                              /\ n # Freed
<1>1. MaxLines \in Nat \ {0}
  BY StatusAssumption
<1> QED BY <1>1 DEF Weathers, Lacks, None, Freed

LEMMA LockStep ==
    ASSUME StatusInv, NEW r \in Roles, LockEnv(r) \/ FreeJson(r) \/ CopyJson(r)
    PROVE  StatusInv'
<1>0. UNCHANGED <<now, wired, lines, relay, port, seen, api, heard, handled>>
  BY DEF LockEnv, FreeJson, CopyJson, Rest
<1>1. CASE LockEnv(r)
  <2>1. /\ rx[r].pc = "lock" /\ mtx = "free" /\ mtx' = r /\ env' = env
        /\ rx' = [rx EXCEPT ![r].pc = "free"]
    BY <1>1 DEF LockEnv, At, CanLock, Become
  <2>2. env.json \in Weathers /\ env.json # Freed
    BY <2>1, Facts DEF Weather
  <2> QED BY <1>0, <2>1, <2>2, Types, EnvStep
<1>2. CASE FreeJson(r)
  <2>j. PICK j : j = IF env.json \in 1..MaxLines THEN Freed ELSE env.json
    OBVIOUS
  <2>1. /\ rx[r].pc = "free" /\ mtx' = mtx /\ env' = [env EXCEPT !.json = j]
        /\ rx' = [rx EXCEPT ![r].pc = "copy"]
    BY <1>2, <2>j DEF FreeJson, At, Become
  <2>2. j \in Weathers /\ j \in Int /\ (j = None => env.json = None)
    <3>1. env.json \in Weathers /\ Freed \in Weathers /\ Freed \in Int /\ Freed # None
      BY WeathersAre, Facts DEF Weather
    <3> QED BY <2>j, <3>1, Types
  <2>3. env' \in [json : Int, time : Int] /\ env'.json = j
    BY <2>1, <2>2, Types
  <2>4. mtx = r
    BY <2>1, Facts DEF Handling
  <2> QED BY <1>0, <2>1, <2>2, <2>3, <2>4, EnvStep
<1>3. CASE CopyJson(r)
  <2>j. PICK j \in {rx[r].line, Lacks(rx[r].line)} : env' = [env EXCEPT !.json = j]
    BY <1>3 DEF CopyJson
  <2>1. rx[r].pc = "copy" /\ mtx' = mtx /\ rx' = [rx EXCEPT ![r].pc = "time"]
    BY <1>3 DEF CopyJson, At, Become
  <2>2. mtx = r /\ rx[r].line \in 1..MaxLines
    BY <2>1, Facts DEF Handling
  <2>3. j \in Weathers /\ j \in Int /\ j # None
    BY <2>j, <2>2, WeathersAre
  <2>4. env' \in [json : Int, time : Int] /\ env'.json = j
    BY <2>j, <2>3, Types
  <2> QED BY <1>0, <2>j, <2>1, <2>2, <2>3, <2>4, EnvStep
<1> QED BY <1>1, <1>2, <1>3

LEMMA StoreTimeStep ==
    ASSUME StatusInv, NEW r \in Roles, StoreTime(r)
    PROVE  StatusInv'
<1>1. /\ rx[r].pc = "time" /\ env' = [env EXCEPT !.time = rx[r].at] /\ mtx' = "free"
      /\ rx' = [rx EXCEPT ![r].pc = "also", ![r].words = Words]
      /\ UNCHANGED <<now, wired, lines, relay, port, seen, api, heard, handled>>
  BY DEF StoreTime, At, Rest
<1>t. PICK t : t = [rx[r] EXCEPT !.pc = "also", !.words = Words]
  OBVIOUS
<1>2. /\ t \in Tasks /\ t.pc = "also" /\ t.line = rx[r].line /\ t.at = rx[r].at
      /\ t.words = Words /\ rx' = [rx EXCEPT ![r] = t]
  BY <1>1, <1>t, Types DEF Tasks
<1>3. rx'[r] = t /\ \A q \in Roles \ {r} : rx'[q] = rx[q]
  BY <1>2, Types
<1>4. /\ rx[r].at = now /\ rx[r].line \in 1..MaxLines /\ handled[rx[r].line] = now
      /\ mtx = r /\ env.json \in {rx[r].line, Lacks(rx[r].line)} /\ rx[r].line # None
  BY <1>1, Facts DEF Handling, Weather
<1>5. env' \in [json : Int, time : Int] /\ env'.json = env.json /\ env'.time = now
  BY <1>1, <1>4, Types
<1>6. Fresh'
  BY <1>1, <1>2, <1>3, <1>4, OwesStill
<1>7. Weather'
  <2>1. ASSUME NEW q \in Roles PROVE rx'[q].pc \notin {"time", "free"}
    <3>1. CASE q = r
      BY <1>2, <1>3, <3>1
    <3>2. CASE q # r
      BY <1>3, <1>4, <3>2, Facts DEF Handling
    <3> QED BY <3>1, <3>2
  <2>2. env'.json \in Weathers /\ env'.json # Freed
    BY <1>4, <1>5, WeathersAre
  <2>3. OfALine(env.json, env.time)'
    <3>1. /\ rx[r].line \in 1..MaxLines /\ env'.json \in {rx[r].line, Lacks(rx[r].line)}
          /\ env'.time = handled'[rx[r].line] /\ env'.time \in Nat
      BY <1>1, <1>4, <1>5, Types
    <3> QED BY <3>1 DEF OfALine
  <2> QED BY <1>1, <2>1, <2>2, <2>3 DEF Weather
<1>8. Stored'
  <2>1. env'.json # None
    BY <1>4, <1>5, WeathersAre
  <2> QED BY <2>1 DEF Stored
<1>9. /\ seen' \in [Roles -> TwoWords] /\ mtx' \in Roles \cup {"free"} /\ mtx' # r
      /\ mtx' # mtx => {mtx, mtx'} \subseteq {r, "free"}
  BY <1>1, <1>4, Types DEF Roles
<1> QED BY <1>1, <1>2, <1>4, <1>5, <1>6, <1>7, <1>8, <1>9, TaskStep
-----------------------------------------------------------------------------
(* The invariant and what it shows *)

LEMMA InitInv == Init => StatusInv
<1> SUFFICES ASSUME Init PROVE StatusInv
  OBVIOUS
<1>1. /\ now = 0 /\ wired \in Roles /\ lines = [n |-> 0, size |-> 0]
      /\ relay = [todo |-> <<>>, between |-> FALSE]
      /\ port = [r \in Roles |-> <<>>] /\ seen = [r \in Roles |-> Split(Never)]
      /\ env = [json |-> None, time |-> Never] /\ mtx = "free"
      /\ rx = [r \in Roles |-> Idle] /\ api = NoRequest
      /\ heard = [r \in Roles |-> Never] /\ handled = [n \in 1..MaxLines |-> Never]
  BY DEF Init
<1>2. /\ MaxLines \in Nat \ {0} /\ Idle \in Tasks /\ Idle.pc = "idle" /\ Never \in Int
  BY StatusAssumption DEF Idle, Tasks, None, Never
<1>3. <<>> \in Seq(Texts) /\ <<>> \in Seq(Nat) /\ Len(<<>>) = 0
  OBVIOUS
<1>4. Numbers(<<>>) = {} /\ Once(<<>>)
  BY DEF Numbers, Once, Lines
<1>5. Shape
  <2>1. /\ relay \in [todo : Seq(Texts), between : BOOLEAN] /\ port \in [Roles -> Seq(Texts)]
        /\ lines \in [n : Nat, size : Nat] /\ lines.n <= MaxLines
    BY <1>1, <1>2, <1>3
  <2>2. seen \in [Roles -> TwoWords] /\ rx \in [Roles -> Tasks] /\ api \in Requests
    BY <1>1, <1>2, NoRequestIs
  <2>3. /\ env \in [json : Int, time : Int] /\ heard \in [Roles -> Int]
        /\ handled \in [1..MaxLines -> Int] /\ mtx \in Roles \cup {"free"} /\ now \in Nat
    BY <1>1, <1>2 DEF None
  <2> QED BY <1>1, <2>1, <2>2, <2>3 DEF Shape
<1>6. OnTheWay
  <2>1. relay.todo = <<>> /\ \A r \in Roles : port[r] = <<>>
    BY <1>1
  <2>2. \A n \in 1..MaxLines : handled[n] = Never
    BY <1>1
  <2> QED BY <1>4, <2>1, <2>2 DEF OnTheWay
<1>7. Handling /\ MutexTaken /\ PortUnused
  BY <1>1, <1>2 DEF Handling, MutexTaken, PortUnused, Roles
<1>8. Fresh
  <2>1. \A r \in Roles : heard[r] = Never /\ seen[r] = Split(Never)
    BY <1>1
  <2>2. Never \in Never..now
    BY <1>1 DEF Never
  <2> QED BY <2>1, <2>2 DEF Fresh
<1>9. Answers
  BY <1>1, NoRequestIs DEF Answers
<1>10. Weather
  <2>1. env.json = None /\ mtx = "free" /\ \A r \in Roles : rx[r].pc = "idle"
    BY <1>1, <1>2
  <2> QED BY <2>1, WeathersAre DEF Weather
<1>11. Stored
  BY <1>1, <1>2, NoRequestIs DEF Stored, Roles
<1> QED BY <1>5, <1>6, <1>7, <1>8, <1>9, <1>10, <1>11 DEF StatusInv

LEMMA StatusStep == StatusInv /\ [Next]_vars => StatusInv'
<1> SUFFICES ASSUME StatusInv, [Next]_vars PROVE StatusInv'
  OBVIOUS
<1>1. ASSUME NEW size \in Sizes, WriteStatus(size) PROVE StatusInv'
  BY <1>1, WriteStatusStep
<1>2. CASE Relay
  BY <1>2, RelayLineStep, RelayEndStep DEF Relay
<1>3. CASE Heartbeat
  BY <1>3, HeartbeatStep
<1>4. CASE Tick
  BY <1>4, TickStep
<1>5. CASE Answer
  BY <1>5, AskStep, ReadSeenStep DEF Answer
<1>6. ASSUME NEW r \in Roles, Handle(r) PROVE StatusInv'
  BY <1>6, ReadLineStep, LockStep, StoreTimeStep, StoreStep DEF Handle
<1>7. CASE UNCHANGED vars
  BY <1>7 DEF vars, StatusInv, Shape, OnTheWay, Unhandled, Handling, MutexTaken, Fresh, Owes,
              Answers, Weather, OfALine, Stored, PortUnused
<1> QED BY <1>1, <1>2, <1>3, <1>4, <1>5, <1>6, <1>7 DEF Next

\* What the tasks of the hub and the boards keep: each line of the station is in one
\* place until it is handled, a word of s_last_seen that is not of the time a role was
\* last heard is about to be written, and half a weather is seen by who holds s_mtx.
THEOREM StatusInvariant == Spec => []StatusInv
<1>1. Init => StatusInv
  BY InitInv
<1>2. StatusInv /\ [Next]_vars => StatusInv'
  BY StatusStep
<1> QED BY <1>1, <1>2, PTL DEF Spec

\* No page shows a board as online that has not been heard for NODE_OFFLINE_MS, or
\* never, however the two words of its time are read while the tasks write them.
THEOREM OnlyHeardBoardsAreOnline == Spec => OnlineOnlyIfHeard
<1>1. StatusInv /\ [Next]_vars =>
        [\A weather \in Weathers : ReadEnv(weather) =>
            \A r \in api.online : heard[r] # Never /\ api.at - heard[r] < OfflineAfter]_vars
  <2> SUFFICES ASSUME StatusInv, NEW weather \in Weathers, ReadEnv(weather)
               PROVE  \A r \in api.online : heard[r] # Never /\ api.at - heard[r] < OfflineAfter
    OBVIOUS
  <2>1. api.pc = "env"
    BY DEF ReadEnv
  <2> QED BY <2>1, Facts DEF Answers
<1> QED BY <1>1, StatusInvariant, PTL DEF Spec, OnlineOnlyIfHeard

\* The weather of a page is the text of one line with the time that line was handled,
\* not freed memory and not half of another line's; a page without weather lacks the
\* text of a line with that time, or no line was stored yet.
THEOREM WeatherIsOfOneLine == Spec => WeatherOfOneLine
<1>1. StatusInv /\ [Next]_vars =>
        [\A weather \in Weathers : ReadEnv(weather) /\ weather # None =>
            \E n \in 1..MaxLines : weather \in {n, Lacks(n)} /\ env.time = handled[n]]_vars
  <2> SUFFICES ASSUME StatusInv, NEW weather \in Weathers, ReadEnv(weather), weather # None
               PROVE  \E n \in 1..MaxLines : weather \in {n, Lacks(n)} /\ env.time = handled[n]
    OBVIOUS
  <2>1. /\ mtx = "free"
        /\ \/ weather = env.json
           \/ env.json \in 1..MaxLines /\ weather = Lacks(env.json)
    BY DEF ReadEnv, CanLock
  <2>2. env.json # None
    BY <2>1, WeathersAre
  <2>3. PICK n \in 1..MaxLines : env.json \in {n, Lacks(n)} /\ env.time = handled[n]
    BY <2>1, <2>2, Facts DEF Weather, OfALine
  <2>4. env.json \in 1..MaxLines => env.json = n
    <3>1. Lacks(n) \notin 1..MaxLines
      BY DEF Lacks, Freed
    <3> QED BY <2>3, <3>1
  <2> QED BY <2>1, <2>3, <2>4
<1> QED BY <1>1, StatusInvariant, PTL DEF Spec, WeatherOfOneLine

\* With the station behind the media board, a page that shows it online has weather,
\* or there was no memory for a copy of it.
THEOREM WeatherComesWithTheBadge == Spec => WeatherWithBadge
<1>1. StatusInv /\ [Next]_vars =>
        [\A weather \in Weathers :
            ReadEnv(weather) /\ wired = "wroom2" /\ "status" \in api.online => weather # None]_vars
  <2> SUFFICES ASSUME StatusInv, NEW weather \in Weathers, ReadEnv(weather),
                      wired = "wroom2", "status" \in api.online
               PROVE  weather # None
    OBVIOUS
  <2>1. env.json # None
    BY Facts DEF Stored
  <2>2. weather = env.json \/ (env.json \in 1..MaxLines /\ weather = Lacks(env.json))
    BY DEF ReadEnv
  <2> QED BY <2>1, <2>2, WeathersAre
<1> QED BY <1>1, StatusInvariant, PTL DEF Spec, WeatherWithBadge
=============================================================================
