------------------------ MODULE ArchiveServerProofs ------------------------
(***************************************************************************)
(* Proofs about the pool of workers and the portal's archive server, for   *)
(* any number of sockets and workers, any queue and any archive: a request *)
(* that is handed to the workers has one owner at any time (OneOwner), it  *)
(* is answered once (AnsweredOnce), and with the page that was asked for   *)
(* (RightAnswer).                                                          *)
(*                                                                         *)
(* The invariant has two halves.  OwnInv says who has a socket; it is      *)
(* inductive by itself.  AnswerInv says what has been answered on it so    *)
(* far, at each step of its owner, and where the archive's file stands.    *)
(***************************************************************************)
EXTENDS ArchiveServer, SequenceTheorems, FiniteSetTheorems, TLAPS

HttpdSteps == {"idle", "route", "file", "titles", "answered", "begun", "refused"}
\* At these, the server task has the copy of the request.
CopySteps == {"begun", "refused"}
WorkerSteps ==
    {"idle", "serve", "resolve", "hop", "cluster", "copy", "piece", "read", "served"}
SomeSocket == Sockets \cup {NoSocket}

(* Who has a socket *)

OwnType ==
    /\ waiting \subseteq Sockets /\ copies \subseteq Sockets
    /\ httpd \in [step : HttpdSteps, sock : SomeSocket]
    /\ queue \in Seq(Sockets)
    /\ hand \in [Workers -> [step : WorkerSteps, sock : SomeSocket]]

\* A task is idle exactly if it has no socket.
BusyWithOne ==
    /\ httpd.step = "idle" <=> httpd.sock = NoSocket
    /\ \A w \in Workers : hand[w].step = "idle" <=> hand[w].sock = NoSocket

\* A request that waits is nobody's yet, and one that the server task answers
\* by itself was not copied.
Apart ==
    /\ waiting \cap copies = {} /\ httpd.sock \notin waiting
    /\ httpd.sock \in copies => httpd.step \in CopySteps

OwnInv == OwnType /\ BusyWithOne /\ Apart /\ OneOwner

(* What was answered on it *)

Where == [part : {"file", "blob"}, entry : Entries, i : Nat]
Pieces ==
    {Notice, LastChunk} \cup [kind : {"chunk"}, from : Where]
    \cup [kind : {"whole"}, what : {"302", "blob"}, of : Entries]
Jobs == [asked : Entries, entry : Entries, hops : Nat, i : Nat]

AnswerType ==
    /\ answers \in [Sockets -> Seq(Pieces)]
    /\ job \in [Workers -> Jobs]

\* Only the server task, at these steps, and the workers have sent anything.
Fresh ==
    \A s \in Sockets :
        \/ answers[s] = <<>>
        \/ httpd.sock = s /\ httpd.step \in {"file", "answered", "refused"}
        \/ \E w \in Workers : Sock(w) = s

HttpdAnswers ==
    /\ httpd.step = "file" => Unfinished(answers[httpd.sock])
    /\ httpd.step \in {"answered", "refused"} => WellFormed(answers[httpd.sock])
    /\ httpd.step = "titles" => sd = Httpd

\* The worker follows redirections from the entry that was asked for.
Resolving(j) ==
    /\ j.hops <= MaxHops
    /\ \E p \in [0..j.hops -> Entries] :
          p[0] = j.asked /\ p[j.hops] = j.entry /\ Follows(p, j.hops)

\* It has sent the first pieces of the page.
Sending(a, j) ==
    /\ j.i = Len(a) /\ j.i <= Archive[j.asked].blob
    /\ \A k \in 1..Len(a) : a[k] = Chunk(Piece(j.asked, k))

\* Each piece of the answer is right, as RightAnswer asks.
Right(a, j) ==
    \A i \in DOMAIN a :
        /\ a[i].kind = "chunk" => a[i].from = Piece(j.asked, i)
        /\ a[i].kind = "last" => i = Archive[j.asked].blob + 1
        /\ a[i].kind = "whole" /\ a[i].what = "302" => a[i].of \in Targets(j.asked)
        /\ a[i].kind = "whole" /\ a[i].what = "blob" => a[i].of = j.asked

\* Where the worker is with the answer a of its socket and its locals j.
WorkerAnswers(w) ==
    LET a == answers[Sock(w)]
        j == job[w] IN
    /\ Step(w) \in {"serve", "resolve", "hop", "cluster", "copy"} => a = <<>>
    /\ Step(w) \in {"resolve", "hop"} => Resolving(j)
    /\ Step(w) = "hop" => /\ MoreHops(j)
                          /\ sd = w /\ seekedTo = Dirent(Archive[j.entry].to)
    /\ Step(w) \in {"cluster", "copy", "piece", "read"} => j.entry = j.asked
    /\ Step(w) = "cluster" => j.i = 0
    /\ Step(w) \in {"piece", "read"} => Sending(a, j)
    /\ Step(w) = "read" => /\ MorePieces(j)
                           /\ sd = w /\ seekedTo = Piece(j.entry, j.i + 1)
    /\ Step(w) = "served" =>
          /\ Right(a, j)
          /\ WellFormed(a) \/ (Sock(w) \in stopped /\ Unfinished(a))

AnswerInv ==
    /\ AnswerType /\ Fresh /\ HttpdAnswers
    /\ \A w \in Workers : WorkerAnswers(w)
-----------------------------------------------------------------------------
(* The first free socket *)

(* A set of natural numbers that is not empty has a minimum. *)
LEMMA MinExists ==
    ASSUME NEW T, T \subseteq Nat, T # {}
    PROVE  Min(T) \in T
<1> DEFINE Below(x) == 0..x
           R == StrictSubsetOrdering(Nat)
           B == {Below(x) : x \in T}
<1>1. \E b \in B : \A c \in B : ~(<<c, b>> \in R)
  <2>1. \A x \in T : IsFiniteSet(Below(x)) /\ Below(x) \subseteq Nat
    BY FS_Interval
  <2>2. B \subseteq FiniteSubsetsOf(Nat) /\ B # {}
    BY <2>1 DEF FiniteSubsetsOf
  <2> QED BY <2>2, FS_StrictSubsetOrderingWellFounded, WFMin
<1>2. PICK x \in T : \A y \in T : ~(<<Below(y), Below(x)>> \in R)
  BY <1>1
<1>3. \A y \in T : x =< y
  <2> SUFFICES ASSUME NEW y \in T, y < x PROVE FALSE
    OBVIOUS
  <2>1. Below(y) \subseteq Below(x) /\ x \in Below(x) /\ x \notin Below(y)
    OBVIOUS
  <2>2. <<Below(y), Below(x)>> \in R
    BY <2>1 DEF StrictSubsetOrdering
  <2> QED BY <1>2, <2>2
<1> QED BY <1>3 DEF Min

-----------------------------------------------------------------------------
(* Who has a socket: lemmas on the queue *)

(* Putting a request that is not there into the queue, and taking the first,
   keeps the places distinct. *)
LEMMA EnqueueDistinct ==
    ASSUME NEW q \in Seq(Sockets), NEW s \in Sockets, s \notin ToSet(q),
           \A i, j \in DOMAIN q : q[i] = q[j] => i = j
    PROVE  /\ Append(q, s) \in Seq(Sockets)
           /\ ToSet(Append(q, s)) = ToSet(q) \cup {s}
           /\ \A i, j \in DOMAIN Append(q, s) : Append(q, s)[i] = Append(q, s)[j] => i = j
<1> DEFINE r == Append(q, s)
<1>1. /\ r \in Seq(Sockets) /\ Len(r) = Len(q) + 1 /\ r[Len(q) + 1] = s
      /\ \A i \in 1..Len(q) : r[i] = q[i]
  BY AppendProperties
<1>2. DOMAIN q = 1..Len(q) /\ DOMAIN r = 1..(Len(q) + 1) /\ Len(q) \in Nat
  BY <1>1
<1> HIDE DEF r
<1>3. \A i \in DOMAIN q : q[i] # s
  BY DEF ToSet
<1>4. \A i, j \in DOMAIN r : r[i] = r[j] => i = j
  BY <1>1, <1>2, <1>3
<1>5. ToSet(r) = ToSet(q) \cup {s}
  BY <1>1, <1>2 DEF ToSet
<1> QED BY <1>1, <1>4, <1>5 DEF r

LEMMA TakeDistinct ==
    ASSUME NEW q \in Seq(Sockets), q # <<>>,
           \A i, j \in DOMAIN q : q[i] = q[j] => i = j
    PROVE  /\ Tail(q) \in Seq(Sockets) /\ Head(q) \in Sockets /\ Head(q) \in ToSet(q)
           /\ ToSet(Tail(q)) = ToSet(q) \ {Head(q)}
           /\ \A i, j \in DOMAIN Tail(q) : Tail(q)[i] = Tail(q)[j] => i = j
<1> DEFINE r == Tail(q)
<1>1. /\ r \in Seq(Sockets) /\ Len(r) = Len(q) - 1 /\ Head(q) = q[1]
      /\ \A i \in 1..Len(r) : r[i] = q[i + 1]
  BY HeadTailProperties
<1>2. /\ DOMAIN q = 1..Len(q) /\ DOMAIN r = 1..Len(r)
      /\ Len(q) \in Nat /\ Len(q) >= 1
  BY <1>1
<1> HIDE DEF r
<1>3. \A i, j \in DOMAIN r : r[i] = r[j] => i = j
  <2> SUFFICES ASSUME NEW i \in 1..Len(r), NEW j \in 1..Len(r), r[i] = r[j] PROVE i = j
    BY <1>2
  <2>1. i + 1 \in DOMAIN q /\ j + 1 \in DOMAIN q /\ q[i + 1] = q[j + 1]
    BY <1>1, <1>2
  <2> QED BY <2>1, <1>2
<1>4. ToSet(r) \subseteq ToSet(q) \ {Head(q)}
  <2> SUFFICES ASSUME NEW i \in 1..Len(r) PROVE r[i] \in ToSet(q) /\ r[i] # q[1]
    BY <1>1, <1>2 DEF ToSet
  <2>1. i + 1 \in DOMAIN q /\ 1 \in DOMAIN q /\ i + 1 # 1 /\ r[i] = q[i + 1]
    BY <1>1, <1>2
  <2> QED BY <2>1 DEF ToSet
<1>5. ToSet(q) \ {Head(q)} \subseteq ToSet(r)
  <2> SUFFICES ASSUME NEW i \in DOMAIN q, q[i] # q[1] PROVE q[i] \in ToSet(r)
    BY <1>1 DEF ToSet
  <2>1. i - 1 \in DOMAIN r /\ r[i - 1] = q[i]
    BY <1>1, <1>2
  <2> QED BY <2>1 DEF ToSet
<1>6. q[1] \in ToSet(q) /\ q[1] \in Sockets
  BY <1>2 DEF ToSet
<1> QED BY <1>1, <1>3, <1>4, <1>5, <1>6 DEF r
-----------------------------------------------------------------------------
(* Who has a socket: the invariant is inductive *)

LEMMA OwnInit == Init => OwnInv
<1> SUFFICES ASSUME Init PROVE OwnInv
  OBVIOUS
<1> USE DEF Init, PoolInit
<1>1. OwnType
  BY DEF OwnType, Idle, HttpdSteps, WorkerSteps, SomeSocket
<1>2. BusyWithOne /\ Apart
  BY DEF BusyWithOne, Apart, Idle
<1>3. OneOwner
  BY DEF OneOwner, InQueue, AtHttpd, AtWorker, Idle, ToSet, Sockets, NoSocket
<1> QED BY <1>1, <1>2, <1>3 DEF OwnInv

\* Connect chooses among the sockets that are free.
LEMMA ConnectOwn == OwnInv /\ Connect => OwnInv'
<1> SUFFICES ASSUME OwnInv, Connect PROVE OwnInv'
  OBVIOUS
<1> DEFINE s == Min(Sockets \ Open)
<1>1. Open \subseteq Sockets
  <2>1. httpd.sock \in SomeSocket /\ \A w \in Workers : hand[w].sock \in SomeSocket
    BY DEF OwnInv, OwnType
  <2>2. {o.sock : o \in Owners} \subseteq SomeSocket
    BY <2>1 DEF Owners
  <2> QED BY <2>2 DEF OwnInv, OwnType, Open, SomeSocket
<1>2. Sockets \ Open \subseteq Nat /\ Sockets \ Open # {}
  <2>1. Sockets \subseteq Nat
    BY PoolAssumption DEF Sockets
  <2> QED BY <2>1, <1>1 DEF Connect
<1>3. s \in Sockets \ Open
  BY <1>2, MinExists
<1>4. s \notin copies /\ s # httpd.sock
  BY <1>3 DEF Open, Owners, Sockets, NoSocket
<1> HIDE DEF s
<1>5. waiting' = waiting \cup {s} /\ UNCHANGED <<httpd, queue, hand, copies>>
  BY DEF Connect, s
<1>6. OwnType'
  BY <1>3, <1>5 DEF OwnInv, OwnType
<1>7. BusyWithOne'
  BY <1>5 DEF OwnInv, BusyWithOne
<1>8. Apart'
  BY <1>4, <1>5 DEF OwnInv, Apart
<1>9. OneOwner'
  BY <1>5 DEF OwnInv, OneOwner, InQueue, AtHttpd, AtWorker
<1> QED BY <1>6, <1>7, <1>8, <1>9 DEF OwnInv

LEMMA PurgeOwn == ASSUME OwnInv, NEW s \in Sockets, Purge(s) PROVE OwnInv'
<1> USE DEF OwnInv, Purge
<1>1. OwnType' /\ BusyWithOne' /\ Apart'
  BY DEF OwnType, BusyWithOne, Apart
<1>2. OneOwner'
  BY DEF OneOwner, InQueue, AtHttpd, AtWorker
<1> QED BY <1>1, <1>2

LEMMA HandleOwn == ASSUME OwnInv, NEW s \in Sockets, Handle(s) PROVE OwnInv'
<1> USE DEF OwnInv, Handle
<1>0. s # NoSocket /\ s \notin copies
  BY DEF Sockets, NoSocket, Apart
<1>1. OwnType' /\ BusyWithOne'
  BY <1>0 DEF OwnType, BusyWithOne, HttpdSteps, SomeSocket
<1>2. Apart'
  BY <1>0 DEF Apart, OwnType
<1>3. OneOwner'
  BY <1>0 DEF OneOwner, InQueue, AtHttpd, AtWorker
<1> QED BY <1>1, <1>2, <1>3

\* What the server task does with a request it does not hand over.
LEMMA HttpdStepOwn ==
    ASSUME OwnInv, NEW st \in {"route", "file", "titles", "answered"},
           httpd.step \in {"route", "file", "titles", "answered"},
           httpd' = [httpd EXCEPT !.step = st],
           UNCHANGED <<waiting, queue, hand, copies>>
    PROVE  OwnInv'
<1> USE DEF OwnInv
<1>1. OwnType' /\ BusyWithOne'
  BY DEF OwnType, BusyWithOne, HttpdSteps
<1>2. Apart'
  BY DEF Apart, OwnType, CopySteps
<1>3. OneOwner'
  BY DEF OneOwner, InQueue, AtHttpd, AtWorker, OwnType
<1> QED BY <1>1, <1>2, <1>3

LEMMA ReturnOwn == OwnInv /\ Return => OwnInv'
<1> SUFFICES ASSUME OwnInv, Return PROVE OwnInv'
  OBVIOUS
<1> USE DEF OwnInv, Return
<1>1. OwnType' /\ BusyWithOne'
  BY DEF OwnType, BusyWithOne, Idle, HttpdSteps, SomeSocket
<1>2. Apart'
  BY DEF Apart, OwnType, Idle, Sockets, NoSocket
<1>3. OneOwner'
  BY DEF OneOwner, InQueue, AtHttpd, AtWorker, Idle
<1> QED BY <1>1, <1>2, <1>3

\* A request that is copied had no copy, and is at no worker and in no place
\* of the queue.
LEMMA BeginOwn == OwnInv /\ Begin => OwnInv'
<1> SUFFICES ASSUME OwnInv, Begin PROVE OwnInv'
  OBVIOUS
<1>1. CASE copies' = copies \cup {httpd.sock} /\ httpd' = [httpd EXCEPT !.step = "begun"]
  <2> USE <1>1 DEF OwnInv, Begin
  <2>1. httpd.sock \in Sockets /\ httpd.sock \notin copies
    BY DEF OwnType, BusyWithOne, Apart, SomeSocket, CopySteps
  <2>2. OwnType' /\ BusyWithOne'
    BY <2>1 DEF OwnType, BusyWithOne, HttpdSteps
  <2>3. Apart'
    BY DEF Apart, OwnType, CopySteps
  <2>4. OneOwner'
    BY <2>1 DEF OneOwner, InQueue, AtHttpd, AtWorker, OwnType
  <2> QED BY <2>2, <2>3, <2>4
<1>2. CASE httpd' = [httpd EXCEPT !.step = "answered"] /\ UNCHANGED copies
  BY <1>2, HttpdStepOwn DEF Begin
<1> QED BY <1>1, <1>2 DEF Begin

\* The server task's copy passes to the queue.
LEMMA EnqueueOwn == OwnInv /\ Enqueue => OwnInv'
<1> SUFFICES ASSUME OwnInv, Enqueue PROVE OwnInv'
  OBVIOUS
<1> USE DEF OwnInv, Enqueue
<1>1. httpd.sock \in Sockets /\ AtHttpd(httpd.sock)
  BY DEF OwnType, BusyWithOne, SomeSocket, AtHttpd
<1>2. httpd.sock \notin ToSet(queue)
  BY <1>1 DEF OneOwner, InQueue
<1>3. /\ queue' \in Seq(Sockets) /\ ToSet(queue') = ToSet(queue) \cup {httpd.sock}
      /\ \A i, j \in DOMAIN queue' : queue'[i] = queue'[j] => i = j
  BY <1>1, <1>2, EnqueueDistinct DEF OwnType, OneOwner
<1>4. OwnType' /\ BusyWithOne'
  BY <1>3 DEF OwnType, BusyWithOne, Idle, HttpdSteps, SomeSocket
<1>5. Apart'
  BY DEF Apart, OwnType, Idle, Sockets, NoSocket
<1>6. OneOwner'
  BY <1>1, <1>3 DEF OneOwner, InQueue, AtHttpd, AtWorker, Idle
<1> QED BY <1>4, <1>5, <1>6

LEMMA RefuseOwn == OwnInv /\ Refuse => OwnInv'
<1> SUFFICES ASSUME OwnInv, Refuse PROVE OwnInv'
  OBVIOUS
<1> USE DEF OwnInv, Refuse
<1>1. OwnType' /\ BusyWithOne'
  BY DEF OwnType, BusyWithOne, HttpdSteps
<1>2. Apart'
  BY DEF Apart, OwnType, CopySteps
<1>3. OneOwner'
  BY DEF OneOwner, InQueue, AtHttpd, AtWorker, OwnType
<1> QED BY <1>1, <1>2, <1>3

LEMMA CompleteRefusedOwn == OwnInv /\ CompleteRefused => OwnInv'
<1> SUFFICES ASSUME OwnInv, CompleteRefused PROVE OwnInv'
  OBVIOUS
<1> USE DEF OwnInv, CompleteRefused, Completed
<1>1. httpd.sock \in Sockets /\ AtHttpd(httpd.sock)
  BY DEF OwnType, BusyWithOne, SomeSocket, AtHttpd
<1>2. OwnType' /\ BusyWithOne'
  BY DEF OwnType, BusyWithOne, Idle, HttpdSteps, SomeSocket
<1>3. Apart'
  <2>1. copies' \subseteq copies /\ httpd'.sock = NoSocket /\ waiting' = waiting
    BY DEF Idle
  <2>2. NoSocket \notin copies /\ NoSocket \notin waiting
    BY DEF OwnType, Sockets, NoSocket
  <2> QED BY <2>1, <2>2 DEF Apart
<1>4. OneOwner'
  BY <1>1 DEF OneOwner, InQueue, AtHttpd, AtWorker, Idle
<1> QED BY <1>2, <1>3, <1>4

\* The copy passes from the queue to a worker that had none.
LEMMA TakeOwn == ASSUME OwnInv, NEW w \in Workers, Take(w) PROVE OwnInv'
<1> USE DEF OwnInv, Take, Taken
<1>1. /\ queue' \in Seq(Sockets) /\ Head(queue) \in Sockets /\ Head(queue) \in ToSet(queue)
      /\ ToSet(queue') = ToSet(queue) \ {Head(queue)}
      /\ \A i, j \in DOMAIN queue' : queue'[i] = queue'[j] => i = j
  BY TakeDistinct DEF OwnType, OneOwner
<1>2. /\ hand'[w] = [step |-> "serve", sock |-> Head(queue)]
      /\ \A v \in Workers \ {w} : hand'[v] = hand[v]
      /\ hand[w].sock = NoSocket
  BY DEF OwnType, BusyWithOne
<1>3. OwnType'
  BY <1>1 DEF OwnType, WorkerSteps, SomeSocket
<1>4. BusyWithOne'
  BY <1>1, <1>2 DEF BusyWithOne, Sockets, NoSocket
<1>5. Apart'
  BY DEF Apart
<1>6. OneOwner'
  BY <1>1, <1>2 DEF OneOwner, InQueue, AtHttpd, AtWorker, Sockets, NoSocket
<1> QED BY <1>3, <1>4, <1>5, <1>6

LEMMA CompleteOwn == ASSUME OwnInv, NEW w \in Workers, Complete(w) PROVE OwnInv'
<1> USE DEF OwnInv, Complete, Completed
<1>1. /\ hand'[w] = Idle
      /\ \A v \in Workers \ {w} : hand'[v] = hand[v]
      /\ hand[w].sock \in Sockets
  BY DEF OwnType, BusyWithOne, SomeSocket
<1>2. OwnType'
  BY DEF OwnType, WorkerSteps, SomeSocket, Idle
<1>3. BusyWithOne'
  BY <1>1 DEF BusyWithOne, Idle
<1>4. Apart'
  BY DEF Apart
<1>5. OneOwner'
  BY <1>1 DEF OneOwner, InQueue, AtHttpd, AtWorker, Sockets, NoSocket, Idle
<1> QED BY <1>2, <1>3, <1>4, <1>5

\* While a worker serves, it only changes its own step.
ServingSteps == WorkerSteps \ {"idle"}

LEMMA ServeStep ==
    ASSUME NEW w \in Workers, Serve(w)
    PROVE  /\ Step(w) \in ServingSteps
           /\ \E st \in ServingSteps : GoTo(w, st)
           /\ UNCHANGED <<waiting, httpd, queue, copies>>
<1> USE DEF ServingSteps, WorkerSteps
<1>1. CASE Reject(w)
  BY <1>1 DEF Reject, Fail
<1>2. CASE \E e \in Entries : Found(w, e)
  BY <1>2 DEF Found, Proceed
<1>3. CASE Resolve(w)
  BY <1>3 DEF Resolve, Proceed
<1>4. CASE Resolved(w)
  BY <1>4 DEF Resolved, Reply, Fail
<1>5. CASE ReadCluster(w)
  BY <1>5 DEF ReadCluster, Fail, Proceed, GiveUp
<1>6. CASE ServeCopy(w)
  BY <1>6 DEF ServeCopy, Reply, Fail, GiveUp
<1>7. CASE SeekPiece(w)
  BY <1>7 DEF SeekPiece, Proceed
<1>8. CASE EndPieces(w)
  BY <1>8 DEF EndPieces
<1>9. CASE Hop(w)
  BY <1>9 DEF Hop, Proceed, Fail
<1>10. CASE ReadPiece(w)
  BY <1>10 DEF ReadPiece, Fail, GiveUp
<1> QED BY <1>1, <1>2, <1>3, <1>4, <1>5, <1>6, <1>7, <1>8, <1>9, <1>10 DEF Serve, HoldsSd

LEMMA ServeOwn == ASSUME OwnInv, NEW w \in Workers, Serve(w) PROVE OwnInv'
<1>1. /\ Step(w) \in ServingSteps
      /\ UNCHANGED <<waiting, httpd, queue, copies>>
  BY ServeStep
<1>2. PICK st \in ServingSteps : GoTo(w, st)
  BY ServeStep
<1>3. /\ hand' \in [Workers -> [step : WorkerSteps, sock : SomeSocket]]
      /\ \A v \in Workers : hand'[v].sock = hand[v].sock
      /\ \A v \in Workers : hand'[v].step = "idle" <=> hand[v].step = "idle"
  BY <1>1, <1>2 DEF OwnInv, OwnType, GoTo, ServingSteps, WorkerSteps, Step
<1>4. OwnType' /\ BusyWithOne' /\ Apart'
  BY <1>1, <1>3 DEF OwnInv, OwnType, BusyWithOne, Apart
<1>5. OneOwner'
  BY <1>1, <1>3 DEF OwnInv, OneOwner, InQueue, AtHttpd, AtWorker
<1> QED BY <1>4, <1>5 DEF OwnInv

LEMMA HandlerOwn == OwnInv /\ HandlerRuns => OwnInv'
<1> SUFFICES ASSUME OwnInv, HandlerRuns PROVE OwnInv'
  OBVIOUS
<1>1. CASE ServePage
  BY <1>1, HttpdStepOwn DEF ServePage, AnswerAndReturn
<1>2. CASE OpenFile
  BY <1>2, HttpdStepOwn DEF OpenFile, AnswerAndReturn
<1>3. CASE SendFile
  <2>1. CASE UNCHANGED httpd
    <3>1. httpd' = [httpd EXCEPT !.step = "file"]
      BY <2>1, <1>3 DEF OwnInv, OwnType, SendFile
    <3> QED BY <3>1, <1>3, HttpdStepOwn DEF SendFile
  <2>2. CASE AnswerAndReturn(LastChunk)
    BY <2>2, <1>3, HttpdStepOwn DEF SendFile, AnswerAndReturn
  <2> QED BY <2>1, <2>2, <1>3 DEF SendFile
<1>4. CASE SearchSeeks
  BY <1>4, HttpdStepOwn DEF SearchSeeks
<1>5. CASE SearchReads
  BY <1>5, HttpdStepOwn DEF SearchReads, AnswerAndReturn
<1>6. CASE Return \/ Begin \/ Enqueue \/ Refuse \/ CompleteRefused
  BY <1>6, ReturnOwn, BeginOwn, EnqueueOwn, RefuseOwn, CompleteRefusedOwn
<1> QED BY <1>1, <1>2, <1>3, <1>4, <1>5, <1>6 DEF HandlerRuns, Pooled

LEMMA OwnNext == OwnInv /\ [Next]_vars => OwnInv'
<1> SUFFICES ASSUME OwnInv, [Next]_vars PROVE OwnInv'
  OBVIOUS
<1>1. CASE Pooled(Connect)
  BY <1>1, ConnectOwn DEF Pooled
<1>2. CASE \E s \in Sockets : Pooled(Purge(s)) \/ Pooled(Handle(s))
  BY <1>2, PurgeOwn, HandleOwn DEF Pooled
<1>3. CASE HandlerRuns
  BY <1>3, HandlerOwn
<1>4. ASSUME NEW w \in Workers, Work(w) PROVE OwnInv'
  BY <1>4, TakeOwn, ServeOwn, CompleteOwn DEF Work, Pooled, Finish
<1>5. CASE UNCHANGED vars
  BY <1>5 DEF vars, pool, OwnInv, OwnType, BusyWithOne, Apart, OneOwner, InQueue, AtHttpd, AtWorker
<1> QED BY <1>1, <1>2, <1>3, <1>4, <1>5 DEF Next

(* Who has a socket is known at any time. *)
THEOREM PoolInvariant == Spec => []OwnInv
BY OwnInit, OwnNext, PTL DEF Spec

(* A request that was handed to the workers is the server task's, has one place
   in the queue, or is with one worker: its copy is freed once (Completed), and
   nobody answers through a copy that was freed. *)
THEOREM RequestHasOneOwner == Spec => []OneOwner
BY PoolInvariant, PTL DEF OwnInv
-----------------------------------------------------------------------------
(* What was answered: lemmas on the pieces of an answer *)

LEMMA PieceTypes ==
    /\ Notice \in Pieces /\ LastChunk \in Pieces
    /\ \A from \in Where : Chunk(from) \in Pieces
    /\ AFile \in Where /\ \A e \in Entries, i \in Nat : Piece(e, i) \in Where
<1>1. MainPage \in Entries
  BY ArchiveAssumption DEF Entries
<1>2. AFile \in Where
  BY <1>1 DEF Where, AFile
<1>4. \A e \in Entries, i \in Nat : Piece(e, i) \in Where
  BY DEF Where, Piece
<1>3. \A from \in Where : Chunk(from) \in [kind : {"chunk"}, from : Where]
  BY DEF Chunk
<1> QED BY <1>2, <1>3, <1>4 DEF Pieces

\* An answer goes on with a chunk, ends with the last one, or is one piece.
LEMMA AppendPiece ==
    ASSUME NEW a \in Seq(Pieces), NEW p \in Pieces
    PROVE  /\ Append(a, p) \in Seq(Pieces) /\ Len(a) \in Nat /\ DOMAIN a = 1..Len(a)
           /\ Len(Append(a, p)) = Len(a) + 1 /\ DOMAIN Append(a, p) = 1..(Len(a) + 1)
           /\ \A i \in 1..Len(a) : Append(a, p)[i] = a[i]
           /\ Append(a, p)[Len(a) + 1] = p
BY AppendProperties

LEMMA AnswerGrows ==
    ASSUME NEW a \in Seq(Pieces), NEW p \in Pieces
    PROVE  /\ a = <<>> /\ p.kind = "whole" => WellFormed(Append(a, p))
           /\ Unfinished(a) /\ p.kind = "chunk" => Unfinished(Append(a, p))
           /\ Unfinished(a) /\ p.kind = "last" => WellFormed(Append(a, p))
<1> DEFINE b == Append(a, p)
<1>1. /\ Len(a) \in Nat /\ DOMAIN a = 1..Len(a) /\ b # <<>>
      /\ Len(b) = Len(a) + 1 /\ DOMAIN b = 1..(Len(a) + 1)
      /\ \A i \in 1..Len(a) : b[i] = a[i]
      /\ b[Len(a) + 1] = p
  BY AppendPiece, AppendProperties
<1> HIDE DEF b
<1>2. a = <<>> => Len(a) = 0
  OBVIOUS
<1>3. ASSUME a = <<>>, p.kind = "whole" PROVE WellFormed(b)
  <2>1. Len(b) = 1 /\ b[1] = p
    BY <1>1, <1>2, <1>3
  <2> QED BY <2>1, <1>3 DEF WellFormed
<1>4. ASSUME Unfinished(a), p.kind = "chunk" PROVE Unfinished(b)
  BY <1>1, <1>4 DEF Unfinished
<1>5. ASSUME Unfinished(a), p.kind = "last" PROVE WellFormed(b)
  <2>1. \A i \in 1..Len(b) - 1 : b[i].kind = "chunk"
    BY <1>1, <1>5 DEF Unfinished
  <2>2. b # <<>> /\ b[Len(b)].kind = "last"
    BY <1>1, <1>5
  <2> QED BY <2>1, <2>2 DEF WellFormed
<1> QED BY <1>3, <1>4, <1>5 DEF b

LEMMA NothingSent == Unfinished(<<>>) /\ \A j : Right(<<>>, j)
BY DEF Unfinished, Right

-----------------------------------------------------------------------------
(* What was answered: what a step leaves alone *)

\* Nobody but its owner has the socket the server task is at.
LEMMA HttpdAlone ==
    ASSUME OwnInv, httpd.step # "idle"
    PROVE  httpd.sock \in Sockets /\ \A w \in Workers : Sock(w) # httpd.sock
<1>1. httpd.sock \in Sockets
  BY DEF OwnInv, OwnType, BusyWithOne, SomeSocket
<1>2. ASSUME NEW w \in Workers, Sock(w) = httpd.sock PROVE FALSE
  <2>1. AtWorker(w, httpd.sock)
    BY <1>2 DEF AtWorker, Sock
  <2>2. httpd.sock \in copies /\ ~AtHttpd(httpd.sock)
    BY <1>1, <2>1 DEF OwnInv, OneOwner
  <2> QED BY <2>2 DEF OwnInv, Apart, AtHttpd, CopySteps
<1> QED BY <1>1, <1>2

LEMMA WorkerAlone ==
    ASSUME OwnInv, NEW w \in Workers, Step(w) # "idle"
    PROVE  /\ Sock(w) \in Sockets /\ Sock(w) # httpd.sock
           /\ \A v \in Workers \ {w} : Sock(v) # Sock(w)
<1>1. Sock(w) \in Sockets
  BY DEF OwnInv, OwnType, BusyWithOne, SomeSocket, Sock, Step
<1>2. \A v \in Workers \ {w} : Sock(v) # Sock(w)
  BY <1>1 DEF OwnInv, OneOwner, AtWorker, Sock
<1>3. CASE httpd.step = "idle"
  <2>1. httpd.sock = NoSocket /\ NoSocket \notin Sockets
    BY <1>3 DEF OwnInv, BusyWithOne, Sockets, NoSocket
  <2> QED BY <1>1, <1>2, <2>1
<1>4. CASE httpd.step # "idle"
  BY <1>1, <1>2, <1>4, HttpdAlone
<1> QED BY <1>1, <1>2, <1>3, <1>4

\* A worker whose socket and locals a step does not touch is where it was, also
\* in the file: nobody moves it while another task is about to read.
LEMMA OthersKept ==
    ASSUME OwnInv, AnswerInv, NEW V \in SUBSET Workers, NEW s,
           \A v \in V : hand'[v] = hand[v] /\ job'[v] = job[v] /\ Sock(v) # s,
           \A t \in Sockets \ {s} : answers'[t] = answers[t] /\ (t \in stopped => t \in stopped'),
           \A v \in V : sd = v => UNCHANGED <<sd, seekedTo>>
    PROVE  \A v \in V : WorkerAnswers(v)'
<1> SUFFICES ASSUME NEW v \in V PROVE WorkerAnswers(v)'
  OBVIOUS
<1>1. WorkerAnswers(v) /\ hand'[v] = hand[v] /\ job'[v] = job[v]
  BY DEF AnswerInv
<1>2. CASE Step(v) = "idle"
  BY <1>1, <1>2 DEF WorkerAnswers, Step
<1>3. CASE Step(v) # "idle"
  <2>1. Sock(v) \in Sockets /\ Sock(v) # s
    BY <1>3, WorkerAlone
  <2>2. Sock(v)' = Sock(v) /\ Step(v)' = Step(v)
    BY <1>1 DEF Sock, Step
  <2>3. answers'[Sock(v)] = answers[Sock(v)] /\ (Sock(v) \in stopped => Sock(v) \in stopped')
    BY <2>1
  <2>4. Step(v) \in {"hop", "read"} => UNCHANGED <<sd, seekedTo>>
    BY <1>1 DEF WorkerAnswers
  <2> QED BY <1>1, <2>2, <2>3, <2>4 DEF WorkerAnswers
<1> QED BY <1>2, <1>3

\* What nobody has a part of is still without an answer.
LEMMA FreshSockets ==
    ASSUME OwnInv, AnswerInv
    PROVE  /\ httpd.step \in {"route", "titles", "begun"} => answers[httpd.sock] = <<>>
           /\ queue # <<>> => answers[Head(queue)] = <<>>
<1>1. ASSUME httpd.step \in {"route", "titles", "begun"} PROVE answers[httpd.sock] = <<>>
  BY <1>1, HttpdAlone DEF AnswerInv, Fresh
<1>2. ASSUME queue # <<>> PROVE answers[Head(queue)] = <<>>
  <2> DEFINE s == Head(queue)
  <2>1. s \in Sockets /\ InQueue(s)
    BY <1>2, TakeDistinct DEF OwnInv, OwnType, OneOwner, InQueue
  <2>2. s \in copies /\ ~AtHttpd(s) /\ \A w \in Workers : ~AtWorker(w, s)
    BY <2>1 DEF OwnInv, OneOwner
  <2> HIDE DEF s
  <2>3. ~(httpd.sock = s /\ httpd.step \in {"file", "answered", "refused"})
    BY <2>2 DEF OwnInv, Apart, AtHttpd, CopySteps
  <2>4. answers[s] = <<>>
    BY <2>1, <2>2, <2>3 DEF AnswerInv, Fresh, AtWorker, Sock
  <2> QED BY <2>4 DEF s
<1> QED BY <1>1, <1>2
-----------------------------------------------------------------------------
(* What was answered: steps of the server task *)

LEMMA AnswerInit == Init => AnswerInv
<1> SUFFICES ASSUME Init PROVE AnswerInv
  OBVIOUS
<1> USE DEF Init, PoolInit
<1>1. NoJob \in Jobs
  BY ArchiveAssumption DEF NoJob, Jobs, Entries
<1>2. AnswerType
  BY <1>1 DEF AnswerType
<1>3. Fresh /\ HttpdAnswers /\ \A w \in Workers : WorkerAnswers(w)
  BY DEF Fresh, HttpdAnswers, WorkerAnswers, Step, Idle
<1> QED BY <1>2, <1>3 DEF AnswerInv

\* A step of the server task that touches no socket but its own.
LEMMA ServerStep ==
    ASSUME OwnInv, AnswerInv, httpd.step # "idle",
           UNCHANGED <<hand, job>>, answers' \in [Sockets -> Seq(Pieces)], HttpdAnswers',
           \A t \in Sockets \ {httpd.sock} :
               answers'[t] = answers[t] /\ (t \in stopped => t \in stopped'),
           \/ answers'[httpd.sock] = <<>>
           \/ httpd'.sock = httpd.sock /\ httpd'.step \in {"file", "answered", "refused"},
           UNCHANGED <<sd, seekedTo>> \/ sd \notin Workers
    PROVE  AnswerInv'
<1>1. AnswerType'
  BY DEF AnswerInv, AnswerType
<1>2. Fresh'
  BY DEF AnswerInv, Fresh, Sock
<1>3. \A w \in Workers : hand'[w] = hand[w] /\ job'[w] = job[w] /\ Sock(w) # httpd.sock
  BY HttpdAlone
<1>4. \A w \in Workers : WorkerAnswers(w)'
  BY <1>3, OthersKept
<1> QED BY <1>1, <1>2, <1>4 DEF AnswerInv

\* It adds a piece to its own answer.
LEMMA ServerSends ==
    ASSUME OwnInv, AnswerInv, httpd.step # "idle", NEW p \in Pieces,
           NEW st \in {"file", "answered", "refused"},
           Answer(httpd.sock, p), httpd' = [httpd EXCEPT !.step = st],
           UNCHANGED <<hand, job, stopped>>,
           UNCHANGED <<sd, seekedTo>> \/ sd \notin Workers,
           LET a == Append(answers[httpd.sock], p) IN
               IF st = "file" THEN Unfinished(a) ELSE WellFormed(a)
    PROVE  AnswerInv'
<1>1. httpd.sock \in Sockets /\ answers[httpd.sock] \in Seq(Pieces)
  BY HttpdAlone DEF AnswerInv, AnswerType
<1>2. Append(answers[httpd.sock], p) \in Seq(Pieces)
  BY <1>1, AppendPiece
<1>3. /\ answers' \in [Sockets -> Seq(Pieces)]
      /\ answers'[httpd.sock] = Append(answers[httpd.sock], p)
      /\ \A t \in Sockets \ {httpd.sock} : answers'[t] = answers[t]
  BY <1>1, <1>2 DEF Answer, AnswerInv, AnswerType
<1>4. httpd'.sock = httpd.sock /\ httpd'.step = st
  BY DEF OwnInv, OwnType
<1>5. HttpdAnswers'
  BY <1>3, <1>4 DEF HttpdAnswers
<1> QED BY <1>3, <1>4, <1>5, ServerStep

\* Between two requests, nothing is sent.
LEMMA QuietAnswer ==
    ASSUME OwnInv, AnswerInv, UNCHANGED <<hand, answers, stopped, job, sd, seekedTo>>,
           \/ UNCHANGED httpd
           \/ /\ httpd.step \in {"idle", "route", "begun"}
              /\ httpd'.step \notin {"answered", "refused", "titles"}
              /\ httpd'.step = "file" => answers'[httpd'.sock] = <<>>
    PROVE  AnswerInv'
<1>1. AnswerType' /\ Fresh'
  BY DEF AnswerInv, AnswerType, Fresh, Sock
<1>2. HttpdAnswers'
  BY NothingSent DEF AnswerInv, HttpdAnswers
<1>3. \A w \in Workers : WorkerAnswers(w)'
  BY DEF AnswerInv, WorkerAnswers, Step, Sock
<1> QED BY <1>1, <1>2, <1>3 DEF AnswerInv

\* The request is given back, or the socket closed: its answer is forgotten.
LEMMA ServerForgets ==
    ASSUME OwnInv, AnswerInv, httpd.step # "idle", Forget(httpd.sock), httpd' = Idle,
           UNCHANGED <<hand, job, sd, seekedTo>>
    PROVE  AnswerInv'
<1>1. httpd.sock \in Sockets
  BY HttpdAlone
<1>2. /\ answers' \in [Sockets -> Seq(Pieces)] /\ answers'[httpd.sock] = <<>>
      /\ \A t \in Sockets \ {httpd.sock} :
             answers'[t] = answers[t] /\ (t \in stopped => t \in stopped')
  BY <1>1 DEF Forget, AnswerInv, AnswerType
<1>3. HttpdAnswers'
  BY DEF HttpdAnswers, Idle
<1> QED BY <1>2, <1>3, ServerStep

LEMMA HandlerAnswer == OwnInv /\ AnswerInv /\ HandlerRuns => AnswerInv'
<1> SUFFICES ASSUME OwnInv, AnswerInv, HandlerRuns PROVE AnswerInv'
  OBVIOUS
<1> DEFINE a == answers[httpd.sock]
<1>1. Notice \in Pieces /\ Notice.kind = "whole" /\ LastChunk \in Pieces /\ LastChunk.kind = "last"
  BY PieceTypes DEF Notice, LastChunk
<1>2. Chunk(AFile) \in Pieces /\ Chunk(AFile).kind = "chunk"
  BY PieceTypes DEF Chunk
<1>3. httpd.step # "idle" => httpd.sock \in Sockets /\ a \in Seq(Pieces)
  BY HttpdAlone DEF AnswerInv, AnswerType
<1>4. httpd.step \in {"route", "titles", "begun"} => WellFormed(Append(a, Notice))
  BY <1>1, <1>3, FreshSockets, AnswerGrows
<1>5. httpd.step = "file" =>
          Unfinished(Append(a, Chunk(AFile))) /\ WellFormed(Append(a, LastChunk))
  BY <1>1, <1>2, <1>3, AnswerGrows DEF AnswerInv, HttpdAnswers
<1>6. CASE ServePage
  BY <1>1, <1>4, <1>6, ServerSends DEF ServePage, AnswerAndReturn
<1>7. CASE OpenFile
  <2>1. CASE httpd' = [httpd EXCEPT !.step = "file"] /\ UNCHANGED answers
    BY <1>7, <2>1, QuietAnswer, FreshSockets DEF OpenFile, OwnInv, OwnType
  <2>2. CASE AnswerAndReturn(Notice)
    BY <1>1, <1>4, <1>7, <2>2, ServerSends DEF OpenFile, AnswerAndReturn
  <2> QED BY <1>7, <2>1, <2>2 DEF OpenFile
<1>8. CASE SendFile
  <2>1. CASE Answer(httpd.sock, Chunk(AFile)) /\ UNCHANGED httpd
    <3>1. httpd' = [httpd EXCEPT !.step = "file"]
      BY <1>8, <2>1 DEF SendFile, OwnInv, OwnType
    <3> QED BY <1>2, <1>5, <1>8, <2>1, <3>1, ServerSends DEF SendFile
  <2>2. CASE AnswerAndReturn(LastChunk)
    BY <1>1, <1>5, <1>8, <2>2, ServerSends DEF SendFile, AnswerAndReturn
  <2> QED BY <1>8, <2>1, <2>2 DEF SendFile
<1>9. CASE SearchSeeks
  <2>1. /\ httpd.step = "route" /\ httpd'.step = "titles" /\ httpd'.sock = httpd.sock
        /\ sd \notin Workers /\ sd' = Httpd /\ UNCHANGED <<answers, hand, job, stopped>>
    BY <1>9, ArchiveAssumption DEF SearchSeeks, Seek, SdFree, OwnInv, OwnType
  <2>2. HttpdAnswers' /\ answers' \in [Sockets -> Seq(Pieces)]
    BY <2>1 DEF HttpdAnswers, AnswerInv, AnswerType
  <2> QED BY <2>1, <2>2, FreshSockets, ServerStep
<1>10. CASE SearchReads
  <2>1. sd \notin Workers
    BY <1>10, ArchiveAssumption DEF SearchReads, AnswerInv, HttpdAnswers
  <2> QED BY <1>1, <1>4, <1>10, <2>1, ServerSends DEF SearchReads, AnswerAndReturn
<1>11. CASE Pooled(Return)
  BY <1>11, ServerForgets DEF Pooled, Return
<1>12. CASE Pooled(Begin)
  <2>1. CASE httpd' = [httpd EXCEPT !.step = "begun"] /\ UNCHANGED answers
    BY <1>12, <2>1, QuietAnswer DEF Pooled, Begin, OwnInv, OwnType
  <2>2. CASE Answer(httpd.sock, Notice) /\ httpd' = [httpd EXCEPT !.step = "answered"]
    BY <1>1, <1>4, <1>12, <2>2, ServerSends DEF Pooled, Begin
  <2> QED BY <1>12, <2>1, <2>2 DEF Pooled, Begin
<1>13. CASE Pooled(Enqueue)
  BY <1>13, QuietAnswer DEF Pooled, Enqueue, Idle
<1>14. CASE Pooled(Refuse)
  BY <1>1, <1>4, <1>14, ServerSends DEF Pooled, Refuse
<1>15. CASE Pooled(CompleteRefused)
  BY <1>15, ServerForgets DEF Pooled, CompleteRefused
<1> QED BY <1>6, <1>7, <1>8, <1>9, <1>10, <1>11, <1>12, <1>13, <1>14, <1>15 DEF HandlerRuns
-----------------------------------------------------------------------------
(* What was answered: steps of a worker *)

\* A step of a worker that touches no socket but its own.
LEMMA WorkerStep ==
    ASSUME OwnInv, AnswerInv, NEW w \in Workers, Step(w) # "idle", UNCHANGED httpd,
           \A v \in Workers \ {w} : hand'[v] = hand[v] /\ job'[v] = job[v],
           job'[w] \in Jobs, job' = [job EXCEPT ![w] = job'[w]],
           answers' \in [Sockets -> Seq(Pieces)], WorkerAnswers(w)',
           \A t \in Sockets \ {Sock(w)} :
               answers'[t] = answers[t] /\ (t \in stopped => t \in stopped'),
           Sock(w)' = Sock(w) \/ answers'[Sock(w)] = <<>>,
           UNCHANGED <<sd, seekedTo>> \/ sd = NoTask \/ sd = w
    PROVE  AnswerInv'
<1>1. /\ Sock(w) \in Sockets /\ Sock(w) # httpd.sock
      /\ \A v \in Workers \ {w} : Sock(v) # Sock(w)
  BY WorkerAlone
<1>2. AnswerType'
  BY DEF AnswerInv, AnswerType
<1>3. Fresh'
  <2> SUFFICES ASSUME NEW s \in Sockets, answers'[s] # <<>>
               PROVE  \/ httpd.sock = s /\ httpd.step \in {"file", "answered", "refused"}
                      \/ \E v \in Workers : Sock(v)' = s
    BY DEF Fresh
  <2>1. CASE s = Sock(w)
    BY <2>1
  <2>2. CASE s # Sock(w)
    <3>1. \/ httpd.sock = s /\ httpd.step \in {"file", "answered", "refused"}
          \/ \E v \in Workers \ {w} : Sock(v) = s
      BY <2>2 DEF AnswerInv, Fresh
    <3> QED BY <3>1 DEF Sock
  <2> QED BY <2>1, <2>2
<1>4. HttpdAnswers'
  <2>1. httpd.step # "idle" => answers'[httpd.sock] = answers[httpd.sock]
    BY <1>1, HttpdAlone
  <2>2. httpd.step = "titles" => sd' = Httpd
    BY ArchiveAssumption DEF AnswerInv, HttpdAnswers, NoTask, Httpd
  <2> QED BY <2>1, <2>2 DEF AnswerInv, HttpdAnswers
<1>5. \A v \in Workers \ {w} : WorkerAnswers(v)'
  <2>1. \A v \in Workers \ {w} : sd = v => UNCHANGED <<sd, seekedTo>>
    BY ArchiveAssumption
  <2> QED BY <1>1, <2>1, OthersKept
<1> QED BY <1>2, <1>3, <1>4, <1>5 DEF AnswerInv

\* What is known of a worker with a request.
LEMMA WorkerKnown ==
    ASSUME OwnInv, AnswerInv, NEW w \in Workers, Step(w) # "idle"
    PROVE  /\ Sock(w) \in Sockets /\ answers[Sock(w)] \in Seq(Pieces)
           /\ job[w] \in Jobs /\ WorkerAnswers(w)
           /\ job[w].entry \in Entries /\ job[w].asked \in Entries
           /\ job[w].i \in Nat /\ job[w].hops \in Nat
           /\ NoJob \in Jobs
<1>1. Sock(w) \in Sockets
  BY WorkerAlone
<1>2. job[w] \in Jobs /\ answers[Sock(w)] \in Seq(Pieces)
  BY <1>1 DEF AnswerInv, AnswerType
<1>3. NoJob \in Jobs
  BY ArchiveAssumption DEF NoJob, Jobs, Entries
<1> QED BY <1>1, <1>2, <1>3 DEF AnswerInv, Jobs

\* The worker goes to a step of its own, and it may send a piece.
LEMMA Going ==
    ASSUME OwnInv, NEW w \in Workers, NEW st \in ServingSteps, GoTo(w, st)
    PROVE  /\ Step(w)' = st /\ Sock(w)' = Sock(w)
           /\ \A v \in Workers \ {w} : hand'[v] = hand[v]
BY DEF OwnInv, OwnType, GoTo, Step, Sock

LEMMA Sent ==
    ASSUME OwnInv, AnswerInv, NEW w \in Workers, Step(w) # "idle", NEW p \in Pieces,
           Answer(Sock(w), p)
    PROVE  /\ answers' \in [Sockets -> Seq(Pieces)]
           /\ answers'[Sock(w)] = Append(answers[Sock(w)], p)
           /\ \A t \in Sockets \ {Sock(w)} : answers'[t] = answers[t]
<1>1. Sock(w) \in Sockets /\ answers[Sock(w)] \in Seq(Pieces)
  BY WorkerKnown
<1>2. Append(answers[Sock(w)], p) \in Seq(Pieces)
  BY <1>1, AppendPiece
<1> QED BY <1>1, <1>2 DEF Answer, AnswerInv, AnswerType

LEMMA FailAnswer ==
    ASSUME OwnInv, AnswerInv, NEW w \in Workers, Step(w) # "idle", UNCHANGED httpd,
           Fail(w), answers[Sock(w)] = <<>>,
           UNCHANGED <<sd, seekedTo>> \/ sd = w
    PROVE  AnswerInv'
<1> DEFINE b == Append(<<>>, Notice)
<1>1. /\ Step(w)' = "served" /\ Sock(w)' = Sock(w)
      /\ \A v \in Workers \ {w} : hand'[v] = hand[v]
  BY Going DEF Fail, ServingSteps, WorkerSteps
<1>2. job[w] \in Jobs /\ NoJob \in Jobs /\ job' = [job EXCEPT ![w] = NoJob]
  BY WorkerKnown DEF Fail
<1>3. job'[w] = NoJob /\ \A v \in Workers \ {w} : job'[v] = job[v]
  BY <1>2 DEF AnswerInv, AnswerType
<1>4. /\ answers' \in [Sockets -> Seq(Pieces)] /\ answers'[Sock(w)] = b
      /\ \A t \in Sockets \ {Sock(w)} : answers'[t] = answers[t]
  BY PieceTypes, Sent DEF Fail
<1>5. Notice \in Pieces /\ Notice.kind = "whole" /\ Notice.what = "notice" /\ <<>> \in Seq(Pieces)
  BY PieceTypes DEF Notice
<1>6. DOMAIN b = 1..1 /\ b[1] = Notice
  <2>1. Len(<<>>) = 0 /\ DOMAIN b = 1..(Len(<<>>) + 1) /\ b[Len(<<>>) + 1] = Notice
    BY <1>5, AppendPiece
  <2> QED BY <2>1
<1>7. WellFormed(b)
  BY <1>5, AnswerGrows
<1> HIDE DEF b
<1>8. Right(b, NoJob)
  <2>1. \A i \in DOMAIN b : b[i].kind = "whole" /\ b[i].what = "notice"
    BY <1>5, <1>6
  <2> QED BY <2>1 DEF Right
<1>9. WorkerAnswers(w)'
  BY <1>1, <1>3, <1>4, <1>7, <1>8 DEF WorkerAnswers
<1> QED BY <1>1, <1>2, <1>3, <1>4, <1>9, WorkerStep DEF Fail

LEMMA ReplyAnswer ==
    ASSUME OwnInv, AnswerInv, NEW w \in Workers, Step(w) # "idle",
           UNCHANGED <<httpd, sd, seekedTo>>,
           NEW what \in {"302", "blob"}, Reply(w, what), answers[Sock(w)] = <<>>,
           what = "302" => job[w].entry \in Targets(job[w].asked),
           what = "blob" => job[w].entry = job[w].asked
    PROVE  AnswerInv'
<1> DEFINE p == [kind |-> "whole", what |-> what, of |-> job[w].entry]
           b == Append(<<>>, p)
           k == [NoJob EXCEPT !.asked = job[w].asked]
<1>1. /\ Step(w)' = "served" /\ Sock(w)' = Sock(w)
      /\ \A v \in Workers \ {w} : hand'[v] = hand[v]
  BY Going DEF Reply, ServingSteps, WorkerSteps
<1>2. k \in Jobs /\ k.asked = job[w].asked /\ job' = [job EXCEPT ![w] = k]
  BY WorkerKnown DEF Reply, Jobs, NoJob
<1>3. job'[w] = k /\ \A v \in Workers \ {w} : job'[v] = job[v]
  BY <1>2 DEF AnswerInv, AnswerType
<1>4. p \in Pieces /\ <<>> \in Seq(Pieces)
  BY WorkerKnown DEF Pieces
<1>5. /\ answers' \in [Sockets -> Seq(Pieces)] /\ answers'[Sock(w)] = b
      /\ \A t \in Sockets \ {Sock(w)} : answers'[t] = answers[t]
  BY <1>4, Sent DEF Reply
<1>6. DOMAIN b = 1..1 /\ b[1] = p
  <2>1. Len(<<>>) = 0 /\ DOMAIN b = 1..(Len(<<>>) + 1) /\ b[Len(<<>>) + 1] = p
    BY <1>4, AppendPiece
  <2> QED BY <2>1
<1>7. WellFormed(b)
  BY <1>4, AnswerGrows
<1>8. p.kind = "whole" /\ p.what = what /\ p.of = job[w].entry
  OBVIOUS
<1> HIDE DEF b, p, k
<1>9. Right(b, k)
  BY <1>2, <1>6, <1>8 DEF Right
<1>10. WorkerAnswers(w)'
  BY <1>1, <1>3, <1>5, <1>7, <1>9 DEF WorkerAnswers
<1> QED BY <1>1, <1>2, <1>3, <1>5, <1>10, WorkerStep DEF Reply

LEMMA GiveUpAnswer ==
    ASSUME OwnInv, AnswerInv, NEW w \in Workers, Step(w) # "idle", UNCHANGED httpd,
           GiveUp(w), Unfinished(answers[Sock(w)]), Right(answers[Sock(w)], job[w]),
           UNCHANGED <<sd, seekedTo>> \/ sd = w
    PROVE  AnswerInv'
<1> DEFINE k == [NoJob EXCEPT !.asked = job[w].asked]
<1>1. /\ Step(w)' = "served" /\ Sock(w)' = Sock(w)
      /\ \A v \in Workers \ {w} : hand'[v] = hand[v]
  BY Going DEF GiveUp, ServingSteps, WorkerSteps
<1>2. k \in Jobs /\ k.asked = job[w].asked /\ job' = [job EXCEPT ![w] = k]
  BY WorkerKnown DEF GiveUp, Jobs, NoJob
<1> HIDE DEF k
<1>3. job'[w] = k /\ \A v \in Workers \ {w} : job'[v] = job[v]
  BY <1>2 DEF AnswerInv, AnswerType
<1>4. Right(answers[Sock(w)], k)
  BY <1>2 DEF Right
<1>5. answers' = answers /\ Sock(w) \in stopped' /\ stopped \subseteq stopped'
  BY DEF GiveUp, Stop
<1>6. WorkerAnswers(w)'
  BY <1>1, <1>3, <1>4, <1>5 DEF WorkerAnswers
<1> QED BY <1>1, <1>2, <1>3, <1>5, <1>6, WorkerStep DEF AnswerInv, AnswerType

\* Serving goes on without a piece.
LEMMA ProceedAnswer ==
    ASSUME OwnInv, AnswerInv, NEW w \in Workers, Step(w) # "idle", UNCHANGED httpd,
           NEW st \in ServingSteps, Proceed(w, st),
           NEW j \in Jobs, job' = [job EXCEPT ![w] = j],
           UNCHANGED <<sd, seekedTo>> \/ sd = NoTask \/ sd = w,
           Step(w)' = st /\ Sock(w)' = Sock(w) /\ job'[w] = j /\ answers' = answers
               => WorkerAnswers(w)'
    PROVE  AnswerInv'
<1>1. /\ Step(w)' = st /\ Sock(w)' = Sock(w)
      /\ \A v \in Workers \ {w} : hand'[v] = hand[v]
  BY Going DEF Proceed
<1>2. job'[w] = j /\ \A v \in Workers \ {w} : job'[v] = job[v]
  BY DEF AnswerInv, AnswerType
<1>3. answers' = answers /\ stopped' = stopped
  BY DEF Proceed
<1> QED BY <1>1, <1>2, <1>3, WorkerStep DEF AnswerInv, AnswerType

\* Redirections: one more hop, or the page at their end.
LEMMA ResolvingHop ==
    ASSUME NEW j \in Jobs, Resolving(j), MoreHops(j)
    PROVE  Resolving([j EXCEPT !.entry = Archive[j.entry].to, !.hops = @ + 1])
<1> DEFINE n == j.hops
           to == Archive[j.entry].to
           k == [j EXCEPT !.entry = to, !.hops = @ + 1]
<1>1. /\ n \in Nat /\ j.entry \in Entries /\ to \in Entries /\ MaxHops \in Nat
      /\ k.asked = j.asked /\ k.entry = to /\ k.hops = n + 1
      /\ n < MaxHops /\ Archive[j.entry].redirect
  BY ArchiveAssumption DEF Jobs, MoreHops, Entries
<1>2. PICK p \in [0..n -> Entries] :
          p[0] = j.asked /\ p[n] = j.entry /\ Follows(p, n)
  BY DEF Resolving
<1> DEFINE q == [i \in 0..(n + 1) |-> IF i = n + 1 THEN to ELSE p[i]]
<1>3. q \in [0..(n + 1) -> Entries] /\ q[0] = j.asked /\ q[n + 1] = to
  BY <1>1, <1>2
<1>4. \A i \in 0..n : q[i] = p[i]
  BY <1>1
<1> HIDE DEF q, to
<1>5. Follows(q, n + 1)
  <2> SUFFICES ASSUME NEW i \in 0..n
               PROVE  Archive[q[i]].redirect /\ q[i + 1] = Archive[q[i]].to
    BY <1>1 DEF Follows
  <2>1. CASE i = n
    BY <1>1, <1>2, <1>3, <1>4, <2>1 DEF to
  <2>2. CASE i # n
    <3>1. i \in 0..n - 1 /\ i \in 0..n /\ i + 1 \in 0..n
      BY <1>1, <2>2
    <3>2. Archive[p[i]].redirect /\ p[i + 1] = Archive[p[i]].to
      BY <1>2, <3>1 DEF Follows
    <3> QED BY <1>4, <3>1, <3>2
  <2> QED BY <2>1, <2>2
<1> HIDE DEF k
<1>6. k.hops <= MaxHops
  BY <1>1
<1>7. Resolving(k)
  BY <1>1, <1>3, <1>5, <1>6 DEF Resolving
<1> QED BY <1>7 DEF k, to

LEMMA ResolvingEnds ==
    ASSUME NEW j \in Jobs, Resolving(j), ~Archive[j.entry].redirect
    PROVE  j.entry \in Targets(j.asked)
<1>1. j.entry \in Entries /\ j.hops \in 0..MaxHops
  BY ArchiveAssumption DEF Jobs, Resolving
<1> QED BY <1>1 DEF Resolving, Targets

\* Nothing was followed yet.
LEMMA ResolvingBegins ==
    ASSUME NEW j \in Jobs, j.hops = 0, j.entry = j.asked
    PROVE  Resolving(j)
<1> DEFINE p == [i \in 0..0 |-> j.asked]
<1>1. j.asked \in Entries /\ 0 <= MaxHops
  BY ArchiveAssumption DEF Jobs
<1>2. p \in [0..0 -> Entries] /\ p[0] = j.asked
  BY <1>1
<1>3. Follows(p, 0)
  BY DEF Follows
<1> QED BY <1>1, <1>2, <1>3 DEF Resolving

\* The pieces sent so far are chunks, and right ones.
LEMMA SendingRight ==
    ASSUME NEW a \in Seq(Pieces), NEW j \in Jobs, Sending(a, j)
    PROVE  Unfinished(a) /\ Right(a, j)
<1>1. DOMAIN a = 1..Len(a)
  OBVIOUS
<1>2. \A k \in DOMAIN a : a[k].kind = "chunk" /\ a[k].from = Piece(j.asked, k)
  BY <1>1 DEF Sending, Chunk
<1> QED BY <1>2 DEF Unfinished, Right

LEMMA SendingGoesOn ==
    ASSUME NEW a \in Seq(Pieces), NEW j \in Jobs, Sending(a, j), MorePieces(j),
           j.entry = j.asked
    PROVE  Sending(Append(a, Chunk(Piece(j.asked, j.i + 1))), [j EXCEPT !.i = @ + 1])
<1> DEFINE p == Chunk(Piece(j.asked, j.i + 1))
           b == Append(a, p)
           k == [j EXCEPT !.i = @ + 1]
<1>1. /\ k.asked = j.asked /\ k.i = j.i + 1 /\ j.i \in Nat /\ j.asked \in Entries
      /\ j.i < Archive[j.asked].blob /\ Archive[j.asked].blob \in Nat
  BY ArchiveAssumption DEF Jobs, MorePieces, Entries
<1>2. p \in Pieces
  BY <1>1, PieceTypes
<1>3. /\ Len(a) \in Nat /\ Len(b) = Len(a) + 1
      /\ \A i \in 1..Len(a) : b[i] = a[i]
      /\ b[Len(a) + 1] = p
  BY <1>2, AppendPiece
<1> HIDE DEF b, k
<1>4. Len(a) = j.i /\ \A i \in 1..Len(a) : a[i] = Chunk(Piece(j.asked, i))
  BY DEF Sending
<1>5. \A i \in 1..Len(b) : b[i] = Chunk(Piece(j.asked, i))
  BY <1>3, <1>4
<1>6. k.i = Len(b) /\ k.i <= Archive[k.asked].blob
  BY <1>1, <1>3, <1>4
<1>7. Sending(b, k)
  BY <1>1, <1>5, <1>6 DEF Sending
<1> QED BY <1>7 DEF b, k

LEMMA SendingEnds ==
    ASSUME NEW a \in Seq(Pieces), NEW j \in Jobs, Sending(a, j), ~MorePieces(j),
           j.entry = j.asked
    PROVE  Right(Append(a, LastChunk), j) /\ WellFormed(Append(a, LastChunk))
<1> DEFINE b == Append(a, LastChunk)
<1>1. LastChunk \in Pieces /\ LastChunk.kind = "last"
  BY PieceTypes DEF LastChunk
<1>2. WellFormed(b)
  BY <1>1, SendingRight, AnswerGrows
<1>3. /\ Len(a) \in Nat /\ DOMAIN b = 1..(Len(a) + 1)
      /\ \A i \in 1..Len(a) : b[i] = a[i]
      /\ b[Len(a) + 1] = LastChunk
  BY <1>1, AppendPiece
<1>4. Len(a) + 1 = Archive[j.asked].blob + 1
  BY ArchiveAssumption DEF Jobs, MorePieces, Entries, Sending
<1> HIDE DEF b
<1>5. Right(b, j)
  <2> SUFFICES ASSUME NEW i \in DOMAIN b
               PROVE  /\ b[i].kind = "chunk" => b[i].from = Piece(j.asked, i)
                      /\ b[i].kind = "last" => i = Archive[j.asked].blob + 1
                      /\ b[i].kind # "whole"
    BY DEF Right
  <2>1. CASE i = Len(a) + 1
    BY <1>1, <1>3, <1>4, <2>1
  <2>2. CASE i # Len(a) + 1
    <3>1. i \in 1..Len(a)
      BY <1>3, <2>2
    <3>2. b[i] = Chunk(Piece(j.asked, i))
      BY <1>3, <3>1 DEF Sending
    <3> QED BY <3>2 DEF Chunk
  <2> QED BY <2>1, <2>2
<1> QED BY <1>2, <1>5 DEF b

LEMMA LookupAnswer ==
    ASSUME OwnInv, AnswerInv, NEW w \in Workers,
           Reject(w) \/ \E e \in Entries : Found(w, e)
    PROVE  AnswerInv'
<1>1. Step(w) = "serve" /\ UNCHANGED <<httpd, sd, seekedTo>>
  BY DEF Reject, Found
<1>2. answers[Sock(w)] = <<>>
  BY <1>1, WorkerKnown DEF WorkerAnswers
<1>3. CASE Reject(w)
  BY <1>1, <1>2, <1>3, FailAnswer DEF Reject
<1>4. ASSUME NEW e \in Entries, Found(w, e) PROVE AnswerInv'
  <2> DEFINE j == [NoJob EXCEPT !.asked = e, !.entry = e]
  <2>1. /\ j \in Jobs /\ j.entry = e /\ j.asked = e /\ j.hops = 0 /\ j.i = 0
        /\ job' = [job EXCEPT ![w] = j]
    BY <1>1, <1>4, WorkerKnown DEF Found, Jobs, NoJob
  <2> HIDE DEF j
  <2>2. Resolving(j)
    BY <2>1, ResolvingBegins
  <2>3. PICK st \in {"resolve", "cluster"} : Proceed(w, st)
    BY <1>4 DEF Found
  <2>4. Step(w)' = st /\ Sock(w)' = Sock(w) /\ job'[w] = j /\ answers' = answers
            => WorkerAnswers(w)'
    BY <1>2, <2>1, <2>2, <2>3 DEF WorkerAnswers
  <2> QED BY <1>1, <2>1, <2>3, <2>4, ProceedAnswer DEF ServingSteps, WorkerSteps
<1> QED BY <1>3, <1>4

LEMMA ResolveAnswer ==
    ASSUME OwnInv, AnswerInv, NEW w \in Workers, Resolve(w)
    PROVE  AnswerInv'
<1>1. /\ Step(w) = "resolve" /\ UNCHANGED <<httpd, job>> /\ sd = NoTask /\ sd' = w
      /\ MoreHops(job[w]) /\ seekedTo' = Dirent(Archive[job[w].entry].to)
  BY DEF Resolve, Seek, SdFree
<1>2. answers[Sock(w)] = <<>> /\ Resolving(job[w]) /\ job[w] \in Jobs
  BY <1>1, WorkerKnown DEF WorkerAnswers
<1>3. job' = [job EXCEPT ![w] = job[w]]
  BY <1>1 DEF AnswerInv, AnswerType
<1>4. Step(w)' = "hop" /\ Sock(w)' = Sock(w) /\ job'[w] = job[w] /\ answers' = answers
          => WorkerAnswers(w)'
  BY <1>1, <1>2 DEF WorkerAnswers
<1> QED BY <1>1, <1>2, <1>3, <1>4, ProceedAnswer DEF Resolve, ServingSteps, WorkerSteps

LEMMA HopAnswer ==
    ASSUME OwnInv, AnswerInv, NEW w \in Workers, Hop(w)
    PROVE  AnswerInv'
<1> DEFINE to == Archive[job[w].entry].to
           j == [job[w] EXCEPT !.entry = to, !.hops = @ + 1]
<1>1. Step(w) = "hop" /\ UNCHANGED httpd /\ Reads
  BY DEF Hop
<1>2. /\ answers[Sock(w)] = <<>> /\ Resolving(job[w]) /\ MoreHops(job[w]) /\ job[w] \in Jobs
      /\ sd = w /\ seekedTo = Dirent(to)
  BY <1>1, WorkerKnown DEF WorkerAnswers
<1>3. CASE /\ job' = [job EXCEPT ![w].entry = seekedTo.entry, ![w].hops = @ + 1]
           /\ Proceed(w, "resolve")
  <2>1. seekedTo.entry = to /\ to \in Entries /\ job \in [Workers -> Jobs]
    BY <1>2, ArchiveAssumption DEF Dirent, Jobs, Entries, AnswerInv, AnswerType
  <2>2. job' = [job EXCEPT ![w] = j] /\ j \in Jobs
    BY <1>2, <1>3, <2>1 DEF Jobs
  <2>3. Resolving(j)
    BY <1>2, ResolvingHop
  <2> HIDE DEF j
  <2>4. Step(w)' = "resolve" /\ Sock(w)' = Sock(w) /\ job'[w] = j /\ answers' = answers
            => WorkerAnswers(w)'
    BY <1>2, <2>3 DEF WorkerAnswers
  <2> QED BY <1>1, <1>2, <1>3, <2>2, <2>4, ProceedAnswer DEF ServingSteps, WorkerSteps
<1>4. CASE Fail(w)
  BY <1>1, <1>2, <1>4, FailAnswer
<1> QED BY <1>3, <1>4 DEF Hop

LEMMA ResolvedAnswer ==
    ASSUME OwnInv, AnswerInv, NEW w \in Workers, Resolved(w)
    PROVE  AnswerInv'
<1>1. Step(w) = "resolve" /\ UNCHANGED <<httpd, sd, seekedTo>>
  BY DEF Resolved
<1>2. answers[Sock(w)] = <<>> /\ Resolving(job[w]) /\ job[w] \in Jobs
  BY <1>1, WorkerKnown DEF WorkerAnswers
<1>3. CASE ~Archive[job[w].entry].redirect
  <2>1. job[w].entry \in Targets(job[w].asked)
    BY <1>2, <1>3, ResolvingEnds
  <2> QED BY <1>1, <1>2, <1>3, <2>1, ReplyAnswer DEF Resolved
<1>4. CASE Archive[job[w].entry].redirect
  BY <1>1, <1>2, <1>4, FailAnswer DEF Resolved
<1> QED BY <1>3, <1>4

LEMMA ReadClusterAnswer ==
    ASSUME OwnInv, AnswerInv, NEW w \in Workers, ReadCluster(w)
    PROVE  AnswerInv'
<1>1. Step(w) = "cluster" /\ UNCHANGED <<httpd, sd, seekedTo>>
  BY DEF ReadCluster
<1>2. /\ answers[Sock(w)] = <<>> /\ job[w].entry = job[w].asked /\ job[w].i = 0
      /\ job[w] \in Jobs
  BY <1>1, WorkerKnown DEF WorkerAnswers
<1>3. Sending(<<>>, job[w])
  <2>1. 0 <= Archive[job[w].asked].blob
    BY <1>2, ArchiveAssumption DEF Jobs, Entries
  <2> QED BY <1>2, <2>1 DEF Sending
<1>4. ASSUME NEW st \in {"piece", "copy"}, Proceed(w, st), UNCHANGED job PROVE AnswerInv'
  <2>1. job' = [job EXCEPT ![w] = job[w]]
    BY <1>4 DEF AnswerInv, AnswerType
  <2>2. Step(w)' = st /\ Sock(w)' = Sock(w) /\ job'[w] = job[w] /\ answers' = answers
            => WorkerAnswers(w)'
    BY <1>2, <1>3 DEF WorkerAnswers
  <2> QED BY <1>1, <1>2, <1>4, <2>1, <2>2, ProceedAnswer DEF ServingSteps, WorkerSteps
<1>5. CASE Fail(w)
  BY <1>1, <1>2, <1>5, FailAnswer
<1>6. CASE GiveUp(w)
  BY <1>1, <1>2, <1>6, NothingSent, GiveUpAnswer
<1> QED BY <1>4, <1>5, <1>6 DEF ReadCluster

LEMMA ServeCopyAnswer ==
    ASSUME OwnInv, AnswerInv, NEW w \in Workers, ServeCopy(w)
    PROVE  AnswerInv'
<1>1. Step(w) = "copy" /\ UNCHANGED <<httpd, sd, seekedTo>>
  BY DEF ServeCopy
<1>2. answers[Sock(w)] = <<>> /\ job[w].entry = job[w].asked
  BY <1>1, WorkerKnown DEF WorkerAnswers
<1> QED BY <1>1, <1>2, ReplyAnswer, FailAnswer, GiveUpAnswer, NothingSent DEF ServeCopy

LEMMA SeekPieceAnswer ==
    ASSUME OwnInv, AnswerInv, NEW w \in Workers, SeekPiece(w)
    PROVE  AnswerInv'
<1>1. /\ Step(w) = "piece" /\ UNCHANGED <<httpd, job>> /\ sd = NoTask /\ sd' = w
      /\ MorePieces(job[w]) /\ seekedTo' = Piece(job[w].entry, job[w].i + 1)
  BY DEF SeekPiece, Seek, SdFree
<1>2. /\ Sending(answers[Sock(w)], job[w]) /\ job[w].entry = job[w].asked
      /\ job[w] \in Jobs
  BY <1>1, WorkerKnown DEF WorkerAnswers
<1>3. job' = [job EXCEPT ![w] = job[w]]
  BY <1>1 DEF AnswerInv, AnswerType
<1>4. Step(w)' = "read" /\ Sock(w)' = Sock(w) /\ job'[w] = job[w] /\ answers' = answers
          => WorkerAnswers(w)'
  BY <1>1, <1>2 DEF WorkerAnswers
<1> QED BY <1>1, <1>2, <1>3, <1>4, ProceedAnswer DEF SeekPiece, ServingSteps, WorkerSteps

LEMMA ReadPieceAnswer ==
    ASSUME OwnInv, AnswerInv, NEW w \in Workers, ReadPiece(w)
    PROVE  AnswerInv'
<1> DEFINE a == answers[Sock(w)]
           j == [job[w] EXCEPT !.i = @ + 1]
           p == Chunk(Piece(job[w].asked, job[w].i + 1))
<1>1. Step(w) = "read" /\ UNCHANGED httpd /\ Reads
  BY DEF ReadPiece
<1>2. /\ Sending(a, job[w]) /\ job[w].entry = job[w].asked /\ MorePieces(job[w])
      /\ job[w] \in Jobs /\ a \in Seq(Pieces) /\ job[w].i \in Nat /\ job[w].asked \in Entries
      /\ sd = w /\ seekedTo = Piece(job[w].asked, job[w].i + 1)
  BY <1>1, WorkerKnown DEF WorkerAnswers
<1>3. CASE /\ Answer(Sock(w), Chunk(seekedTo)) /\ job' = [job EXCEPT ![w].i = @ + 1]
           /\ GoTo(w, "piece") /\ UNCHANGED stopped
  <2>1. p \in Pieces
    BY <1>2, PieceTypes
  <2>2. /\ answers' \in [Sockets -> Seq(Pieces)] /\ answers'[Sock(w)] = Append(a, p)
        /\ \A t \in Sockets \ {Sock(w)} : answers'[t] = answers[t]
    BY <1>1, <1>2, <1>3, <2>1, Sent
  <2>3. Sending(Append(a, p), j)
    BY <1>2, SendingGoesOn
  <2>4. /\ j \in Jobs /\ job' = [job EXCEPT ![w] = j]
        /\ j.entry = job[w].entry /\ j.asked = job[w].asked
    <3>1. job \in [Workers -> Jobs]
      BY DEF AnswerInv, AnswerType
    <3>2. job[w].i + 1 \in Nat
      BY <1>2
    <3>3. j \in Jobs /\ j.entry = job[w].entry /\ j.asked = job[w].asked
      BY <1>2, <3>2 DEF Jobs
    <3>4. job' = [job EXCEPT ![w] = j]
      BY <1>3, <3>1
    <3> QED BY <3>3, <3>4
  <2> HIDE DEF j, p
  <2>5. job'[w] = j /\ \A v \in Workers \ {w} : job'[v] = job[v]
    BY <2>4 DEF AnswerInv, AnswerType
  <2>6. /\ Step(w)' = "piece" /\ Sock(w)' = Sock(w)
        /\ \A v \in Workers \ {w} : hand'[v] = hand[v]
    BY <1>3, Going DEF ServingSteps, WorkerSteps
  <2>7. WorkerAnswers(w)'
    BY <1>2, <2>2, <2>3, <2>4, <2>5, <2>6 DEF WorkerAnswers
  <2> QED BY <1>1, <1>2, <1>3, <2>2, <2>4, <2>5, <2>6, <2>7, WorkerStep
<1>4. CASE GiveUp(w)
  <2>1. Unfinished(a) /\ Right(a, job[w])
    BY <1>2, SendingRight
  <2> QED BY <1>1, <1>2, <1>4, <2>1, GiveUpAnswer
<1>5. CASE ~SentAny(job[w]) /\ Fail(w)
  <2>1. Len(a) = 0
    BY <1>2, <1>5 DEF SentAny, Sending
  <2>2. a = <<>>
    BY <1>2, <2>1, EmptySeq
  <2> QED BY <1>1, <1>2, <1>5, <2>2, FailAnswer
<1> QED BY <1>3, <1>4, <1>5 DEF ReadPiece

LEMMA EndPiecesAnswer ==
    ASSUME OwnInv, AnswerInv, NEW w \in Workers, EndPieces(w)
    PROVE  AnswerInv'
<1> DEFINE a == answers[Sock(w)]
<1>1. Step(w) = "piece" /\ UNCHANGED <<httpd, job, stopped, sd, seekedTo>> /\ ~MorePieces(job[w])
  BY DEF EndPieces
<1>2. /\ Sending(a, job[w]) /\ job[w].entry = job[w].asked
      /\ job[w] \in Jobs /\ a \in Seq(Pieces)
  BY <1>1, WorkerKnown DEF WorkerAnswers
<1>3. Right(Append(a, LastChunk), job[w]) /\ WellFormed(Append(a, LastChunk))
  BY <1>1, <1>2, SendingEnds
<1>4. /\ answers' \in [Sockets -> Seq(Pieces)] /\ answers'[Sock(w)] = Append(a, LastChunk)
      /\ \A t \in Sockets \ {Sock(w)} : answers'[t] = answers[t]
  BY <1>1, PieceTypes, Sent DEF EndPieces
<1>5. /\ Step(w)' = "served" /\ Sock(w)' = Sock(w)
      /\ \A v \in Workers \ {w} : hand'[v] = hand[v]
  BY Going DEF EndPieces, ServingSteps, WorkerSteps
<1>6. WorkerAnswers(w)'
  BY <1>1, <1>3, <1>4, <1>5 DEF WorkerAnswers
<1>7. job' = [job EXCEPT ![w] = job'[w]]
  BY <1>1 DEF AnswerInv, AnswerType
<1> QED BY <1>1, <1>2, <1>4, <1>5, <1>6, <1>7, WorkerStep

LEMMA TakeAnswer ==
    ASSUME OwnInv, AnswerInv, NEW w \in Workers, Pooled(Take(w))
    PROVE  AnswerInv'
<1>1. /\ hand[w].step = "idle" /\ queue # <<>>
      /\ UNCHANGED <<httpd, answers, stopped, job, sd, seekedTo>>
  BY DEF Pooled, Take
<1>2. hand'[w].step = "serve" /\ hand'[w].sock = Head(queue)
  BY DEF Pooled, Take, OwnInv, OwnType
<1>3. \A v \in Workers \ {w} : hand'[v] = hand[v]
  BY DEF Pooled, Take, OwnInv, OwnType
<1>4. Sock(w) \notin Sockets
  BY <1>1 DEF OwnInv, BusyWithOne, Sock, Sockets, NoSocket
<1>5. AnswerType' /\ HttpdAnswers'
  BY <1>1 DEF AnswerInv, AnswerType, HttpdAnswers
<1>6. Fresh'
  <2> SUFFICES ASSUME NEW s \in Sockets, answers[s] # <<>>
               PROVE  \/ httpd.sock = s /\ httpd.step \in {"file", "answered", "refused"}
                      \/ \E v \in Workers : Sock(v)' = s
    BY <1>1 DEF Fresh
  <2>1. \/ httpd.sock = s /\ httpd.step \in {"file", "answered", "refused"}
        \/ \E v \in Workers \ {w} : Sock(v) = s
    BY <1>4 DEF AnswerInv, Fresh
  <2> QED BY <1>3, <2>1 DEF Sock
<1>7. WorkerAnswers(w)'
  <2>1. answers[Head(queue)] = <<>>
    BY <1>1, FreshSockets
  <2>2. Step(w)' = "serve" /\ answers'[Sock(w)'] = <<>>
    BY <1>1, <1>2, <2>1 DEF Step, Sock
  <2> QED BY <2>2 DEF WorkerAnswers
<1>8. \A v \in Workers \ {w} : WorkerAnswers(v)'
  BY <1>1, <1>3 DEF AnswerInv, WorkerAnswers, Step, Sock
<1> QED BY <1>5, <1>6, <1>7, <1>8 DEF AnswerInv

LEMMA FinishAnswer ==
    ASSUME OwnInv, AnswerInv, NEW w \in Workers, Finish(w)
    PROVE  AnswerInv'
<1>1. /\ Step(w) = "served" /\ UNCHANGED <<httpd, sd, seekedTo>> /\ Forget(Sock(w))
      /\ hand' = [hand EXCEPT ![w] = Idle] /\ job' = [job EXCEPT ![w] = NoJob]
  BY DEF Finish, Complete, Step, Sock
<1>2. Sock(w) \in Sockets /\ NoJob \in Jobs
  BY <1>1, WorkerKnown
<1>3. /\ answers' \in [Sockets -> Seq(Pieces)] /\ answers'[Sock(w)] = <<>>
      /\ \A t \in Sockets \ {Sock(w)} :
             answers'[t] = answers[t] /\ (t \in stopped => t \in stopped')
  BY <1>1, <1>2 DEF Forget, AnswerInv, AnswerType
<1>4. /\ job'[w] = NoJob /\ hand'[w] = Idle
      /\ \A v \in Workers \ {w} : hand'[v] = hand[v] /\ job'[v] = job[v]
  BY <1>1 DEF AnswerInv, AnswerType, OwnInv, OwnType
<1>5. WorkerAnswers(w)'
  BY <1>4 DEF WorkerAnswers, Step, Idle
<1> QED BY <1>1, <1>2, <1>3, <1>4, <1>5, WorkerStep

LEMMA AnswerNext == OwnInv /\ AnswerInv /\ [Next]_vars => AnswerInv'
<1> SUFFICES ASSUME OwnInv, AnswerInv, [Next]_vars PROVE AnswerInv'
  OBVIOUS
<1>1. CASE Pooled(Connect)
  BY <1>1, QuietAnswer DEF Pooled, Connect
<1>2. ASSUME NEW s \in Sockets, Pooled(Purge(s)) PROVE AnswerInv'
  BY <1>2, QuietAnswer DEF Pooled, Purge
<1>3. ASSUME NEW s \in Sockets, Pooled(Handle(s)) PROVE AnswerInv'
  BY <1>3, QuietAnswer DEF Pooled, Handle
<1>4. CASE HandlerRuns
  BY <1>4, HandlerAnswer
<1>5. ASSUME NEW w \in Workers, Work(w) PROVE AnswerInv'
  BY <1>5, TakeAnswer, FinishAnswer, LookupAnswer, ResolveAnswer, ResolvedAnswer, HopAnswer,
     ReadClusterAnswer, ServeCopyAnswer, SeekPieceAnswer, ReadPieceAnswer, EndPiecesAnswer
     DEF Work, Serve, HoldsSd
<1>6. CASE UNCHANGED vars
  BY <1>6, QuietAnswer DEF vars, pool
<1> QED BY <1>1, <1>2, <1>3, <1>4, <1>5, <1>6 DEF Next

(* What was answered on each socket, and where its owner is with it. *)
THEOREM AnswerInvariant == Spec => []AnswerInv
<1>1. Spec => []OwnInv
  BY PoolInvariant
<1> QED BY <1>1, AnswerInit, AnswerNext, PTL DEF Spec

(* The page that is sent is the one that was asked for, piece by piece, though
   all workers and the search read through the one open file (zread): whoever
   moved it has sd_lock until its own read is done.  And redirections
   (resolve_redirects) lead where the archive says. *)
THEOREM RightPageIsSent == Spec => []RightAnswer
<1>1. OwnInv /\ AnswerInv => RightAnswer
  <2> SUFFICES ASSUME OwnInv, AnswerInv, NEW w \in Workers, Step(w) # "idle"
               PROVE  Right(answers[Sock(w)], job[w])
    BY DEF RightAnswer, Right
  <2>1. answers[Sock(w)] \in Seq(Pieces) /\ job[w] \in Jobs /\ WorkerAnswers(w)
    BY WorkerKnown
  <2>2. Step(w) \in WorkerSteps
    BY DEF OwnInv, OwnType, Step
  <2> QED BY <2>1, <2>2, SendingRight, NothingSent DEF WorkerAnswers, WorkerSteps
<1> QED BY <1>1, PoolInvariant, AnswerInvariant, PTL

\* What AnsweredOnce says of one step.
AnsweredStep ==
    \A s \in Open \ Open' :
        \/ WellFormed(answers[s]) \/ s \in waiting
        \/ s \in stopped /\ Unfinished(answers[s])

\* A socket is given back only by what completes its request.
LEMMA StaysOpen ==
    ASSUME OwnInv, NEW s \in Open,
           s \in waiting => s \in waiting' \/ httpd'.sock = s,
           s = httpd.sock => s = httpd'.sock \/ s \in copies',
           s \in copies => s \in copies',
           \A w \in Workers : hand[w].sock = s => hand'[w].sock = s
    PROVE  s \in Open'
<1>1. s # NoSocket
  BY DEF Open, OwnInv, OwnType, Sockets, NoSocket
<1>2. CASE s \in waiting \/ s \in copies
  BY <1>1, <1>2 DEF Open, Owners
<1>3. CASE s = httpd.sock
  BY <1>1, <1>3 DEF Open, Owners
<1>4. ASSUME NEW w \in Workers, hand[w].sock = s PROVE s \in Open'
  BY <1>1, <1>4 DEF Open, Owners
<1>5. s \in waiting \/ s \in copies \/ s = httpd.sock \/ \E w \in Workers : hand[w].sock = s
  BY DEF Open, Owners
<1> QED BY <1>2, <1>3, <1>4, <1>5

LEMMA AnsweredHolds ==
    ASSUME OwnInv, AnswerInv, [Next]_vars
    PROVE  AnsweredStep
<1> SUFFICES ASSUME NEW s \in Open, s \notin Open'
             PROVE  \/ WellFormed(answers[s]) \/ s \in waiting
                    \/ s \in stopped /\ Unfinished(answers[s])
  BY DEF AnsweredStep
<1>1. CASE Pooled(Connect)
  BY <1>1, StaysOpen DEF Pooled, Connect
<1>2. ASSUME NEW t \in Sockets, Pooled(Purge(t)) PROVE s \in waiting
  <2>1. CASE s = t BY <1>2, <2>1 DEF Pooled, Purge
  <2>2. CASE s # t BY <1>2, <2>2, StaysOpen DEF Pooled, Purge
  <2> QED BY <2>1, <2>2
<1>3. ASSUME NEW t \in Sockets, Pooled(Handle(t)) PROVE s \in waiting
  <2>1. CASE s = t BY <1>3, <2>1 DEF Pooled, Handle
  <2>2. CASE s # t
    <3>1. s # httpd.sock
      BY <1>3 DEF Pooled, Handle, OwnInv, OwnType, BusyWithOne, Open, Sockets, NoSocket
    <3> QED BY <1>3, <2>2, <3>1, StaysOpen DEF Pooled, Handle
  <2> QED BY <2>1, <2>2
<1>4. CASE HandlerRuns
  <2>1. CASE s = httpd.sock /\ httpd.step \in {"answered", "refused"}
    BY <2>1 DEF AnswerInv, HttpdAnswers
  <2>2. CASE ~(s = httpd.sock /\ httpd.step \in {"answered", "refused"})
    <3> SUFFICES FALSE
      OBVIOUS
    <3>1. CASE Pooled(Return)
      <4>1. s # httpd.sock
        BY <2>2, <3>1 DEF Pooled, Return
      <4> QED BY <3>1, <4>1, StaysOpen DEF Pooled, Return
    <3>2. CASE Pooled(CompleteRefused)
      <4>1. s # httpd.sock
        BY <2>2, <3>2 DEF Pooled, CompleteRefused
      <4> QED BY <3>2, <4>1, StaysOpen DEF Pooled, CompleteRefused, Completed
    <3>3. CASE Pooled(Enqueue)
      <4>1. httpd.sock \in copies
        <5>1. httpd.sock \in Sockets /\ AtHttpd(httpd.sock)
          BY <3>3, HttpdAlone DEF Pooled, Enqueue, AtHttpd
        <5> QED BY <5>1 DEF OwnInv, OneOwner
      <4> QED BY <3>3, <4>1, StaysOpen DEF Pooled, Enqueue
    <3>4. CASE ServePage \/ OpenFile \/ SendFile \/ SearchSeeks \/ SearchReads
               \/ Pooled(Begin) \/ Pooled(Refuse)
      <4>1. /\ httpd'.sock = httpd.sock /\ copies \subseteq copies'
            /\ UNCHANGED <<waiting, hand>>
        BY <3>4 DEF ServePage, OpenFile, SendFile, SearchSeeks, SearchReads, Pooled, Begin,
                    Refuse, AnswerAndReturn, OwnInv, OwnType
      <4> QED BY <4>1, StaysOpen
    <3> QED BY <1>4, <3>1, <3>2, <3>3, <3>4 DEF HandlerRuns
  <2> QED BY <2>1, <2>2
<1>5. ASSUME NEW w \in Workers, Work(w)
      PROVE  \/ WellFormed(answers[s])
             \/ s \in stopped /\ Unfinished(answers[s])
  <2>1. CASE Pooled(Take(w))
    <3>1. s \in Sockets
      BY DEF Open, OwnInv, OwnType, Owners, SomeSocket
    <3>2. \A v \in Workers : hand[v].sock = s => hand'[v].sock = s
      BY <2>1, <3>1 DEF Pooled, Take, OwnInv, OwnType, BusyWithOne, Sockets, NoSocket
    <3> QED BY <2>1, <3>2, StaysOpen DEF Pooled, Take
  <2>2. CASE Serve(w)
    <3>1. UNCHANGED <<waiting, httpd, queue, copies>>
      BY <2>2, ServeStep
    <3>2. PICK st \in ServingSteps : GoTo(w, st)
      BY <2>2, ServeStep
    <3>3. \A v \in Workers : hand'[v].sock = hand[v].sock
      BY <3>2 DEF GoTo, OwnInv, OwnType
    <3> QED BY <3>1, <3>3, StaysOpen
  <2>3. CASE Finish(w)
    <3>1. CASE s = Sock(w)
      <4>1. Step(w) = "served"
        BY <2>3 DEF Finish, Complete, Step
      <4> QED BY <3>1, <4>1 DEF AnswerInv, WorkerAnswers
    <3>2. CASE s # Sock(w)
      <4>1. \A v \in Workers : hand[v].sock = s => hand'[v].sock = s
        BY <2>3, <3>2 DEF Finish, Complete, OwnInv, OwnType, Sock
      <4>2. waiting' = waiting /\ httpd' = httpd /\ (s \in copies => s \in copies')
        BY <2>3, <3>2 DEF Finish, Complete, Completed, Sock
      <4> QED BY <4>1, <4>2, StaysOpen
    <3> QED BY <3>1, <3>2
  <2> QED BY <1>5, <2>1, <2>2, <2>3 DEF Work
<1>6. CASE UNCHANGED vars
  BY <1>6, StaysOpen DEF vars, pool
<1> QED BY <1>1, <1>2, <1>3, <1>4, <1>5, <1>6 DEF Next

(* Whoever was read is answered, once and in whole, before the socket is given
   back (Return, CompleteRefused, Complete); or nothing more could be sent. *)
THEOREM EveryoneIsAnswered == Spec => AnsweredOnce
<1>1. OwnInv /\ AnswerInv /\ [Next]_vars => [AnsweredStep]_pool
  BY AnsweredHolds
<1>2. AnsweredOnce <=> [][AnsweredStep]_pool
  BY DEF AnsweredOnce, AnsweredStep
<1> QED BY <1>1, <1>2, PoolInvariant, AnswerInvariant, PTL DEF Spec

=============================================================================
