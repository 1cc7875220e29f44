----------------------------- MODULE WorkerPool -----------------------------
(***************************************************************************)
(* The pool behind the hub's portal (http_portal.c) and the media server   *)
(* (http_media.c): one web server task, a queue and some workers.          *)
(*                                                                         *)
(* The server task runs one handler at a time.  What lives in an archive,  *)
(* or is music or a game, it does not answer itself: it makes a copy of    *)
(* the request that outlives the handler, puts the copy's pointer into a   *)
(* queue without waiting, and refuses with "503" when the queue is full.   *)
(* A worker takes the pointer, answers, and completes the request, which   *)
(* frees the copy and gives the socket back.                               *)
(*                                                                         *)
(* A request is known by its socket, which a later request uses again.     *)
(* How a request is answered is left to the module that extends this one.  *)
(***************************************************************************)
EXTENDS Integers, FiniteSets, SequencesExt

CONSTANTS
    MaxSockets,  \* max_open_sockets
    Workers,     \* zim_worker or media_worker tasks
    Depth        \* ZIM_WORKQ_DEPTH, MEDIA_WORKQ_DEPTH

ASSUME PoolAssumption ==
    MaxSockets \in Nat /\ IsFiniteSet(Workers) /\ Depth \in Nat \ {0}

Sockets == 1..MaxSockets
NoSocket == 0

VARIABLES
    waiting,  \* sockets whose request is not handled yet
    httpd,    \* the server task: [step, sock]
    queue,    \* s_zimq or s_mediaq
    hand,     \* per worker: [step, sock]
    copies,   \* requests with an asynchronous copy allocated
    answers,  \* per socket, the pieces of its answer
    stopped    \* history: why the answer of a socket had to stop, if it did

pool == <<waiting, httpd, queue, hand, copies, answers, stopped>>

Idle == [step |-> "idle", sock |-> NoSocket]

\* What is sent whole, in one call, such as an error, and what is sent in chunks.
Notice == [kind |-> "whole", what |-> "notice"]
Chunk(from) == [kind |-> "chunk", from |-> from]
LastChunk == [kind |-> "last"]

Answer(s, piece) == answers' = [answers EXCEPT ![s] = Append(@, piece)]
Stop(s) == stopped' = stopped \cup {s}
Forget(s) == answers' = [answers EXCEPT ![s] = <<>>] /\ stopped' = stopped \ {s}

Owners == {httpd} \cup {hand[w] : w \in Workers}

\* A socket is taken until its request is answered and completed.
Open == waiting \cup copies \cup ({o.sock : o \in Owners} \ {NoSocket})
-----------------------------------------------------------------------------
(* The server task *)

\* A client connects and asks, if there is a socket for it: the first free one.
Connect ==
    /\ Open # Sockets
    /\ waiting' = waiting \cup {Min(Sockets \ Open)}
    /\ UNCHANGED <<httpd, queue, hand, copies, answers, stopped>>

\* There is none, so between two handlers the server closes one that no worker
\* uses for the client at its door (lru_purge_enable), read or not.
Purge(s) ==
    /\ Open = Sockets /\ httpd.step = "idle" /\ s \in waiting
    /\ waiting' = waiting \ {s}
    /\ UNCHANGED <<httpd, queue, hand, copies, answers, stopped>>

\* The server calls the handler for one of the sockets that are readable.
Handle(s) ==
    /\ httpd.step = "idle" /\ s \in waiting
    /\ waiting' = waiting \ {s}
    /\ httpd' = [step |-> "route", sock |-> s]
    /\ UNCHANGED <<queue, hand, copies, answers, stopped>>

\* The handler returns after it answered the request itself.
Return ==
    /\ httpd.step = "answered"
    /\ Forget(httpd.sock)
    /\ httpd' = Idle
    /\ UNCHANGED <<waiting, queue, hand, copies>>

\* httpd_req_async_handler_begin, for what a worker is to answer.
Begin ==
    /\ httpd.step = "route"
    /\ \/ /\ copies' = copies \cup {httpd.sock}
          /\ httpd' = [httpd EXCEPT !.step = "begun"]
          /\ UNCHANGED answers
       \/ /\ Answer(httpd.sock, Notice)
          /\ httpd' = [httpd EXCEPT !.step = "answered"]
          /\ UNCHANGED copies
    /\ UNCHANGED <<waiting, queue, hand, stopped>>

FullQueue == Len(queue) >= Depth

\* xQueueSend(..., 0): a place in the queue, or none, at once.
Enqueue ==
    /\ httpd.step = "begun" /\ ~FullQueue
    /\ queue' = Append(queue, httpd.sock)
    /\ httpd' = Idle
    /\ UNCHANGED <<waiting, hand, copies, answers, stopped>>

\* Mutant of Refuse: the call waits for a place, portMAX_DELAY instead of 0.
RefuseWaits == FALSE
Refuse ==
    /\ httpd.step = "begun" /\ FullQueue
    /\ Answer(httpd.sock, Notice)
    /\ httpd' = [httpd EXCEPT !.step = "refused"]
    /\ UNCHANGED <<waiting, queue, hand, copies, stopped>>

\* Mutant of Completed: httpd_req_async_handler_complete forgotten.
CompletedNot(s) == copies
Completed(s) == copies \ {s}

CompleteRefused ==
    /\ httpd.step = "refused"
    /\ copies' = Completed(httpd.sock) /\ Forget(httpd.sock)
    /\ httpd' = Idle
    /\ UNCHANGED <<waiting, queue, hand>>
-----------------------------------------------------------------------------
(* The workers *)

\* Mutant of Taken: the pointer stays in the queue.
TakenNot(q) == q
Taken(q) == Tail(q)

Take(w) ==
    /\ hand[w].step = "idle" /\ queue # <<>>
    /\ hand' = [hand EXCEPT ![w] = [step |-> "serve", sock |-> Head(queue)]]
    /\ queue' = Taken(queue)
    /\ UNCHANGED <<waiting, httpd, copies, answers, stopped>>

Complete(w) ==
    /\ hand[w].step = "served"
    /\ copies' = Completed(hand[w].sock) /\ Forget(hand[w].sock)
    /\ hand' = [hand EXCEPT ![w] = Idle]
    /\ UNCHANGED <<waiting, httpd, queue>>
-----------------------------------------------------------------------------
PoolInit ==
    /\ waiting = {} /\ httpd = Idle /\ queue = <<>> /\ copies = {}
    /\ hand = [w \in Workers |-> Idle]
    /\ answers = [s \in Sockets |-> <<>>]
    /\ stopped = {}
-----------------------------------------------------------------------------
(* Properties *)

InQueue(s) == s \in ToSet(queue)
AtHttpd(s) == httpd.sock = s /\ httpd.step \in {"begun", "refused"}
AtWorker(w, s) == hand[w].sock = s

\* A copy has one owner, the server task, a place in the queue or a worker:
\* it is freed once, and nobody answers through a copy that was freed.
OneOwner ==
    /\ \A i, j \in DOMAIN queue : queue[i] = queue[j] => i = j
    /\ \A s \in Sockets :
          /\ InQueue(s) => ~AtHttpd(s) /\ \A w \in Workers : ~AtWorker(w, s)
          /\ AtHttpd(s) => \A w \in Workers : ~AtWorker(w, s)
          /\ \A v, w \in Workers : AtWorker(v, s) /\ AtWorker(w, s) => v = w
          /\ s \in copies <=> InQueue(s) \/ AtHttpd(s) \/ \E w \in Workers : AtWorker(w, s)

\* An answer is one whole piece, or chunks and the last one: nothing after it,
\* no error in the middle of a page.
WellFormed(a) ==
    \/ Len(a) = 1 /\ a[1].kind = "whole"
    \/ /\ \A i \in 1..Len(a) - 1 : a[i].kind = "chunk"
       /\ a # <<>> /\ a[Len(a)].kind = "last"

\* What can still become a well-formed answer.
Unfinished(a) == \A i \in DOMAIN a : a[i].kind = "chunk"

\* Every request is answered once: a socket that is given back after its
\* request was read had a whole answer sent to it, through refusals and
\* failures.  Without one it stays only if the client hung up, if the card
\* failed after a part was sent, or if there was no memory for the buffer.
AnsweredOnce ==
    [][\A s \in Open \ Open' :
          \/ WellFormed(answers[s]) \/ s \in waiting
          \/ s \in stopped /\ Unfinished(answers[s])]_pool

\* However long the clients of the workers take, even forever, the server task
\* comes back to serve the portal's other pages.
ServerStaysFree == httpd.step # "idle" ~> httpd.step = "idle"
=============================================================================
