---------------------------- MODULE ArchiveServer ----------------------------
(***************************************************************************)
(* The hub's portal, from request to answer: root_handler, serve_file and  *)
(* search_handler in the server task, zim_dispatch and zim_serve_path in   *)
(* the workers, on the pool of WorkerPool.                                 *)
(*                                                                         *)
(* All tasks read an archive through the same open file.  zread seeks and  *)
(* reads under sd_lock; the position belongs to the file, not to the task. *)
(* What was looked up (ZimLookup), cached (ZimCache) and decompressed      *)
(* (ZstdStream) is a result here; the reads that follow are steps.         *)
(***************************************************************************)
EXTENDS WorkerPool

CONSTANTS
    Archive,   \* the directory: entry -> [redirect, to, comp, blob]
    MainPage,  \* the entry of the header's mainPage
    MaxHops,   \* redirections followed by resolve_redirects
    FilePieces \* bound: buffers of a file that serve_file sends

\* What sd holds names a task.
NoTask == "nobody"
Httpd == "httpd"

ASSUME ArchiveAssumption ==
    /\ MainPage \in DOMAIN Archive /\ MaxHops \in Nat /\ FilePieces \in Nat
    /\ \A e \in DOMAIN Archive :
          Archive[e] \in [redirect : BOOLEAN, to : DOMAIN Archive, comp : STRING, blob : Nat]
    /\ NoTask \notin Workers /\ Httpd \notin Workers

VARIABLES
    job,      \* per worker: what zim_serve_path has in its locals
    sd,       \* who holds sd_lock
    seekedTo  \* the position of the archive's file, while it matters

vars == <<pool, job, sd, seekedTo>>

Entries == DOMAIN Archive
Nowhere == [part |-> "nowhere", entry |-> MainPage, i |-> 0]
NoJob == [asked |-> MainPage, entry |-> MainPage, hops |-> 0, i |-> 0]

\* Where in the file a directory entry, a piece of its blob and the titles are.
Dirent(e) == [part |-> "dirent", entry |-> e, i |-> 0]
Piece(e, i) == [part |-> "blob", entry |-> e, i |-> i]
Titles == [part |-> "titles", entry |-> MainPage, i |-> 0]
AFile == [part |-> "file", entry |-> MainPage, i |-> 0]

Step(w) == hand[w].step
Sock(w) == hand[w].sock
GoTo(w, step) == hand' = [hand EXCEPT ![w].step = step]

\* Mutant of SdFree: zread does not take sd_lock.
SdFreeAlways == TRUE
SdFree == sd = NoTask

\* f_lseek, with sd_lock taken, and f_read, which gives it back.
Seek(task, where) == SdFree /\ sd' = task /\ seekedTo' = where
Reads == sd' = NoTask /\ seekedTo' = Nowhere
-----------------------------------------------------------------------------
(* The server task answers itself *)

AnswerAndReturn(piece) ==
    Answer(httpd.sock, piece) /\ httpd' = [httpd EXCEPT !.step = "answered"]

\* A bad path, a redirection to the start page, an answer of the api; also a
\* search without memory.
ServePage ==
    /\ httpd.step = "route"
    /\ AnswerAndReturn(Notice)
    /\ UNCHANGED <<waiting, queue, hand, copies, stopped, job, sd, seekedTo>>

\* serve_file opens the file; without memory for its buffer it says so.
OpenFile ==
    /\ httpd.step = "route"
    /\ \/ httpd' = [httpd EXCEPT !.step = "file"] /\ UNCHANGED answers
       \/ AnswerAndReturn(Notice)
    /\ UNCHANGED <<waiting, queue, hand, copies, stopped, job, sd, seekedTo>>

\* One buffer of the file; at its end, which is also what a failing card looks
\* like, or after a failed send, the chunk that ends the answer.
SendFile ==
    /\ httpd.step = "file" /\ SdFree
    /\ \/ /\ Len(answers[httpd.sock]) < FilePieces
          /\ Answer(httpd.sock, Chunk(AFile)) /\ UNCHANGED httpd
       \/ AnswerAndReturn(LastChunk)
    /\ UNCHANGED <<waiting, queue, hand, copies, stopped, job, sd, seekedTo>>

\* It reads titles through the same file as the workers; one read stands for all.
SearchSeeks ==
    /\ httpd.step = "route"
    /\ Seek(Httpd, Titles)
    /\ httpd' = [httpd EXCEPT !.step = "titles"]
    /\ UNCHANGED <<waiting, queue, hand, copies, answers, stopped, job>>

SearchReads ==
    /\ httpd.step = "titles" /\ Reads
    /\ AnswerAndReturn(Notice)
    /\ UNCHANGED <<waiting, queue, hand, copies, stopped, job>>
-----------------------------------------------------------------------------
(* A worker: zim_dispatch and zim_serve_path *)

\* A single answer, and the request is served.
Reply(w, what) ==
    /\ Answer(Sock(w), [kind |-> "whole", what |-> what, of |-> job[w].entry])
    /\ job' = [job EXCEPT ![w] = [NoJob EXCEPT !.asked = job[w].asked]]
    /\ GoTo(w, "served") /\ UNCHANGED stopped
\* An error of four hundred or five hundred and something.
Fail(w) ==
    /\ Answer(Sock(w), Notice) /\ GoTo(w, "served")
    /\ job' = [job EXCEPT ![w] = NoJob] /\ UNCHANGED stopped
\* The end of serving without an answer, or in the middle of one.
GiveUp(w) ==
    /\ Stop(Sock(w)) /\ GoTo(w, "served")
    /\ job' = [job EXCEPT ![w] = [NoJob EXCEPT !.asked = job[w].asked]] /\ UNCHANGED answers
\* Serving goes on.
Proceed(w, step) == GoTo(w, step) /\ UNCHANGED <<answers, stopped>>

\* A bad path, an unknown archive, an entry that is not found.
Reject(w) ==
    /\ Step(w) = "serve"
    /\ Fail(w)
    /\ UNCHANGED <<waiting, httpd, queue, copies, sd, seekedTo>>

\* zim_find found entry e; or, at the root of an archive, e is its main page and
\* the browser is sent there in any case.
Found(w, e) ==
    /\ Step(w) = "serve"
    /\ job' = [job EXCEPT ![w] = [NoJob EXCEPT !.asked = e, !.entry = e]]
    /\ \/ Proceed(w, IF Archive[e].redirect THEN "resolve" ELSE "cluster")
       \/ e = MainPage /\ Proceed(w, "resolve")
    /\ UNCHANGED <<waiting, httpd, queue, copies, sd, seekedTo>>

MoreHops(j) == Archive[j.entry].redirect /\ j.hops < MaxHops

\* resolve_redirects reads entry after entry.
Resolve(w) ==
    /\ Step(w) = "resolve" /\ MoreHops(job[w])
    /\ Seek(w, Dirent(Archive[job[w].entry].to))
    /\ Proceed(w, "hop")
    /\ UNCHANGED <<waiting, httpd, queue, copies, job>>

Hop(w) ==
    /\ Step(w) = "hop" /\ Reads
    /\ \/ /\ job' = [job EXCEPT ![w].entry = seekedTo.entry,
                                ![w].hops = @ + 1]
          /\ Proceed(w, "resolve")
       \/ Fail(w)
    /\ UNCHANGED <<waiting, httpd, queue, copies>>

\* At a page, the browser is sent there; after too many redirections it is told
\* that the entry is broken.
Resolved(w) ==
    /\ Step(w) = "resolve" /\ ~MoreHops(job[w])
    /\ IF ~Archive[job[w].entry].redirect THEN Reply(w, "302") ELSE Fail(w)
    /\ UNCHANGED <<waiting, httpd, queue, copies, sd, seekedTo>>
-----------------------------------------------------------------------------
(* A worker: serve_blob and send_uncompressed *)

\* The cluster's bounds and its first byte, which may also be of a compression the
\* hub does not know; for uncompressed data the blob's bounds as well, and then
\* the buffer.
ReadCluster(w) ==
    /\ Step(w) = "cluster" /\ SdFree
    /\ LET comp == Archive[job[w].entry].comp IN
       \/ Fail(w)
       \/ comp = "none" /\ Proceed(w, "piece") /\ UNCHANGED job
       \/ comp = "none" /\ GiveUp(w)
       \/ comp = "zstd" /\ Proceed(w, "copy") /\ UNCHANGED job
    /\ UNCHANGED <<waiting, httpd, queue, copies, sd, seekedTo>>

\* zstd_blob_copy, or else send_zstd_stream, gave the blob or failed; or the
\* client hung up.
ServeCopy(w) ==
    /\ Step(w) = "copy"
    /\ Reply(w, "blob") \/ Fail(w) \/ GiveUp(w)
    /\ UNCHANGED <<waiting, httpd, queue, copies, sd, seekedTo>>

MorePieces(j) == j.i < Archive[j.entry].blob

\* One buffer: the read, then the send; or all is sent, and the last chunk.
SeekPiece(w) ==
    /\ Step(w) = "piece" /\ MorePieces(job[w])
    /\ Seek(w, Piece(job[w].entry, job[w].i + 1))
    /\ Proceed(w, "read")
    /\ UNCHANGED <<waiting, httpd, queue, copies, job>>

\* Mutant of SentAny: a failed read is reported in the middle of the page.
SentAnyNever(j) == FALSE
SentAny(j) == j.i > 0

\* The client hung up, or the card failed: after the first piece it is too late
\* for an error page.
ReadPiece(w) ==
    /\ Step(w) = "read" /\ Reads
    /\ \/ /\ Answer(Sock(w), Chunk(seekedTo))
          /\ job' = [job EXCEPT ![w].i = @ + 1]
          /\ GoTo(w, "piece") /\ UNCHANGED stopped
       \/ GiveUp(w)
       \/ ~SentAny(job[w]) /\ Fail(w)
    /\ UNCHANGED <<waiting, httpd, queue, copies>>

EndPieces(w) ==
    /\ Step(w) = "piece" /\ ~MorePieces(job[w])
    /\ Answer(Sock(w), LastChunk)
    /\ GoTo(w, "served")
    /\ UNCHANGED <<waiting, httpd, queue, copies, stopped, job, sd, seekedTo>>
-----------------------------------------------------------------------------
Init ==
    /\ PoolInit
    /\ job = [w \in Workers |-> NoJob]
    /\ sd = NoTask /\ seekedTo = Nowhere

Pooled(action) == action /\ UNCHANGED <<job, sd, seekedTo>>

HandlerRuns ==
    \/ ServePage \/ OpenFile \/ SendFile \/ SearchSeeks \/ SearchReads
    \/ Pooled(Return) \/ Pooled(Begin) \/ Pooled(Enqueue) \/ Pooled(Refuse) \/ Pooled(CompleteRefused)

\* What a worker does between two requests, with the card, and with its client.
Finish(w) ==
    /\ Complete(w)
    /\ job' = [job EXCEPT ![w] = NoJob]
    /\ UNCHANGED <<sd, seekedTo>>

HoldsSd(w) == Hop(w) \/ ReadPiece(w)

Serve(w) ==
    \/ Reject(w) \/ \E e \in Entries : Found(w, e)
    \/ Resolve(w) \/ Resolved(w) \/ ReadCluster(w) \/ ServeCopy(w)
    \/ SeekPiece(w) \/ EndPieces(w) \/ HoldsSd(w)

Work(w) == Pooled(Take(w)) \/ Serve(w) \/ Finish(w)

Next ==
    \/ Pooled(Connect)
    \/ \E s \in Sockets : Pooled(Purge(s)) \/ Pooled(Handle(s))
    \/ HandlerRuns
    \/ \E w \in Workers : Work(w)

\* The server task runs, gets the card's lock in its turn, and turns to every
\* readable socket; a read of the card that was begun ends.  Nothing else is
\* assumed of the workers here.
Fairness ==
    /\ SF_vars(HandlerRuns) /\ \A s \in Sockets : SF_vars(Pooled(Handle(s)))
    /\ WF_vars(\E w \in Workers : HoldsSd(w))

\* A worker gets the lock in its turn, and its client reads on or hits the
\* send timeout: each service ends.
WorkersRun == \A w \in Workers : SF_vars(Work(w))

Spec == Init /\ [][Next]_vars
FairSpec == Spec /\ Fairness
-----------------------------------------------------------------------------
(* Properties *)

\* p goes from entry to entry along n redirections.
Follows(p, n) ==
    \A k \in 0..n - 1 : Archive[p[k]].redirect /\ p[k + 1] = Archive[p[k]].to
\* The page where the redirections of an entry end, if they do soon enough.
Targets(e) ==
    {x \in Entries : /\ ~Archive[x].redirect
                     /\ \E n \in 0..MaxHops : \E p \in [0..n -> Entries] :
                           p[0] = e /\ p[n] = x /\ Follows(p, n)}

\* Whatever the other tasks read meanwhile through the same file, a client gets
\* the pieces of the page it asked for, in order and none missing, or is sent to
\* the page its entry leads to, in one step.
RightAnswer ==
    \A w \in Workers :
        LET a == answers[Sock(w)]
            j == job[w] IN
        Step(w) # "idle" =>
            \A i \in DOMAIN a :
                /\ a[i].kind = "chunk" => a[i].from = Piece(j.asked, i)
                /\ a[i].kind = "last" => i = Archive[j.asked].blob + 1
                /\ a[i].kind = "whole" /\ a[i].what = "302" =>
                      a[i].of \in Targets(j.asked)
                /\ a[i].kind = "whole" /\ a[i].what = "blob" => a[i].of = j.asked

\* If the workers keep running, every request ends.
EveryRequestEnds == WorkersRun => \A s \in Sockets : s \in Open ~> s \notin Open
=============================================================================
