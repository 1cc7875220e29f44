------------------------------ MODULE MediaFile ------------------------------
(***************************************************************************)
(* One file of the media server and a request for a range of it            *)
(* (http_media.c: send_media).  The positions of the file are 0, 1, ...    *)
(***************************************************************************)
EXTENDS Integers, SequencesExt, FiniteSetsExt

CONSTANTS
    Files,     \* lengths of files
    Numbers,   \* numbers in a Range header
    Piece      \* bytes read from the card at once, 16384

ASSUME FileAssumption == Files \subseteq Nat /\ Numbers \subseteq Nat /\ Piece \in Nat \ {0}

VARIABLES total, asked, answer, body, state

file == <<total, asked, answer, body, state>>

\* "bytes=-n", "bytes=a-", "bytes=a-b", or no header that is understood.
Ranges == [form : {"last"}, n : Numbers] \cup [form : {"from"}, a : Numbers]
    \cup [form : {"part"}, a : Numbers, b : Numbers] \cup {[form |-> "whole"]}

First(r, len) ==
    CASE r.form = "last" -> IF r.n > 0 THEN Max({len - r.n, 0}) ELSE 0
      [] r.form \in {"from", "part"} -> r.a
      [] OTHER -> 0

\* Mutant of End: an end beyond the file is believed.
EndBelieved(r, len) == IF r.form = "part" THEN r.b ELSE len - 1
End(r, len) == IF r.form = "part" THEN Min({r.b, len - 1}) ELSE len - 1

Unsatisfiable(r, len) ==
    r.form # "whole" /\ (First(r, len) > len - 1 \/ End(r, len) < First(r, len))

Head206(r, len) ==
    [status |-> IF r.form = "whole" THEN 200 ELSE 206,
     first |-> First(r, len), length |-> End(r, len) - First(r, len) + 1]

\* The header; the client may be gone, or there is no memory for a buffer.
SendHead ==
    /\ state = "open"
    /\ IF Unsatisfiable(asked, total)
       THEN answer' = [status |-> 416, first |-> 0, length |-> 0] /\ state' = "done"
       ELSE /\ answer' = Head206(asked, total)
            /\ state' \in {"sending", "failed"}
    /\ UNCHANGED <<total, asked, body>>

Left == answer.length - Len(body)

\* A piece is read where the last one ended, or less of it, or nothing: the end of
\* the file or a card that fails.
SendPiece ==
    /\ state = "sending" /\ Left > 0
    /\ LET at == answer.first + Len(body)
           take == Min({Left, Piece})
           there == Max({0, Min({take, total - at})})
       IN \/ /\ there > 0
             /\ body' = body \o [i \in 1..there |-> at + i - 1]
             /\ UNCHANGED state
          \/ there = 0 /\ state' = "done" /\ UNCHANGED body
          \/ state' = "failed" /\ UNCHANGED body
    /\ UNCHANGED <<total, asked, answer>>

SentAll == state = "sending" /\ Left = 0 /\ state' = "done" /\ UNCHANGED <<total, asked, answer, body>>

FileInit ==
    /\ total \in Files /\ asked \in Ranges
    /\ answer = [status |-> 0, first |-> 0, length |-> 0] /\ body = <<>> /\ state = "open"

FileNext == SendHead \/ SendPiece \/ SentAll
-----------------------------------------------------------------------------
\* What a range means (RFC 9110), where it has a meaning.
Meaningful(r) == ~(r.form = "last" /\ r.n = 0) /\ ~(r.form = "part" /\ r.b < r.a)
Meant(r, p) ==
    CASE r.form = "last" -> p >= total - r.n
      [] r.form = "from" -> p >= r.a
      [] r.form = "part" -> p \in r.a..r.b
      [] OTHER -> TRUE

\* Whatever the range, the file and the sizes of the pieces: the client gets the
\* bytes it asked for, in order, as many as the header says; and it is told that
\* there are none exactly if there are none.
RightBytes ==
    state = "done" /\ Meaningful(asked) =>
        LET wanted == {p \in 0..total - 1 : Meant(asked, p)} IN
        /\ ToSet(body) = wanted /\ Len(body) = Cardinality(wanted) /\ Len(body) = answer.length
        /\ \A i \in 2..Len(body) : body[i] = body[i - 1] + 1
        /\ answer.status = 416 <=> (wanted = {} /\ asked.form # "whole")
=============================================================================
