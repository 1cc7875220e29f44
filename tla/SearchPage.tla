----------------------------- MODULE SearchPage ------------------------------
(***************************************************************************)
(* A search (http_portal.c: search_handler, zim_reader.c: zim_search): in  *)
(* every archive the list of titles is bisected for the first title that   *)
(* is not before the term, and read on from there while titles begin with  *)
(* it.  If no archive has any, the term is tried again with a capital.     *)
(* Without memory for the page the answer is an error; without memory for  *)
(* the hits of an archive no archive is searched.                          *)
(*                                                                         *)
(* A title is a sequence of letters; a letter is a number, as in strcmp.   *)
(***************************************************************************)
EXTENDS Integers, SequencesExt, FiniteSetsExt

CONSTANTS
    Libraries,    \* what archives the card may have: per archive its title list,
                  \* of [title, ns]
    WantedSpace,  \* per archive the namespace of its pages: 'C' or 'A'
    Capital,      \* function from lower-case letters to capitals
    Queries,      \* the decoded q
    ScanCap,      \* ZIM_SEARCH_SCAN_CAP
    PerFile       \* ZIM_SEARCH_PER_FILE

ASSUME SearchAssumption ==
    /\ ScanCap \in Nat \ {0} /\ PerFile \in Nat \ {0}
    /\ Libraries \subseteq Seq(Seq([title : Seq(Nat), ns : STRING])) /\ Queries \subseteq Seq(Nat)
    /\ \A c \in DOMAIN Capital : Capital[c] \in Nat

VARIABLE search

StartsWith(t, p) == IsPrefix(p, t)
\* strcmp(t, p) < 0
Before(t, p) ==
    \E i \in 1..Len(p) :
        /\ \A j \in 1..i - 1 : j <= Len(t) /\ t[j] = p[j]
        /\ i > Len(t) \/ (i <= Len(t) /\ t[i] < p[i])

List == search.titles[search.archive]
Entry(i) == List[i + 1]

SearchInit ==
    \E q \in Queries, titles \in Libraries :
        search = [titles |-> titles, pc |-> "begin", query |-> q, term |-> q, pass |-> 1,
                  archive |-> 1, lo |-> 0, hi |-> 0, scanned |-> 0, n |-> 0, hits |-> <<>>,
                  failed |-> FALSE]  \* a read, or the allocation of the hits

\* The page and the hits are allocated.
Begin ==
    /\ search.pc = "begin"
    /\ search' = [search EXCEPT !.pc = IF search.query = <<>> THEN "done" ELSE "archive"]

\* No memory for the page: 500.
NoPage ==
    /\ search.pc = "begin"
    /\ search' = [search EXCEPT !.pc = "refused"]

\* No memory for the hits: the page is sent as if no title matched.
NoHits ==
    /\ search.pc = "begin" /\ search.query # <<>>
    /\ search' = [search EXCEPT !.pc = "done", !.failed = TRUE]

\* zim_search begins; or all archives are searched, and the second pass follows.
NextArchive ==
    /\ search.pc = "archive"
    /\ search' =
         IF search.archive <= Len(search.titles)
         THEN [search EXCEPT !.pc = "bisect", !.lo = 0, !.hi = Len(List), !.scanned = 0, !.n = 0]
         ELSE IF search.pass = 1 /\ search.hits = <<>> /\ Head(search.term) \in DOMAIN Capital
         THEN [search EXCEPT !.pass = 2, !.archive = 1,
                             !.term = <<Capital[Head(@)]>> \o Tail(@)]
         ELSE [search EXCEPT !.pc = "done"]

\* A read of the card fails: what was found in the archive so far stays.
ReadFails ==
    /\ \/ search.pc = "bisect" /\ search.lo < search.hi
       \/ search.pc = "scan" /\ search.lo < Len(List) /\ search.scanned < ScanCap /\ search.n < PerFile
    /\ search' = [search EXCEPT !.pc = "archive", !.archive = @ + 1, !.failed = TRUE]

\* Mutant of TooEarly: a title equal to the term counts as before it.
TooEarlyOrSame(t) == Before(t, search.term) \/ t = search.term
TooEarly(t) == Before(t, search.term)

Bisect ==
    /\ search.pc = "bisect"
    /\ LET mid == search.lo + (search.hi - search.lo) \div 2 IN
       search' = IF search.lo >= search.hi THEN [search EXCEPT !.pc = "scan"]
                 ELSE IF TooEarly(Entry(mid).title) THEN [search EXCEPT !.lo = mid + 1]
                 ELSE [search EXCEPT !.hi = mid]

\* An entry of another namespace is passed over, and counts as scanned.
Scan ==
    /\ search.pc = "scan"
    /\ LET on == /\ search.lo < Len(List) /\ search.scanned < ScanCap /\ search.n < PerFile
                 /\ StartsWith(Entry(search.lo).title, search.term)
       IN search' =
            IF ~on THEN [search EXCEPT !.pc = "archive", !.archive = @ + 1]
            ELSE LET further == [search EXCEPT !.lo = @ + 1, !.scanned = @ + 1] IN
                 IF Entry(search.lo).ns # WantedSpace[search.archive] THEN further
                 ELSE [further EXCEPT !.n = @ + 1, !.hits = Append(@, <<search.archive, search.lo + 1>>)]

SearchNext == Begin \/ NoPage \/ NoHits \/ NextArchive \/ ReadFails \/ Bisect \/ Scan
-----------------------------------------------------------------------------
Sorted(list) == \A i, j \in DOMAIN list : i < j => ~Before(list[j].title, list[i].title)

Matches(list, i, term) == StartsWith(list[i].title, term)
IsPage(list, space, i, term) == Matches(list, i, term) /\ list[i].ns = space

\* The first pages of an archive among the first entries that begin with the term.
Pages(list, space, term) ==
    {i \in DOMAIN list :
        /\ IsPage(list, space, i, term)
        /\ Cardinality({j \in 1..i - 1 : Matches(list, j, term)}) < ScanCap
        /\ Cardinality({j \in 1..i - 1 : IsPage(list, space, j, term)}) < PerFile}
All(titles, term) == UNION {{a} \X Pages(titles[a], WantedSpace[a], term) : a \in DOMAIN titles}

Earlier(h, g) == h[1] < g[1] \/ (h[1] = g[1] /\ h[2] < g[2])

\* Over lists in the order of strcmp, when no read failed and there was memory for
\* the hits, the page sent is built from the first pages of each archive whose titles
\* begin with the term, and from the capital's only if there are none.  With a failure,
\* of either kind, the page may say that no title matches although titles do; but it
\* never lists anything else, or a page twice or out of order, whatever the order of
\* the list and whatever fails.
ListsRight ==
    search.pc = "done" =>
        LET titles == search.titles  query == search.query  hits == search.hits
            capital == <<Capital[Head(query)]>> \o Tail(query)
        IN  /\ \A k \in DOMAIN hits :
                  IsPage(titles[hits[k][1]], WantedSpace[hits[k][1]], hits[k][2], search.term)
            /\ \A k, l \in DOMAIN hits : k < l => Earlier(hits[k], hits[l])
            /\ ~search.failed /\ query # <<>> /\ (\A a \in DOMAIN titles : Sorted(titles[a])) =>
                  Range(hits) = IF All(titles, query) # {} THEN All(titles, query)
                                ELSE IF Head(query) \in DOMAIN Capital THEN All(titles, capital) ELSE {}
=============================================================================
