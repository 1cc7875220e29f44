----------------------------- MODULE ZimLookup ------------------------------
(***************************************************************************)
(* Finding a page in an archive (zim_reader.c: zim_find and its cache of   *)
(* directory keys), by several workers at once.                            *)
(*                                                                         *)
(* An archive is sorted, so a page is found by bisection.  What bisection  *)
(* reads from the card it leaves in a table shared by all archives and     *)
(* workers, one entry per hash value, the newest replacing what was there; *)
(* of a long key the table keeps the start.  A comparison that the table   *)
(* settles saves a read.                                                   *)
(*                                                                         *)
(* A key is the namespace letter followed by the letters of the url: the   *)
(* code compares the namespace first, then the url.                        *)
(***************************************************************************)
EXTENDS Integers, SequencesExt

CONSTANTS
    Workers,
    Archive,    \* per archive its keys, sorted: what is on the card
    KeyLen,     \* letters the table keeps of a key (1 + ZIM_DKEY_LEN)
    Hash,       \* dk_hash: archive and index |-> entry of the table
    Targets,    \* keys asked for
    MaxFinds,   \* bound: pages asked for
    MaxFaults   \* bound: reads that fail

Archives == DOMAIN Archive

\* strcmp: a differs from b first at i, and is over there or has less.
Less(p, q) ==
    \E i \in 1..Len(q) :
        /\ \A j \in 1..(i - 1) : j <= Len(p) /\ p[j] = q[j]
        /\ i > Len(p) \/ (i <= Len(p) /\ p[i] < q[i])
Compare(p, q) == CASE p = q -> 0 [] Less(p, q) -> -1 [] OTHER -> 1

ASSUME LookupAssumption ==
    /\ KeyLen \in Nat \ {0} /\ MaxFinds \in Nat /\ MaxFaults \in Nat
    /\ Targets \subseteq Seq(Nat)
    /\ \A z \in Archives :
          /\ Archive[z] \in Seq(Seq(Nat))
          /\ \A i, j \in 1..Len(Archive[z]) :
                i < j => Less(Archive[z][i], Archive[z][j])
          /\ \A idx \in 0..(Len(Archive[z]) - 1) : <<z, idx>> \in DOMAIN Hash

VARIABLES
    table,    \* s_dkeys
    find,     \* per worker: the zim_find it is in
    finds, faults

vars == <<table, find, finds, faults>>

Unused == [used |-> FALSE, zid |-> "-", idx |-> 0, complete |-> FALSE, key |-> <<>>]
Waiting == [pc |-> "idle", z |-> "-", key |-> <<>>, lo |-> 0, hi |-> 0, ok |-> TRUE]

Mid(f) == f.lo + (f.hi - f.lo) \div 2
KeyAt(z, idx) == Archive[z][idx + 1]

Fault == faults < MaxFaults /\ faults' = faults + 1
-----------------------------------------------------------------------------
(* The table *)

Prefix(key) == IF Len(key) > KeyLen THEN SubSeq(key, 1, KeyLen) ELSE key

\* What dk_insert leaves of a key.
Kept(z, idx) ==
    [used |-> TRUE, zid |-> z, idx |-> idx,
     complete |-> Len(KeyAt(z, idx)) < KeyLen, key |-> Prefix(KeyAt(z, idx))]

\* Mutant of Known: the archive is not compared.
KnownAnyArchive(z, idx) == LET e == table[Hash[<<z, idx>>]] IN e.used /\ e.idx = idx
Known(z, idx) ==
    LET e == table[Hash[<<z, idx>>]] IN e.used /\ e.zid = z /\ e.idx = idx

\* dk_try: a shortened key whose start is equal decides nothing, save between
\* different namespaces.
FromTable(z, idx, key) ==
    LET e == table[Hash[<<z, idx>>]]
    IN  IF e.complete THEN Compare(e.key, key) ELSE Compare(e.key, Prefix(key))
Decisive(z, idx, key) ==
    Known(z, idx) /\ (table[Hash[<<z, idx>>]].complete \/ FromTable(z, idx, key) # 0)
-----------------------------------------------------------------------------
(* zim_find *)

Begin(w, z, key) ==
    /\ find[w].pc = "idle" /\ finds < MaxFinds
    /\ finds' = finds + 1
    /\ find' = [find EXCEPT ![w] =
                   [pc |-> "probe", z |-> z, key |-> key, lo |-> 0,
                    hi |-> Len(Archive[z]), ok |-> TRUE]]
    /\ UNCHANGED <<table, faults>>

\* Mutant of Narrowed: a half that may not shrink.
NarrowedStuck(f, cmp) ==
    IF cmp < 0 THEN [f EXCEPT !.pc = "probe", !.lo = Mid(f)]
    ELSE [f EXCEPT !.pc = "probe", !.hi = Mid(f)]
Narrowed(f, cmp) ==
    IF cmp < 0 THEN [f EXCEPT !.pc = "probe", !.lo = Mid(f) + 1]
    ELSE [f EXCEPT !.pc = "probe", !.hi = Mid(f)]

Found(f) == [f EXCEPT !.pc = "found"]
NotFound(f, ok) == [f EXCEPT !.pc = "missing", !.ok = ok]

\* The table is asked first; an equal key is confirmed from the card.
Probe(w) ==
    /\ find[w].pc = "probe" /\ find[w].lo < find[w].hi
    /\ LET f == find[w]
           cmp == FromTable(f.z, Mid(f), f.key)
       IN  find' = [find EXCEPT ![w] =
                       IF ~Decisive(f.z, Mid(f), f.key) THEN [f EXCEPT !.pc = "read"]
                       ELSE IF cmp = 0 THEN [f EXCEPT !.pc = "confirm"]
                       ELSE Narrowed(f, cmp)]
    /\ UNCHANGED <<table, finds, faults>>

\* read_dirent_by_index; the other workers use the table meanwhile.
Read(w) ==
    /\ find[w].pc = "read"
    /\ \/ find' = [find EXCEPT ![w].pc = "insert"] /\ UNCHANGED faults
       \/ find' = [find EXCEPT ![w] = NotFound(@, FALSE)] /\ Fault
    /\ UNCHANGED <<table, finds>>

Settled(f) ==
    LET cmp == Compare(KeyAt(f.z, Mid(f)), f.key)
    IN  IF cmp = 0 THEN Found(f) ELSE Narrowed(f, cmp)

\* dk_insert, then the comparison with what was read.
Insert(w) ==
    /\ find[w].pc = "insert"
    /\ LET f == find[w] IN
          table' = [table EXCEPT ![Hash[<<f.z, Mid(f)>>]] = Kept(f.z, Mid(f))]
    /\ find' = [find EXCEPT ![w] = Settled(@)]
    /\ UNCHANGED <<finds, faults>>

\* The card decides again what the table called equal.  (The comment there
\* says "Shouldn't happen": it does, for every short key asked for again.)
Confirm(w) ==
    /\ find[w].pc = "confirm"
    /\ \/ find' = [find EXCEPT ![w] = Settled(@)] /\ UNCHANGED faults
       \/ find' = [find EXCEPT ![w] = NotFound(@, FALSE)] /\ Fault
    /\ UNCHANGED <<table, finds>>

Exhausted(w) ==
    /\ find[w].pc = "probe" /\ find[w].lo >= find[w].hi
    /\ find' = [find EXCEPT ![w] = NotFound(@, TRUE)]
    /\ UNCHANGED <<table, finds, faults>>

\* zim_serve_path goes on with the page, a redirection, or "404".
Return(w) ==
    /\ find[w].pc \in {"found", "missing"}
    /\ find' = [find EXCEPT ![w] = Waiting]
    /\ UNCHANGED <<table, finds, faults>>
-----------------------------------------------------------------------------
Init ==
    /\ table = [h \in {Hash[p] : p \in DOMAIN Hash} |-> Unused]
    /\ find = [w \in Workers |-> Waiting]
    /\ finds = 0 /\ faults = 0

Step(w) == Probe(w) \/ Read(w) \/ Insert(w) \/ Confirm(w) \/ Exhausted(w) \/ Return(w)

Next ==
    \E w \in Workers :
        Step(w) \/ \E z \in Archives, key \in Targets : Begin(w, z, key)

\* The worker runs, and the card answers.
Fairness == \A w \in Workers : WF_vars(Step(w))

Spec == Init /\ [][Next]_vars
FairSpec == Spec /\ Fairness
-----------------------------------------------------------------------------
(* Properties *)

\* A page is found exactly if the archive has it, unless a read failed, and it
\* is the page asked for.
FindsRight ==
    \A w \in Workers :
        LET f == find[w] IN
        /\ f.pc = "found" => KeyAt(f.z, Mid(f)) = f.key
        /\ f.pc = "missing" /\ f.ok => f.key \notin ToSet(Archive[f.z])

\* Every search ends.
FindEnds == \A w \in Workers : find[w].pc # "idle" ~> find[w].pc = "idle"
=============================================================================
