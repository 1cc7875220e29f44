---------------------------- MODULE MCSmallParts -----------------------------
(* Values for SmallParts: short files, packets of some bytes, two archives. *)
EXTENDS SmallParts, TLC

\* Questions, whole and cut: names of no, one and two labels, a label longer than the
\* packet; types A, ANY and AAAA.
MCNames == {<<0>>, <<1, 1, 0>>, <<1, 0>>, <<255>>}
MCTypes == {<<0, 1>>, <<0, 255>>, <<0, 28>>}
MCQuestions == {<<7, 7>> \o n \o t \o <<0, 1>> : n \in MCNames, t \in MCTypes}
MCPackets == UNION {{SubSeq(q, 1, n) : n \in 0..Len(q)} : q \in MCQuestions}
    \cup {<<7, 7, 1, 1, 1, 1, 0, 0, 1, 0, 1, 1>>}

MCAir == [temp : {0, 20}, hum : {50, 90}]

Page(t) == [title |-> t, ns |-> "C"]
Other(t) == [title |-> t, ns |-> "M"]

\* Lists in the order of strcmp, with pages and other entries, and one whose other
\* entries follow the pages.  Letters 1 and 2 are the capitals of 3 and 4.
MCLibraries == {
    <<<<Page(<<1>>), Page(<<1, 3>>), Other(<<1, 3, 4>>), Page(<<1, 4>>), Page(<<2>>), Page(<<4, 3>>)>>,
      <<Page(<<1, 3>>), Other(<<3>>), Page(<<3, 3>>), Page(<<3, 4>>)>>>>,
    <<<<Page(<<1>>), Page(<<2, 3>>), Page(<<2, 4>>), Other(<<1>>)>>>>}
MCWanted == <<"C", "C">>
MCCapital == 3 :> 1 @@ 4 :> 2
MCQueries == UNION {[1..n -> 1..4] : n \in 0..3}
=============================================================================
