---------------------------- MODULE MCZstdStream ----------------------------
(* Small frames for ZstdStream: up to four blocks, raw, compressed or RLE. *)
EXTENDS ZstdStream

MCBlocks == {
    [raw |-> TRUE, c |-> 0, r |-> 0], [raw |-> TRUE, c |-> 2, r |-> 2],
    [raw |-> FALSE, c |-> 1, r |-> 2], [raw |-> FALSE, c |-> 2, r |-> 1]}

\* The blocks one after the other in a frame.
Laid(s) ==
    [i \in DOMAIN s |->
        [raw |-> s[i].raw, c |-> s[i].c, r |-> s[i].r,
         from |-> HeaderSize + MapThenSumSet(LAMBDA j : BlockHeader + s[j].c, 1..i - 1),
         at |-> MapThenSumSet(LAMBDA j : s[j].r, 1..i - 1)]]

MCFrames == [blocks : {Laid(s) : s \in UNION {[1..n -> MCBlocks] : n \in 1..4}},
             checksum : BOOLEAN, sized : BOOLEAN, more : {-1, 0, 1}]

MCBlobs == {[known |-> 1, upto |-> 2], [known |-> 2, upto |-> 5], [known |-> 2, upto |-> 9]}
=============================================================================
