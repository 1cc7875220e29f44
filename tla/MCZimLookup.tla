---------------------------- MODULE MCZimLookup -----------------------------
(* An instance of ZimLookup for TLC: two archives, keys shorter than, as long
   as and longer than what the table keeps, and a table of two entries, so that
   entries of both archives replace each other. *)
EXTENDS ZimLookup

Books == [wiki |-> << <<1, 1>>, <<1, 1, 1>>, <<1, 1, 2, 1>>, <<1, 1, 2, 2>>, <<2, 1>> >>,
          med  |-> << <<1, 1>>, <<1, 2, 1>>, <<1, 3>> >>]
SmallTable == [p \in {"wiki", "med"} \X (0..4) |-> p[2] % 2]
Asked == {<<1, 1>>, <<1, 1, 2>>, <<1, 1, 2, 1>>, <<1, 1, 2, 2>>, <<1, 3>>, <<2, 1>>, <<1>>}
=============================================================================
