----------------------------- MODULE MCZimCache -----------------------------
(* Instances of ZimCache for TLC: two small clusters, one of the greatest size
   the cache takes, one beyond it. *)
EXTENDS ZimCache

Sizes == [k \in Clusters |->
             CASE k = "a" -> 1 [] k = "b" -> 1 [] k = "m" -> 5 [] k = "xl" -> 6]
=============================================================================
