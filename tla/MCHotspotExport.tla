-------------------------- MODULE MCHotspotExport --------------------------
(* Instances of HotspotExport for TLC.                                       *)
EXTENDS HotspotExport

EightBuckets == <<"accumulator", "controller", "gemmini_other", "load_store_dma",
                  "non_gemmini_context", "pe_array", "scratchpad", "tl_soc_glue">>

Row(names) == [region : names, activity : {2, 3}]

\* Tables of up to three buckets in every order, and what a cut leaves.
Whole == {t \in SeqOf(Row({"accumulator", "pe_array", "tl_soc_glue"}), 3) :
            \A i, j \in DOMAIN t : t[i].region = t[j].region => i = j}
Torn  == {[t EXCEPT ![Len(t)].activity = Missing] : t \in Whole \ {<<>>}}

\* A table of the first n buckets, idle but for the last one.
Wide(n) == [i \in 1..n |-> [region |-> EightBuckets[i], activity |-> IF i = n THEN 10 ELSE 0]]

SmallAndWide == Whole \cup Torn \cup {Wide(n) : n \in 6..8}
=============================================================================
