--------------------------- MODULE MCCompareReport ---------------------------
(***************************************************************************)
(* Model of CompareReport for TLC: summaries whose heaps and RSS go up,    *)
(* down and stay equal between the runs, one with no data volume.          *)
(***************************************************************************)
EXTENDS CompareReport

MCSummary(h, a, r, mb) ==
    [max_heap_alloc |-> h, avg_heap_alloc |-> a, max_rss |-> r,
     message_bytes |-> mb]

MCStats == {MCSummary(2, 1, 3, 1), MCSummary(1, 1, 2, 2), MCSummary(0, 0, 0, 0)}

MCExtMax == {0, 2}

=============================================================================
