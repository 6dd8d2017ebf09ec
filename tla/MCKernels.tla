----------------------------- MODULE MCKernels -----------------------------
(***************************************************************************)
(* Tables `t` and `u` have one shape and ride one pass; the columns of `u` *)
(* do not vary, which an ensemble refuses; `short` has too few rows.       *)
(* For an ensemble of two, `t` is expected to take just a share of the     *)
(* cache, and may be built a unit larger; `big` is refused.                *)
(***************************************************************************)
EXTENDS Kernels

MCTables == {"t", "u", "big", "short"}

MCTableOf == [t     |-> [rows |-> 2, cols |-> 2, sound |-> TRUE,  varies |-> TRUE],
              u     |-> [rows |-> 2, cols |-> 2, sound |-> TRUE,  varies |-> FALSE],
              big   |-> [rows |-> 3, cols |-> 2, sound |-> TRUE,  varies |-> TRUE],
              short |-> [rows |-> 1, cols |-> 2, sound |-> FALSE, varies |-> FALSE]]

Bands(c, rows) == [caller |-> c, rows |-> rows, context |-> None, cache |-> FALSE,
                   cols |-> 2, levels |-> "mid", voices |-> {}, long |-> TRUE]

Kept(c, rows)   == [Bands(c, rows) EXCEPT !.cache = TRUE]
Named(c, t, m)  == [Bands(c, None) EXCEPT !.context = <<t, m>>]
Both            == {"seasonal_naive", "chronos2"}

MCRequests ==
    {Bands("a", "t"), [Bands("b", "u") EXCEPT !.voices = Both, !.levels = "tails"],
     [Kept("a", "t") EXCEPT !.voices = {"chronos2"}], Kept("a", "big"),
     Kept("b", "short"), Kept("b", "t"), [Kept("c", "t") EXCEPT !.voices = Both, !.long = FALSE],
     [Named("a", "t", 1) EXCEPT !.voices = Both], [Named("c", "t", 2) EXCEPT !.cols = 3]}

\* Nothing kept and no voice: the batch is all of the cycle.
MCPlainRequests == {Bands("a", "t"), Bands("b", "t")}

=============================================================================
