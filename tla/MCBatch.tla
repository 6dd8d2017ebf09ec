------------------------------ MODULE MCBatch ------------------------------
(***************************************************************************)
(* Small tables go two to a pass; a large one has more cells than a pass   *)
(* and goes alone.  Three reads and more are prepared by the pool: chunks  *)
(* of one for three, of two for four and more, five leaving a last of one. *)
(***************************************************************************)
EXTENDS Batch

MCCellsIn == [small |-> 2, large |-> 5]

Plain == [shape |-> "small", levels |-> "mid", fits |-> TRUE, varies |-> TRUE, prepares |-> TRUE]

MCKinds ==
    {Plain, [Plain EXCEPT !.levels = "tails"], [Plain EXCEPT !.shape = "large"],
     [Plain EXCEPT !.varies = FALSE, !.levels = "tails"], [Plain EXCEPT !.prepares = FALSE],
     [Plain EXCEPT !.fits = FALSE]}

=============================================================================
