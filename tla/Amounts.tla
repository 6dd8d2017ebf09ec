------------------------------ MODULE Amounts ------------------------------
(***************************************************************************)
(* How much a finite set of things holds, when each holds so many units:   *)
(* the number of its units, each unit a pair of the thing and an index.    *)
(* (A sum that needs no recursion, so that facts about it can be proved.)  *)
(***************************************************************************)
EXTENDS Integers, FiniteSets

Units(S, size) == UNION {{e} \X (1 .. size[e]) : e \in S}

Amount(S, size) == Cardinality(Units(S, size))

=============================================================================
