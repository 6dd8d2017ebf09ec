------------------------------ MODULE Sorting -------------------------------
(* What numpy's sort makes of a row. *)
EXTENDS Integers, Sequences, FiniteSets

\* By what is before what; those that are neither stay as they stood.
InOrder(s, Before(_, _)) ==
    LET Place(k) == 1 + Cardinality({j \in DOMAIN s :
                            Before(s[j], s[k]) \/ (~Before(s[k], s[j]) /\ j < k)})
    IN  [l \in DOMAIN s |-> s[CHOOSE k \in DOMAIN s : Place(k) = l]]

=============================================================================
