------------------------------ MODULE Recipes ------------------------------
(***************************************************************************)
(* What the tabular voices' feature rows read of a series (recipe and      *)
(* seasonal_recipe of harness/voices.py), of n months counted from 0, to   *)
(* call the month h past it: for every month i, and for the one to call,   *)
(* which months each feature is made of.  The row's index and month of     *)
(* year are i's own; the values, and the fill of what is absent, are left  *)
(* out.                                                                    *)
(***************************************************************************)
EXTENDS Integers, FiniteSets

CONSTANT YEAR      \* 12

ASSUME RecipesAssumption == YEAR \in Nat \ {0}

\* The months that have a row: those with a label, and the one to call.
Rows(n, h) == h .. n + h - 1

\* v[max(0, from) : to]
Window(from, to) == {m \in 0 .. to - 1 : from <= m}

\* Months 0 .. i-h were known when month i was called.
Known(i, h) == i - h + 1

recipeYearBack(n, h) ==  \* faulty: a year back, known or not
    [i \in Rows(n, h) |->
        [last |-> {Known(i, h) - 1}, recent |-> Window(Known(i, h) - 3, Known(i, h)),
         year |-> IF YEAR <= i THEN {i - YEAR} ELSE {}]]

recipe(n, h) ==
    [i \in Rows(n, h) |->
        [last |-> {Known(i, h) - 1}, recent |-> Window(Known(i, h) - 3, Known(i, h)),
         year |-> IF h <= YEAR /\ YEAR <= i THEN {i - YEAR} ELSE {}]]

\* The same month, the last time it was known.
back(h) == YEAR * ((h + YEAR - 1) \div YEAR)

seasonal_recipe(n, h) ==
    [i \in Rows(n, h) |->
        [last |-> {Known(i, h) - 1},
         same |-> IF i >= back(h) THEN {i - back(h)} ELSE {},
         same_before |-> IF i >= back(h) + YEAR THEN {i - back(h) - YEAR} ELSE {},
         year |-> Window(Known(i, h) - YEAR, Known(i, h)),
         before |-> Window(Known(i, h) - 2 * YEAR, Known(i, h) - YEAR)]]

-----------------------------------------------------------------------------
(* What is asked of them. *)

\* "Nothing in a row is later than h months before its label", in training
\* and at the month to call alike, so that a fit never sees what it calls.
RowsLookBack(n, h) ==
    \A i \in Rows(n, h) :
        /\ LET row == recipe(n, h)[i] IN row.last \union row.recent \union row.year \subseteq 0 .. i - h
        /\ LET row == seasonal_recipe(n, h)[i]
           IN  row.last \union row.same \union row.same_before \union row.year \union row.before \subseteq 0 .. i - h

\* "The 12-month lag stays while it is still known", and further out "the
\* same month, the last time it was known", and a year before it: of the
\* label's own season and no older than need be.
LagsAreTheLastKnown(n, h) ==
    \A i \in Rows(n, h) :
        LET seasons == {m \in 0 .. i - h : (i - m) % YEAR = 0}
            got == seasonal_recipe(n, h)[i]
        IN  /\ recipe(n, h)[i].year = seasons \intersect {i - YEAR}
            /\ got.same = {m \in seasons : \A l \in seasons : l <= m}
            /\ got.same_before = {m \in seasons : Cardinality({l \in seasons : l > m}) = 1}

=============================================================================
