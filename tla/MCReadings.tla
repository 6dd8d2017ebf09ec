----------------------------- MODULE MCReadings -----------------------------
(* Instances of Readings. *)
EXTENDS Readings

Counts(a, b, c) == [k \in 1 .. BINS |-> CASE k = 1 -> a [] k = 2 -> b [] OTHER -> c]

\* A record that is too little, one that reads lower, and one of a wrong length.
MCPasts == {Blank, Counts(0, 1, 5), [k \in 1 .. BINS - 1 |-> 1]}

MCShipped ==
    [name \in {"tabicl", "chronos2"} |->
        [of \in {"months", "totals"} |->
            IF name = "tabicl" THEN (IF of = "months" THEN Counts(2, 1, 0) ELSE Counts(3, 0, 1))
            ELSE IF of = "months" THEN Counts(0, 4, 0) ELSE Counts(1, 1, 2)]]

MCVoicesAsked ==
    {None, <<"tabicl">>, <<"seasonal_naive">>, <<"tabicl", "tabicl">>, <<"seasonal_naive", "tabicl">>, <<"tabicl", "chronos2", "seasonal_naive">>}

MCAlphasAsked == {<<2>>, <<1, 2, 3>>, <<3, 1>>}

=============================================================================
