----------------------------- MODULE MCHarness -----------------------------
(* Instances of Harness: two panels of two series, nine voices. *)
EXTENDS Harness

Grows(n, first, gaps) == [m \in 1 .. n |-> IF m < first \/ m \in gaps THEN Absent ELSE m]

\* One series whole; the other new, or with months nobody reported.
MCTables ==
    {[s \in 1 .. 2 |-> IF s = 1 THEN Grows(12, 1, {}) ELSE Grows(12, 6, {})],
     [s \in 1 .. 2 |-> IF s = 1 THEN Grows(12, 1, {}) ELSE Grows(12, 2, {5, 9})]}

Walked(months, burn) == [kind |-> "walk", origins |-> months, horizon |-> 1, burn |-> burn]
Projected(origins, horizon, burn) == [kind |-> "project", origins |-> origins, horizon |-> horizon, burn |-> burn]

\* Every origin is past the months a panel is known by.
MCWalks == {Walked(3, 4), Walked(2, 0), Projected(2, 2, 2), Projected(1, 3, 3), Projected(1, 4, 1), Projected(2, 1, 2)}

\* And some before, as where a panel's history is short for what is burnt.
EarlyWalks == {Projected(2, 2, 4)}

Voice(kind, inner, shipped, record) == [kind |-> kind, inner |-> inner, shipped |-> shipped, record |-> record]

MCMade ==
    [v \in {"naive", "walk", "pooled", "chronos", "cal:naive", "dcal:walk", "dcal:naive", "blend", "cal:blend"} |->
        CASE v = "naive"      -> Voice("SeasonalNaive", <<>>, FALSE, "seasonal_naive")
          [] v = "walk"       -> Voice("Walk", <<>>, FALSE, "tabicl")
          [] v = "pooled"     -> Voice("Pooled", <<>>, FALSE, None)
          [] v = "chronos"    -> Voice("Chronos", <<>>, FALSE, "chronos2")
          [] v = "cal:naive"  -> Voice("Calibrated", <<"naive">>, FALSE, None)
          [] v = "dcal:walk"  -> Voice("Calibrated", <<"walk">>, TRUE, None)
          [] v = "dcal:naive" -> Voice("Calibrated", <<"naive">>, TRUE, None)
          [] v = "blend"      -> Voice("Blend", <<"chronos", "cal:naive", "naive">>, FALSE, None)
          [] v = "cal:blend"  -> Voice("Calibrated", <<"blend">>, FALSE, None)]

MCListed == <<"dcal:walk", "walk", "blend", "cal:blend", "dcal:naive", "pooled">>

=============================================================================
