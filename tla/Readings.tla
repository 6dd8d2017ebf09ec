------------------------------ MODULE Readings ------------------------------
(***************************************************************************)
(* The pure parts of a read, asked over every small input: the levels and  *)
(* PITs of a record, the voice that needs no model, the harness's recipes  *)
(* and the blend, what a bands body is answered with, and the plan of a    *)
(* misfit read.                                                            *)
(***************************************************************************)
EXTENDS Served, Voices, Recipes, Misfit

CONSTANTS
    CountsUpTo,      \* in a bin of a record
    GridUpTo,        \* quantiles of a grid, in any order, and their values
    MonthsUpTo,      \* of a series
    Seasons, Horizons,
    VoicesUpTo,      \* in a blend
    ColumnsUpTo, RowsUpTo, FoldsUpTo,
    VoicesAsked, Pasts, AlphasAsked, Windows  \* of a bands body

ASSUME ReadingsAssumption ==
    /\ Seasons \union Horizons \subseteq Nat \ {0}
    /\ \A v \in VoicesAsked \ {None} : v \in Seq(STRING)
    /\ \A c \in Pasts : c \in Seq(Nat)
    /\ \A a \in AlphasAsked : a \in Seq(1 .. Dens - 1)
    /\ {CountsUpTo, GridUpTo, MonthsUpTo, VoicesUpTo, ColumnsUpTo, RowsUpTo, FoldsUpTo} \subseteq Nat

VARIABLE asked       \* the input of the last read

Histograms == [1 .. BINS -> 0 .. CountsUpTo]
Lists(len, values) == UNION {[1 .. n -> values] : n \in 1 .. len}
Values == 0 .. GridUpTo

Init == asked = [of |-> "nothing"]

AskLevels ==
    \E h, d \in Histograms : asked' = [of |-> "levels", history |-> h, default |-> d]

AskPit ==
    \E g \in Lists(GridUpTo, Values) : asked' = [of |-> "pit", grid |-> g]

AskNaive ==
    \E v \in Lists(MonthsUpTo, BOOLEAN), h \in Horizons, s \in Seasons :
        asked' = [of |-> "seasonal_naive", history |-> v, horizon |-> h, season |-> s]

AskBlend ==
    \E a \in Lists(VoicesUpTo, [1 .. GridUpTo -> Values]) : asked' = [of |-> "blend", answers |-> a]

AskRecipe ==
    \E n \in 1 .. MonthsUpTo, h \in Horizons : asked' = [of |-> "recipe", months |-> n, horizon |-> h]

\* One history, or one for any of the voices and the blend.
PitHistories ==
    {None} \union {[by |-> "itself", counts |-> [name \in {"tabicl"} |-> c]] : c \in Pasts}
    \union UNION {{[by |-> "voice", counts |-> c] : c \in [names -> Pasts]} : names \in SUBSET (VOICES \union {"blend"})}

ReadBodies ==
    [rows : {2}, context : BOOLEAN, train : BOOLEAN, history : BOOLEAN,
     horizon : {None, <<1, 2>>, <<0, 1>>}, actual : {None, <<TRUE, FALSE>>, <<TRUE>>}]

AskServed ==
    \E v \in VoicesAsked, p \in PitHistories, a \in AlphasAsked, w \in Windows, r \in ReadBodies :
        asked' = [of |-> "bands", body |-> [voices |-> v, pit_history |-> p, alphas |-> a, window |-> w, read |-> r]]

AskMisfit ==
    \E c \in 2 .. ColumnsUpTo : \E fit \in SUBSET (1 .. c) : asked' = [of |-> "misfit", cols |-> c, fit |-> fit]

\* The rows in any order; which one it is, is the generator's.
AskFolds ==
    \E n \in 2 .. RowsUpTo : \E order \in Injection(1 .. n, 1 .. n), f \in 2 .. FoldsUpTo :
        asked' = [of |-> "folds", order |-> order, folds |-> f]

Next ==
    \/ asked.of = "nothing" /\ (AskLevels \/ AskPit \/ AskNaive \/ AskRecipe \/ AskBlend \/ AskServed \/ AskMisfit \/ AskFolds)
    \/ asked.of # "nothing" /\ asked' = [of |-> "nothing"]

ReadingsSpec == Init /\ [][Next]_asked

-----------------------------------------------------------------------------
(* Properties; what each asks is said where it is defined. *)

\* The levels and PITs of calibration.py, with ties, and a grid re-read.
RecordsAreReadRight ==
    /\ asked.of = "levels" => /\ LevelsAreTheRecords(asked.history, asked.default)
                              /\ RecalibratesEveryLevel(asked.history, asked.default)
    /\ asked.of = "pit" => PitsFollowActuals(asked.grid, -1 .. GridUpTo + 1)

\* The lags and places of voices.py's seasonal_naive, and the months the
\* harness's recipes make a row of.
NothingLooksAhead ==
    /\ asked.of = "seasonal_naive" => NaiveLooksBack(asked.history, asked.horizon, asked.season)
    /\ asked.of = "recipe" => /\ RowsLookBack(asked.months, asked.horizon)
                              /\ LagsAreTheLastKnown(asked.months, asked.horizon)

\* What voices.py says a voice does with a series it cannot band on.
NaiveNeverRaises ==
    asked.of = "seasonal_naive" => NaiveSpeaksOrRefuses(asked.history, asked.horizon, asked.season)

\* The blend of voices.py, and app.py's bands of one voice or several, read
\* through their records or not.
AnswersAreAsRead ==
    /\ asked.of = "blend" => BlendIsABand(asked.answers)
    /\ asked.of = "bands" => ServedAsAsked(asked.body)

\* The conditionals and the shares of kernels.py's misfit.
MisfitCoversTheChain ==
    asked.of = "misfit" =>
        ConditionsOnceOnEach(asked.cols, asked.fit) /\ SharesAreTheScore(asked.cols, asked.fit)

\* The folds of kernels.py's misfit.
NoRowScoresItself == asked.of = "folds" => FoldsHoldOut(asked.order, asked.folds)

=============================================================================
