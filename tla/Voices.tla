------------------------------- MODULE Voices -------------------------------
(***************************************************************************)
(* The voice that needs no model, and the blend (voices.py).  Of a series  *)
(* it only matters here which months are known; a value a voice adds to    *)
(* another is where in the series it stands.                               *)
(***************************************************************************)
EXTENDS Integers, SequencesExt, Sorting

CONSTANT MinHistory     \* MIN_HISTORY, months a series voice needs behind it

ASSUME VoicesAssumption == MinHistory \in Nat \ {0}

VoiceError == [base |-> 0, lag |-> 0, moves |-> {}]

\* A series from its first value on; one with none is empty.
known(history) ==
    LET present == {m \in DOMAIN history : history[m]}
    IN  IF present = {} THEN <<>>
        ELSE SubSeq(history, CHOOSE m \in present : \A l \in present : m <= l, Len(history))

\* Python's v[i], as a place counted from 1: from the end where i is negative.
Place(v, i) == IF i < 0 THEN Len(v) + i + 1 ELSE i + 1

\* A season, while it is known for the month asked; else as far as that month.
Lag(v, h, season) ==
    IF Len(v) > season + MinHistory - 1 /\ h <= season THEN season ELSE h

Base(v, h, lag) == Place(v, h - 1 - lag)

\* The pairs of known months a lag apart, by the earlier.
Moves(v, lag) == {m \in 1 .. Len(v) - lag : v[m] /\ v[m + lag]}

\* For the month h past the history: which month it starts from, and the
\* moves whose quantiles it adds.
seasonal_naive(history, h, season) ==
    LET v    == known(history)
        lag  == Lag(v, h, season)
        base == Base(v, h, lag)
    IN  IF Len(v) <= lag + MinHistory - 1 THEN VoiceError
        ELSE IF ~v[base] THEN VoiceError
        ELSE [base |-> base, lag |-> lag, moves |-> Moves(v, lag)]

\* Several voices as one: the sum (the mean, times their number) of their
\* quantiles, level by level.
blend(answers) ==
    LET sorted == [k \in DOMAIN answers |-> InOrder(answers[k], <)]
    IN  [l \in DOMAIN answers[1] |-> FoldSeq(+, 0, [k \in DOMAIN answers |-> sorted[k][l]])]

-----------------------------------------------------------------------------
(* What is asked of them. *)

\* What is answered starts from a known month of the history that lies as
\* far before the month asked as the moves added to it are long: a season,
\* where the history has one and the month is within it, else from the last.
NaiveLooksBack(history, h, season) ==
    LET v   == known(history)
        got == seasonal_naive(history, h, season)
    IN  got # VoiceError =>
          /\ got.base \in 1 .. Len(v) /\ v[got.base]
          /\ got.base + got.lag = Len(v) + h
          /\ got.lag # season => got.base = Len(v)
          /\ Len(v) - got.lag >= MinHistory

\* What voices.py says of VoiceError, "a series a voice will not call": a
\* series it cannot band is refused.  (One with no two known months a lag
\* apart is not; the quantile of its moves, of which there are none, raises.)
NaiveSpeaksOrRefuses(history, h, season) ==
    LET got == seasonal_naive(history, h, season)
    IN  got # VoiceError => got.moves # {}

\* A blend is a band, its levels in order, and at every level lies among the
\* values its voices have there.
BlendIsABand(answers) ==
    LET b == blend(answers)
        n == Len(answers)
        at(k, l) == InOrder(answers[k], <)[l]
    IN  /\ \A l, m \in DOMAIN b : l < m => b[l] <= b[m]
        /\ \A l \in DOMAIN b : \E j, k \in 1 .. n : n * at(j, l) <= b[l] /\ b[l] <= n * at(k, l)

=============================================================================
