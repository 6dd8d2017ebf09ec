---------------------------- MODULE Calibration ----------------------------
(***************************************************************************)
(* A voice read through its record (calibration.py): where an actual fell  *)
(* in a grid of quantiles (its PIT), and at which level a record of past   *)
(* PITs has a share alpha be read.                                         *)
(*                                                                         *)
(* Shares and levels are fractions [num, den]; an alpha is a number of     *)
(* Denths.  The sliver every bin gets is one Sliver'th of a count, the     *)
(* code's 1e-9.                                                            *)
(***************************************************************************)
EXTENDS Integers, SequencesExt

CONSTANTS BINS, DEFAULT_WEIGHT, MIN_HISTORY, Sliver, Dens

ASSUME CalibrationAssumption ==
    /\ {BINS, DEFAULT_WEIGHT, MIN_HISTORY, Sliver, Dens} \subseteq Nat \ {0}
    /\ DEFAULT_WEIGHT >= MIN_HISTORY

SumOf(s) == FoldSeq(+, 0, s)

Less(x, y)    == x.num * y.den < y.num * x.den
AtMost(x, y)  == x.num * y.den <= y.num * x.den
Same(x, y)    == x.num * y.den = y.num * x.den

-----------------------------------------------------------------------------
(* A record: the caller's counts and the default's, weighed. *)

Blank == [b \in 1 .. BINS |-> 0]

\* What one observation counts for here, so that counts stay whole.
Unit(default) == IF SumOf(default) > 0 THEN SumOf(default) ELSE 1

Weighed(history, default) ==
    [b \in 1 .. BINS |-> history[b] * Unit(default) + default[b] * DEFAULT_WEIGHT]

TooLittle(history, default) ==
    SumOf(Weighed(history, default)) < MIN_HISTORY * Unit(default)

counts(history, default) ==
    [b \in 1 .. BINS |-> Weighed(history, default)[b] * Sliver + Unit(default)]

\* The counts of the first n bins.
cumsum(record, n) == SumOf(SubSeq(record, 1, n))

-----------------------------------------------------------------------------
(* `levels`: the record's quantile function at alpha. *)

\* The bin in which a share alpha of the record is reached.
BinOf(record, a) ==
    CHOOSE b \in 1 .. BINS :
        /\ cumsum(record, b - 1) * Dens <= a * SumOf(record)
        /\ a * SumOf(record) < cumsum(record, b) * Dens

InterpFromTop(record, a) ==  \* faulty: what is left of the bin, not what is used
    LET b == BinOf(record, a)
    IN  [num |-> (b - 1) * Dens * record[b] + (cumsum(record, b) * Dens - a * SumOf(record)),
         den |-> BINS * Dens * record[b]]

Interp(record, a) ==
    LET b == BinOf(record, a)
    IN  [num |-> (b - 1) * Dens * record[b] + (a * SumOf(record) - cumsum(record, b - 1) * Dens),
         den |-> BINS * Dens * record[b]]

levels(a, history, default) ==
    IF TooLittle(history, default) THEN [num |-> a, den |-> Dens]
    ELSE Interp(counts(history, default), a)

-----------------------------------------------------------------------------
(* A row of quantiles at rising levels, re-read. *)

Level(a) == [num |-> a, den |-> Dens]

Between(low, level, high) == IF Less(level, low) THEN low ELSE IF Less(high, level) THEN high ELSE level

\* np.interp: the row's own quantile at one of its levels, the same term
\* wherever else, and no further than its ends.
interp(level, at, row) ==
    LET within == Between(Level(at[1]), level, Level(at[Len(at)]))
        own    == {k \in DOMAIN at : Same(within, Level(at[k]))}
    IN  IF own # {} THEN row[CHOOSE k \in own : TRUE] ELSE [row |-> row, at |-> within]

re_read(as, at, row, history, default) ==
    [k \in DOMAIN as |-> interp(levels(as[k], history, default), at, row)]

\* `recalibrate`: as it is, where the record reads every level as itself.
recalibrate(row, at, history, default) ==
    IF \A k \in DOMAIN at : Same(levels(at[k], history, default), Level(at[k])) THEN row
    ELSE re_read(at, at, row, history, default)

-----------------------------------------------------------------------------
(* `pit`: a tie is placed by a draw, `draw` Denths of the way through it. *)

Under(grid, actual) == {k \in DOMAIN grid : grid[k] < actual}
Tied(grid, actual)  == {k \in DOMAIN grid : grid[k] = actual}

pit(grid, actual, draw) ==
    [num |-> Cardinality(Under(grid, actual)) * Dens + Cardinality(Tied(grid, actual)) * draw,
     den |-> (Len(grid) + 1) * Dens]

\* Its bin in the record.
histogramBin(p) == (p.num * BINS) \div p.den + 1

-----------------------------------------------------------------------------
(* What is asked of them. *)

\* The share of a record at or under a level, its PITs even within a bin.
ShareUnder(record, level) ==
    LET full == (level.num * BINS) \div level.den
        rest == level.num * BINS - full * level.den
    IN  [num |-> cumsum(record, full) * level.den + (IF rest = 0 THEN 0 ELSE rest * record[full + 1]),
         den |-> SumOf(record) * level.den]

\* A record, or with too little of one the alpha itself, is read at the level
\* under which a share alpha of its PITs fell; and more is asked at higher
\* levels, so a band's ends do not cross.
LevelsAreTheRecords(history, default) ==
    LET at(a) == levels(a, history, default)
        record == counts(history, default)
    IN  /\ \A a \in 1 .. Dens - 1 :
              ~TooLittle(history, default) =>
                  LET s == ShareUnder(record, at(a)) IN s.num * Dens = a * s.den
        /\ \A a, b \in 1 .. Dens - 1 : a < b => Less(at(a), at(b))
        /\ \A a \in 1 .. Dens - 1 : at(a).num \in 1 .. at(a).den - 1
        /\ default # Blank => ~TooLittle(history, default)

\* A grid is re-read level by level off the grid itself, also where it is
\* given back as it came.
RecalibratesEveryLevel(history, default) ==
    LET at  == [k \in 1 .. Dens - 1 |-> k]
        row == [k \in DOMAIN at |-> [at |-> Level(at[k])]]
        got == recalibrate(row, at, history, default)
        reach(k) == Between(Level(1), levels(k, history, default), Level(Dens - 1))
    IN  \A k \in DOMAIN at : Same(got[k].at, reach(k))

\* Larger actuals have PITs as large or larger, wherever a draw places them
\* in a tie, and every PIT has a bin in the record.
PitsFollowActuals(grid, actuals) ==
    /\ \A a, b \in actuals, d, e \in 0 .. Dens - 1 :
          a < b => AtMost(pit(grid, a, d), pit(grid, b, e))
    /\ \A a \in actuals, d \in 0 .. Dens - 1 : histogramBin(pit(grid, a, d)) \in 1 .. BINS

=============================================================================
