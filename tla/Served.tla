------------------------------- MODULE Served -------------------------------
(***************************************************************************)
(* What /v1/bands accepts and what it makes of the kernel's quantiles      *)
(* (app.py's Bands): which levels are asked for, which are whose, and what *)
(* is read through a record.                                               *)
(*                                                                         *)
(* A level is a fraction, an alpha a number of Denths.  A quantile is a    *)
(* term: a voice's answer at a level, a row of percentiles read at one, or *)
(* a mean of such; a voice's quantiles rise with their level.  What an     *)
(* answer may lack, `raw` and `pit`, is a sequence of one or none.  A body *)
(* has one read here, each being answered by itself.                       *)
(***************************************************************************)
EXTENDS Calibration, Sorting

CONSTANTS
    SERIES_VOICES,
    Shipped,      \* voice -> its records of "months" and of "totals"
    Clip,         \* one Clip'th from either end a level is asked for at most (1000)
    HorizonUpTo,  \* 120
    None, Refusal

ASSUME ServedAssumption ==
    /\ \A name \in DOMAIN Shipped : Shipped[name] \in [{"months", "totals"} -> [1 .. BINS -> Nat]]
    /\ Clip \in Nat \ {0, 1} /\ HorizonUpTo \in Nat \ {0} /\ Dens > 1
    /\ "blend" \notin SERIES_VOICES

VOICES == {"tabicl"} \union SERIES_VOICES

GRID == [k \in 1 .. Dens - 1 |-> k]

\* The months' where each value is one period, the totals' where it sums several.
default_record(voice, window) ==
    IF voice \notin DOMAIN Shipped THEN Blank
    ELSE Shipped[voice][IF window <= 1 THEN "months" ELSE "totals"]

-----------------------------------------------------------------------------
(* `parse`. *)

Several(asked) == asked # None /\ Len(asked) > 1

VoicesOf(asked) == IF asked = None THEN {"tabicl"} ELSE ToSet(asked)

VoicesAccepted(asked) ==
    asked # None => "tabicl" \in ToSet(asked) /\ IsInjective(asked) /\ ToSet(asked) \subseteq VOICES

Horizon(asked, read) ==
    IF Several(asked) /\ read.horizon = None THEN [r \in 1 .. read.rows |-> 1] ELSE read.horizon

\* The rows or the id of a context; and to a series voice, the series.
ReadAccepted(asked, read) ==
    /\ read.context # read.train
    /\ \A name \in {"actual", "horizon"} : read[name] # None => Len(read[name]) = read.rows
    /\ Several(asked) => read.history /\ \A r \in 1 .. read.rows : Horizon(asked, read)[r] \in 1 .. HorizonUpTo

HistoriesAccepted(value, asked) ==
    value # None =>
        /\ value.by = IF Several(asked) THEN "voice" ELSE "itself"
        /\ Several(asked) => DOMAIN value.counts \subseteq VoicesOf(asked) \union {"blend"}
        /\ \A v \in DOMAIN value.counts : DOMAIN value.counts[v] = 1 .. BINS

parse(body) ==
    IF ~(/\ VoicesAccepted(body.voices) /\ ReadAccepted(body.voices, body.read)
         /\ HistoriesAccepted(body.pit_history, body.voices))
    THEN Refusal
    ELSE [voices |-> body.voices, alphas |-> body.alphas, window |-> body.window,
          read |-> [body.read EXCEPT !.horizon = Horizon(body.voices, body.read)],
          histories |-> IF body.pit_history = None THEN <<>> ELSE body.pit_history.counts,
          recorded |-> body.pit_history # None]

-----------------------------------------------------------------------------
(* `serve`. *)

Clipped(level) == Between([num |-> 1, den |-> Clip], level, [num |-> Clip - 1, den |-> Clip])

Levels(req) ==
    LET alphas == [k \in DOMAIN req.alphas |-> Level(req.alphas[k])]
    IN  IF Several(req.voices) THEN alphas \o [k \in DOMAIN GRID |-> Level(GRID[k])]
        ELSE IF req.recorded
        THEN alphas \o [k \in DOMAIN alphas |->
                Clipped(levels(req.alphas[k], req.histories["tabicl"], default_record("tabicl", req.window)))]
        ELSE alphas

\* What the kernel answers, in the order asked.
Spoken(name, at) == [k \in DOMAIN at |-> [by |-> name, at |-> at[k]]]

Earlier(p, q) == Less(p.at, q.at)

Sorted(row) == InOrder(row, Earlier)

through(req, name, as, grid) ==
    re_read(as, GRID, grid, req.histories[name], default_record(name, req.window))

pits(req, grid) ==
    IF req.read.actual = None THEN <<>>
    ELSE <<[rows |-> {r \in 1 .. req.read.rows : req.read.actual[r]}, grid |-> grid]>>

throughEvenForThePit(req, name, bands, grid) ==  \* faulty: the PIT is of what was read
    IF name \in DOMAIN req.histories
    THEN LET as_read == through(req, name, GRID, grid)
         IN  [quantiles |-> through(req, name, req.alphas, grid), raw |-> <<bands>>, as_read |-> as_read, pit |-> pits(req, as_read)]
    ELSE [quantiles |-> bands, raw |-> <<>>, as_read |-> grid, pit |-> pits(req, grid)]

through_its_record(req, name, bands, grid) ==
    IF name \in DOMAIN req.histories
    THEN [quantiles |-> through(req, name, req.alphas, grid), raw |-> <<bands>>,
          as_read |-> through(req, name, GRID, grid), pit |-> pits(req, grid)]
    ELSE [quantiles |-> bands, raw |-> <<>>, as_read |-> grid, pit |-> pits(req, grid)]

\* voices.py's blend, of rows that rise.
Mean(rows) == [l \in DOMAIN rows[1] |-> [mean |-> [k \in DOMAIN rows |-> Sorted(rows[k])[l]]]]

\* A row's bands at the alphas, and what was asked beside them.
Bands(req, row)  == SubSeq(row, 1, Len(req.alphas))
Beside(req, row) == Sorted(SubSeq(row, Len(req.alphas) + 1, Len(row)))

ofOne(req, row) ==
    [name \in {"tabicl"} |->
        [quantiles |-> IF req.recorded THEN Beside(req, row) ELSE Bands(req, row),
         raw |-> IF req.recorded THEN <<Bands(req, row)>> ELSE <<>>,
         pit |-> pits(req, Spoken("tabicl", [k \in DOMAIN GRID |-> Level(GRID[k])]))]]

\* The bands and the percentiles are blended apart.
ofSeveral(req, spoke) ==
    LET blend == through_its_record(req, "blend",
                     Mean([k \in DOMAIN req.voices |-> spoke[req.voices[k]].quantiles]),
                     Mean([k \in DOMAIN req.voices |-> spoke[req.voices[k]].as_read]))
    IN  [name \in DOMAIN spoke \union {"blend"} |-> IF name \in DOMAIN spoke THEN spoke[name] ELSE blend]

answered(req, rows) ==
    IF Several(req.voices)
    THEN ofSeveral(req, [name \in DOMAIN rows |->
                            through_its_record(req, name, Bands(req, rows[name]), Beside(req, rows[name]))])
    ELSE ofOne(req, rows["tabicl"])

serve(req) == answered(req, [name \in VoicesOf(req.voices) |-> Spoken(name, Levels(req))])

-----------------------------------------------------------------------------
(* What is asked of them. *)

Rises(alphas) == \A j, k \in DOMAIN alphas : j < k => alphas[j] <= alphas[k]

RawOf(answer) == IF answer.raw = <<>> THEN answer.quantiles ELSE answer.raw[1]

OwnGrid(name) == Spoken(name, [k \in DOMAIN GRID |-> Level(GRID[k])])

ReadAt(req, name, i) == levels(req.alphas[i], req.histories[name], default_record(name, req.window))

\* What app.py and voices.py sort has still its alpha beside it: the bands of
\* one voice, read through its record, and those of the blend.
ReadAtTheirAlphas(req, got) ==
    \A i \in DOMAIN req.alphas :
        IF Several(req.voices)
        THEN ToSet(RawOf(got["blend"])[i].mean) = {got[name].quantiles[i] : name \in VoicesOf(req.voices)}
        ELSE got["tabicl"].raw # <<>> =>
                got["tabicl"].quantiles[i] = [by |-> "tabicl", at |-> Clipped(ReadAt(req, "tabicl", i))]

\* Whatever the slices and the order of the voices: a voice's raw bands are
\* its own at the alphas asked; through a record they are its own where that
\* has each alpha; "PITs are always taken against the raw answer, never the
\* recalibrated one"; "the blend is of the voices as read", for alphas that
\* rise; and every record sent is read.
AnsweredAsAsked(req, got) ==
    LET voices == VoicesOf(req.voices)
    IN  /\ DOMAIN got = voices \union (IF Several(req.voices) THEN {"blend"} ELSE {})
        /\ \A name \in DOMAIN got :
              /\ got[name].raw # <<>> <=> name \in DOMAIN req.histories
              /\ got[name].pit # <<>> <=> req.read.actual # None
        /\ DOMAIN req.histories \subseteq DOMAIN got
        /\ \A name \in voices :
              /\ RawOf(got[name]) = Spoken(name, [i \in DOMAIN req.alphas |-> Level(req.alphas[i])])
              /\ got[name].pit # <<>> => got[name].pit[1].grid = OwnGrid(name)
              /\ Several(req.voices) /\ got[name].raw # <<>> => \A i \in DOMAIN req.alphas :
                    got[name].quantiles[i] = interp(ReadAt(req, name, i), GRID, OwnGrid(name))
        /\ Rises(req.alphas) => ReadAtTheirAlphas(req, got)
        /\ Several(req.voices) /\ got["blend"].pit # <<>> => \A k \in DOMAIN GRID :
              ToSet(got["blend"].pit[1].grid[k].mean) = {got[name].as_read[k] : name \in voices}

AcceptedIsAnswered(req) == req # Refusal => AnsweredAsAsked(req, serve(req))

ServedAsAsked(body) == AcceptedIsAnswered(parse(body))

=============================================================================
