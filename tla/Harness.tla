------------------------------ MODULE Harness ------------------------------
(***************************************************************************)
(* The harness (harness/score.py, harness/voices.py): voices walked over a *)
(* panel, origin by origin.  A raw voice and a blend are asked once per    *)
(* origin and horizon (_Once); a calibrated voice keeps what it answered,  *)
(* takes its PIT when the month it called has come (Calibrated), and is    *)
(* read through those it has.                                              *)
(*                                                                         *)
(* A column is counted from 1, so at origin t the columns 1 .. t are known *)
(* and horizon h calls column t + h.  What a voice answers is a function   *)
(* of what it is handed, and is represented by it, with the series it      *)
(* calls.                                                                  *)
(***************************************************************************)
EXTENDS Voices

CONSTANTS
    Tables,      \* panels: series -> months -> value
    Walks,       \* [kind, origins, horizon, burn]; a walk's horizon is 1
    Made,        \* name -> [kind, inner, shipped, record], the voices `build` makes
    Listed,      \* those that are walked, in turn
    KeyMonths,   \* columns a panel is known by
    Season, MIN_TRAIN,
    Absent, None

Names == DOMAIN Made
Calibrated == {v \in Names : Made[v].kind = "Calibrated"}

\* What a voice answers is the same whatever the window.
Deaf(v) == ~Made[v].shipped /\ (Made[v].kind = "Blend" => \A k \in DOMAIN Made[v].inner : ~Made[Made[v].inner[k]].shipped)

\* The names' grammar: `cal:` of a raw voice or a blend, a blend of raw and
\* calibrated ones.  A `dcal:` under another `cal:` is left out: the window
\* would not reach it.
build ==
    /\ \A v \in Names : Made[v].inner \in Seq(Names) /\ Made[v].shipped \in BOOLEAN
    /\ \A v \in Calibrated :
          Len(Made[v].inner) = 1 /\ Made[v].inner[1] \notin Calibrated /\ Deaf(Made[v].inner[1])
    /\ \A v \in Names \ Calibrated :
          /\ Made[v].kind = "Blend" => \A k \in DOMAIN Made[v].inner : Made[Made[v].inner[k]].kind # "Blend"
          /\ Made[v].kind # "Blend" => Made[v].inner = <<>> /\ ~Made[v].shipped

trailing_sum(table, months) ==
    [s \in DOMAIN table |->
        [m \in DOMAIN table[s] |->
            IF m < months \/ \E l \in m - months + 1 .. m : table[s][l] = Absent THEN Absent
            ELSE FoldSeq(+, 0, SubSeq(table[s], m - months + 1, m))]]

\* "The last known column tells one panel from another cut at the same origin
\* - the months, and their trailing sums."
ColumnsTell(table, months) ==
    months > 1 => \A m \in DOMAIN table[1] : \E s \in DOMAIN table : table[s][m] # trailing_sum(table, months)[s][m]

ASSUME HarnessAssumption ==
    /\ build /\ Listed \in Seq(Names) \ {<<>>}
    /\ {KeyMonths, Season, MIN_TRAIN} \subseteq Nat \ {0}
    /\ \A table \in Tables :
          /\ 1 \in DOMAIN table
          /\ \A s \in DOMAIN table : table[s] \in Seq(Nat \union {Absent}) /\ Len(table[s]) = Len(table[1])
    /\ \A w \in Walks :
          /\ w.kind \in {"walk", "project"} /\ {w.origins, w.horizon} \subseteq Nat \ {0} /\ w.burn \in Nat
          /\ w.kind = "walk" => w.horizon = 1
    /\ \A table \in Tables, w \in Walks : ColumnsTell(table, w.horizon)

-----------------------------------------------------------------------------
VARIABLES
    y, plan,     \* the panel and how it is walked
    stage, t,    \* "burn", "scored" or "done", and the origin
    turn,        \* the voice whose turn it is, and its read at this origin
    stack,       \* the voices being asked, innermost first, each with its window
    said,        \* what they have answered in this call
    answers,     \* _Once._answers
    pending, pits,  \* Calibrated._pending and ._pits
    called       \* what each calibrated voice was asked, for the properties

walked  == <<y, plan>>
records == <<answers, pending, pits, called>>
vars    == <<walked, stage, t, turn, stack, said, records>>

total == Len(y[1])

\* A sum of one month is the month.
Panel(of) == IF of = "months" \/ plan.horizon = 1 THEN y ELSE trailing_sum(y, plan.horizon)
Cut(of, n) == [s \in DOMAIN y |-> [m \in 1 .. n |-> Panel(of)[s][m]]]
Column(of, m) == [s \in DOMAIN y |-> Panel(of)[s][m]]

-----------------------------------------------------------------------------
(* `walk` and `project`: the origins, and what is read at each. *)

Stride      == plan.horizon              \* a walk's origins are a month apart

FirstScoredAtEnd == total - Stride * (plan.origins - 1)  \* faulty: the last at the panel's end

FirstScored == total - Stride * plan.origins

BurnEndLate == FirstScored - 1  \* faulty: as if it called a month out

BurnEnd     == FirstScored - Stride      \* the furthest call made there has landed by then
FirstOrigin == IF plan.burn = 0 THEN FirstScored ELSE BurnEnd - plan.burn + 1

Month(h) == [of |-> "months", h |-> h, window |-> 1]
Total    == [of |-> "totals", h |-> plan.horizon, window |-> plan.horizon]

scored_at == {1, 3, 6, plan.horizon} \intersect (1 .. plan.horizon)

\* The months' reads by their horizon, then the total's.
Reads ==
    CASE plan.kind = "walk" -> {1}
      [] stage = "burn"     -> scored_at \union {plan.horizon + 1}
      [] OTHER              -> 1 .. plan.horizon + 1

Read == IF turn.read <= plan.horizon THEN Month(turn.read) ELSE Total
Y == Cut(Read.of, t)      \* what is handed to a voice

-----------------------------------------------------------------------------
(* Which series a raw voice calls. *)

Present(row) == [m \in DOMAIN row |-> row[m] # Absent]

Calls(kind, row, h) ==
    LET v == known(Present(row))
    IN  CASE kind = "SeasonalNaive" -> seasonal_naive(Present(row), h, Season) # VoiceError
          [] kind = "Walk"   -> /\ Len(v) >= h + MIN_TRAIN
                                /\ Cardinality({m \in h + 1 .. Len(v) : v[m]}) >= MIN_TRAIN
          [] kind = "Pooled" -> Len(v) >= h + MIN_TRAIN
          [] kind = "Chronos" -> Len(v) >= MinHistory

Raw(v) ==
    [by |-> v, y |-> Y, h |-> Read.h, record |-> {}, default |-> None, parts |-> <<>>,
     rows |-> {s \in DOMAIN y : Calls(Made[v].kind, Y[s], Read.h)}]

\* A mean of quantiles is absent where one of them is.
Blend(v) ==
    LET parts == [k \in DOMAIN Made[v].inner |-> said[Made[v].inner[k]]]
    IN  [by |-> v, y |-> Y, h |-> Read.h, record |-> {}, default |-> None, parts |-> parts,
         rows |-> {s \in DOMAIN y : \A k \in DOMAIN parts : s \in parts[k].rows}]

-----------------------------------------------------------------------------
(* _Once. *)

Put(f, key, x) == [k \in DOMAIN f \union {key} |-> IF k = key THEN x ELSE f[k]]

Shared(v) == v \notin Calibrated

KeyOfOrigin == <<t, Cut(Read.of, t)>>  \* faulty: whatever the horizon

OnceKey == <<t, Read.h, Column(Read.of, t)>>

Found(v) == Shared(v) /\ OnceKey \in DOMAIN answers[v]

Answer(v, answer) ==
    /\ said' = Put(said, v, answer)
    /\ stack' = Tail(stack)

FindAnswer ==
    /\ stack # <<>> /\ Found(Head(stack).v)
    /\ Answer(Head(stack).v, answers[Head(stack).v][OnceKey])
    /\ UNCHANGED <<walked, stage, t, turn, records>>

Unsaid(v) == {k \in DOMAIN Made[v].inner : Made[v].inner[k] \notin DOMAIN said}

\* `ask`: a blend hands its window on, a calibrated voice does not.
AskInner ==
    /\ stack # <<>> /\ ~Found(Head(stack).v) /\ Unsaid(Head(stack).v) # {}
    /\ LET v == Head(stack).v
           k == CHOOSE k \in Unsaid(v) : \A l \in Unsaid(v) : k <= l
       IN  stack' = <<[v |-> Made[v].inner[k], window |-> IF v \in Calibrated THEN 1 ELSE Head(stack).window]>> \o stack
    /\ UNCHANGED <<walked, stage, t, turn, said, records>>

\* The innermost voice has what it reads.
Ready(v) == stack # <<>> /\ Head(stack).v = v /\ ~Found(v) /\ Unsaid(v) = {}

Speak(v) ==
    /\ Shared(v) /\ Ready(v)
    /\ LET answer == IF Made[v].kind = "Blend" THEN Blend(v) ELSE Raw(v)
       IN  /\ answers' = [answers EXCEPT ![v] = Put(@, OnceKey, answer)]
           /\ Answer(v, answer)
    /\ UNCHANGED <<walked, stage, t, turn, pending, pits, called>>

-----------------------------------------------------------------------------
(* Calibrated. *)

KeyOfAll == Y  \* faulty: all of what is known

PanelKey == [s \in DOMAIN y |-> [m \in 1 .. (IF t < KeyMonths THEN t ELSE KeyMonths) |-> Y[s][m]]]

LandedEarly(v) == {p \in pending[v] : p.panel = PanelKey /\ p.t + p.h <= t + 1 /\ p.t + p.h <= total}  \* faulty: a month too soon

Landed(v) == {p \in pending[v] : p.panel = PanelKey /\ p.t + p.h <= t}

\* Where there is an actual and an answer there is a PIT.
Pit(p) ==
    LET actual == Column(Read.of, p.t + p.h)
    IN  [panel |-> p.panel, h |-> p.h, t |-> p.t, at |-> t, y |-> p.answer.y, actual |-> actual,
         rows |-> {s \in p.answer.rows : actual[s] # Absent}]

\* What the voice ships with: the months' record or the totals'.
Default(v, window) ==
    LET record == Made[Made[v].inner[1]].record
    IN  IF ~Made[v].shipped \/ record = None THEN None
        ELSE [voice |-> record, of |-> IF window <= 1 THEN "months" ELSE "totals"]

Recalibrate(v) ==
    /\ v \in Calibrated /\ Ready(v)
    /\ LET raw == said[Made[v].inner[1]]
           new == [panel |-> PanelKey, h |-> Read.h, t |-> t, answer |-> raw]
           history == {p \in pits'[v] : p.panel = PanelKey /\ p.h = Read.h}
       IN  /\ pits' = [pits EXCEPT ![v] = @ \union {Pit(p) : p \in Landed(v)}]
           /\ pending' = [pending EXCEPT ![v] =
                 {p \in @ \ Landed(v) : <<p.panel, p.h, p.t>> # <<new.panel, new.h, new.t>>} \union {new}]
           /\ Answer(v, [by |-> v, y |-> raw.y, h |-> raw.h, rows |-> raw.rows, parts |-> <<raw>>,
                         record |-> {[t |-> p.t, h |-> p.h] : p \in history},
                         default |-> Default(v, Head(stack).window)])
    /\ called' = [called EXCEPT ![v] = @ \union {[of |-> Read.of, h |-> Read.h, t |-> t]}]
    /\ UNCHANGED <<walked, stage, t, turn, answers>>

-----------------------------------------------------------------------------
Init ==
    /\ y \in Tables /\ plan \in Walks /\ FirstOrigin >= 1
    /\ stage = (IF plan.burn = 0 THEN "scored" ELSE "burn")
    /\ t = FirstOrigin
    /\ turn = [voice |-> 1, read |-> 1]
    /\ stack = <<>> /\ said = <<>>
    /\ answers = [v \in Names |-> <<>>]
    /\ pending = [v \in Names |-> {}] /\ pits = [v \in Names |-> {}]
    /\ called = [v \in Names |-> {}]

Ask ==
    /\ stage # "done" /\ stack = <<>> /\ said = <<>>
    /\ stack' = <<[v |-> Listed[turn.voice], window |-> Read.window]>>
    /\ UNCHANGED <<walked, stage, t, turn, said, records>>

NextOrigin ==
    /\ turn' = [voice |-> 1, read |-> 1]
    /\ \/ stage = "burn" /\ t < BurnEnd /\ t' = t + 1 /\ UNCHANGED stage
       \/ stage = "burn" /\ t >= BurnEnd /\ t' = FirstScored /\ stage' = "scored"
       \/ stage = "scored" /\ t + Stride < total /\ t' = t + Stride /\ UNCHANGED stage
       \/ stage = "scored" /\ t + Stride >= total /\ stage' = "done" /\ UNCHANGED t

Later == {r \in Reads : r > turn.read}

\* The voices in turn at an origin, each all its reads.
NextRead ==
    /\ stack = <<>> /\ said # <<>>
    /\ said' = <<>>
    /\ IF Later # {} THEN turn' = [turn EXCEPT !.read = CHOOSE r \in Later : \A l \in Later : r <= l] /\ UNCHANGED <<stage, t>>
       ELSE IF turn.voice < Len(Listed) THEN turn' = [voice |-> turn.voice + 1, read |-> 1] /\ UNCHANGED <<stage, t>>
       ELSE NextOrigin
    /\ UNCHANGED <<walked, stack, records>>

Finished == stage = "done" /\ UNCHANGED vars

Next ==
    \/ Ask \/ FindAnswer \/ AskInner \/ NextRead \/ Finished
    \/ \E v \in Names : Speak(v) \/ Recalibrate(v)

HarnessSpec == Init /\ [][Next]_vars

-----------------------------------------------------------------------------
(* Properties. *)

HarnessTypeOK ==
    /\ y \in Tables /\ plan \in Walks
    /\ stage \in {"burn", "scored", "done"} /\ t \in 1 .. total - 1
    /\ turn.voice \in DOMAIN Listed /\ turn.read \in Reads
    /\ \A i \in DOMAIN stack : stack[i].v \in Names /\ stack[i].window \in Nat
    /\ DOMAIN said \subseteq Names
    /\ \A v \in Calibrated : answers[v] = <<>>
    /\ \A v \in Names : Shared(v) => pending[v] = {} /\ pits[v] = {}

\* "Point in time by construction: an origin's PITs come only from months
\* already in the `y` it was handed", and each is of an answer about the panel
\* whose month it is taken against, months and their sums apart.
RecordIsPointInTime ==
    \A v \in Calibrated : \A p \in pits[v] :
        /\ p.t + p.h <= p.at /\ p.at <= t
        /\ \E of \in {"months", "totals"} : p.y = Cut(of, p.t) /\ p.actual = Column(of, p.t + p.h)

\* "Each answer is kept; once the month it called has landed, the PIT joins
\* the voice's history": what a calibrated voice was asked is in its record
\* once, at its own horizon, as soon as it is asked of that panel with the
\* month known, and until then it is not.
NothingIsLost ==
    \A v \in Calibrated : \A c \in called[v] :
        Cardinality({p \in pits[v] : p.h = c.h /\ p.t = c.t /\ p.y = Cut(c.of, c.t)})
            = IF \E d \in called[v] : Panel(d.of) = Panel(c.of) /\ d.t >= c.t + c.h THEN 1 ELSE 0

\* "A voice asked once per origin and horizon, however many listen": what
\* anybody hears in a call is of the panel, the origin, the horizon and the
\* shipped record of this call, whoever asked first.
Own(a) ==
    /\ a.y = Y /\ a.h = Read.h
    /\ a.by \in Calibrated => a.default = Default(a.by, Read.window)

HeardIsOwn ==
    \A v \in DOMAIN said : said[v].by = v /\ Own(said[v]) /\ \A k \in DOMAIN said[v].parts : Own(said[v].parts[k])

\* "The last of them early enough that its furthest call has landed by the
\* first scored origin": at a scored origin the month of every earlier call is
\* known, so a record is as full as the walk can make it.
BurnHasLanded ==
    stage = "scored" => \A v \in Calibrated : \A c \in called[v] : c.t < t => c.t + c.h <= t

=============================================================================
