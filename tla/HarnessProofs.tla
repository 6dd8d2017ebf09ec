--------------------------- MODULE HarnessProofs ---------------------------
(***************************************************************************)
(* What the harness keeps, for every panel, walk and list of voices.       *)
(*                                                                         *)
(* The walk goes forward within the panel (Walking); what is heard in a    *)
(* call, and what _Once has, is of one panel, origin and horizon           *)
(* (Hearing), by the columns that tell the panels apart; so what a         *)
(* calibrated voice keeps is of the panel it is kept under (Keeping).      *)
(***************************************************************************)
EXTENDS Harness, DataFacts

Kinds == {"months", "totals"}

\* What a voice is asked for with a read of months, and of totals.
WindowOf(of) == IF of = "months" THEN 1 ELSE plan.horizon

\* What Calibrated knows a panel by at an origin.
KeyAt(of, n) == [s \in DOMAIN y |-> [m \in 1 .. (IF n < KeyMonths THEN n ELSE KeyMonths) |-> Panel(of)[s][m]]]

-----------------------------------------------------------------------------
(* The walk. *)

Walking ==
    /\ y \in Tables /\ plan \in Walks
    /\ FirstOrigin >= 1 /\ t \in FirstOrigin .. total - 1
    /\ stage \in {"burn", "scored", "done"}
    /\ stage = "burn" => plan.burn # 0 /\ t <= BurnEnd
    /\ turn \in [voice : DOMAIN Listed, read : Nat] /\ turn.read \in Reads

LEMMA PlanFacts ==
    ASSUME y \in Tables, plan \in Walks
    PROVE  /\ total \in Nat /\ Stride \in Nat \ {0} /\ plan.burn \in Nat
           /\ FirstScored \in Int /\ FirstScored <= total - 1
           /\ BurnEnd = FirstScored - Stride /\ BurnEnd \in Int
           /\ plan.kind = "walk" => Stride = 1
<1>1. total \in Nat
  BY HarnessAssumption DEF total
<1>2. plan.horizon \in Nat \ {0} /\ plan.origins \in Nat \ {0} /\ plan.burn \in Nat
  BY HarnessAssumption
<1>3. plan.horizon * plan.origins \in Nat \ {0}
  <2>. DEFINE a == plan.horizon
              b == plan.origins
  <2>1. a \in Nat \ {0} /\ b \in Nat \ {0}
    BY <1>2
  <2>. HIDE DEF a, b
  <2>2. a * b \in Nat \ {0}
    BY <2>1
  <2>. QED  BY <2>2 DEF a, b
<1>. QED  BY <1>1, <1>2, <1>3, HarnessAssumption DEF Stride, FirstScored, BurnEnd

\* What a read is, whichever it is.
LEMMA ReadFacts ==
    ASSUME y \in Tables, plan \in Walks, turn.read \in Reads
    PROVE  /\ turn.read \in Nat /\ Read.of \in Kinds
           /\ Read.h \in Nat \ {0} /\ Read.h <= Stride
           /\ Read.window = WindowOf(Read.of)
<1>1. plan.horizon \in Nat \ {0} /\ (plan.kind = "walk" => plan.horizon = 1)
  BY HarnessAssumption
<1>2. turn.read \in 1 .. plan.horizon + 1
  BY <1>1 DEF Reads, scored_at
<1>3. CASE turn.read <= plan.horizon
  BY <1>1, <1>2, <1>3 DEF Read, Month, Kinds, WindowOf, Stride
<1>4. CASE ~(turn.read <= plan.horizon)
  BY <1>1, <1>2, <1>4 DEF Read, Total, Kinds, WindowOf, Stride
<1>. QED  BY <1>3, <1>4

LEMMA WalkingInit == Init => Walking
<1>. SUFFICES ASSUME Init PROVE Walking
  OBVIOUS
<1>1. y \in Tables /\ plan \in Walks /\ t = FirstOrigin /\ FirstOrigin >= 1
      /\ stage = (IF plan.burn = 0 THEN "scored" ELSE "burn") /\ turn = [voice |-> 1, read |-> 1]
  BY DEF Init
<1>2. FirstOrigin \in FirstOrigin .. total - 1 /\ (plan.burn # 0 => FirstOrigin <= BurnEnd)
  BY <1>1, PlanFacts DEF FirstOrigin
<1>3. 1 \in DOMAIN Listed
  BY HarnessAssumption
<1>4. 1 \in Reads
  BY <1>1, PlanFacts DEF Reads, scored_at, Stride
<1>. QED  BY <1>1, <1>2, <1>3, <1>4 DEF Walking

\* Every action but the walk's own leaves the walk where it is.
LEMMA OnlyNextReadWalks ==
    ASSUME [Next]_vars
    PROVE  UNCHANGED <<walked, stage, t, turn>> \/ NextRead
BY DEF Next, vars, Ask, FindAnswer, AskInner, Speak, Recalibrate, Finished

LEMMA WalkingStays ==
    ASSUME Walking, UNCHANGED <<walked, stage, t, turn>>
    PROVE  Walking'
BY DEF Walking, walked, FirstOrigin, FirstScored, BurnEnd, Stride, total, Reads, scored_at

\* The walk's next read: later at this origin, or the next origin's first.
LEMMA NextOriginFacts ==
    ASSUME Walking, NextOrigin, UNCHANGED walked
    PROVE  Walking' /\ t' >= t /\ t' \in Nat
<1>1. /\ total \in Nat /\ Stride \in Nat \ {0} /\ plan.burn \in Nat
      /\ FirstScored \in Int /\ FirstScored <= total - 1
      /\ BurnEnd = FirstScored - Stride /\ BurnEnd \in Int
      /\ t \in Nat /\ FirstOrigin \in Nat /\ FirstOrigin >= 1
      /\ t >= FirstOrigin /\ t <= total - 1
      /\ FirstOrigin = IF plan.burn = 0 THEN FirstScored ELSE BurnEnd - plan.burn + 1
  BY PlanFacts DEF Walking, FirstOrigin
<1>2. UNCHANGED <<y, plan, total, Stride, FirstScored, BurnEnd, FirstOrigin>>
  BY DEF walked, total, Stride, FirstScored, BurnEnd, FirstOrigin
<1>3. y \in Tables /\ plan \in Walks /\ turn' \in [voice : DOMAIN Listed, read : Nat] /\ turn'.read = 1
  BY HarnessAssumption DEF NextOrigin, Walking
<1>4. 1 \in Reads'
  BY <1>1, <1>2, <1>3 DEF Reads, scored_at, Stride
<1>5. CASE stage = "burn" /\ t < BurnEnd /\ t' = t + 1 /\ UNCHANGED stage
  <2>1. t' \in FirstOrigin .. total - 1 /\ t' <= BurnEnd /\ t' >= t
    BY <1>1, <1>5
  <2>. QED  BY <1>1, <1>2, <1>3, <1>4, <1>5, <2>1 DEF Walking
<1>6. CASE stage = "burn" /\ t >= BurnEnd /\ t' = FirstScored /\ stage' = "scored"
  <2>1. plan.burn # 0 /\ t <= BurnEnd
    BY <1>6 DEF Walking
  <2>2. t' \in FirstOrigin .. total - 1 /\ t' >= t
    BY <1>1, <1>6, <2>1
  <2>. QED  BY <1>1, <1>2, <1>3, <1>4, <1>6, <2>2 DEF Walking
<1>7. CASE stage = "scored" /\ t + Stride < total /\ t' = t + Stride /\ UNCHANGED stage
  <2>1. t' \in FirstOrigin .. total - 1 /\ t' >= t
    BY <1>1, <1>7
  <2>. QED  BY <1>1, <1>2, <1>3, <1>4, <1>7, <2>1 DEF Walking
<1>8. CASE stage = "scored" /\ t + Stride >= total /\ stage' = "done" /\ UNCHANGED t
  BY <1>1, <1>2, <1>3, <1>4, <1>8 DEF Walking
<1>. QED  BY <1>5, <1>6, <1>7, <1>8 DEF NextOrigin

LEMMA WalkingNextRead ==
    ASSUME Walking, NextRead
    PROVE  Walking' /\ t' >= t /\ t' \in Nat
<1>0. UNCHANGED walked /\ t \in Nat
  <2>1. UNCHANGED walked
    BY DEF NextRead
  <2>2. t \in Nat
    BY PlanFacts DEF Walking, FirstOrigin
  <2>. QED  BY <2>1, <2>2
<1>1. CASE Later # {} /\ turn' = [turn EXCEPT !.read = CHOOSE r \in Later : \A l \in Later : r <= l] /\ UNCHANGED <<stage, t>>
  <2>1. Later \subseteq Reads /\ Later \subseteq Nat
    BY <1>0, HarnessAssumption DEF Later, Reads, scored_at, Walking
  <2>2. \E r \in Later : \A l \in Later : r <= l
    BY <1>1, <2>1, LeastOf
  <2>3. turn'.read \in Later /\ turn' \in [voice : DOMAIN Listed, read : Nat]
    <3>. DEFINE least == CHOOSE r \in Later : \A l \in Later : r <= l
    <3>1. least \in Later
      BY <2>2
    <3>. HIDE DEF least
    <3>. QED  BY <1>1, <3>1, <2>1 DEF Walking, least
  <2>4. UNCHANGED Reads
    BY <1>0, <1>1 DEF Reads, scored_at, walked
  <2>5. turn'.read \in Reads'
    BY <2>1, <2>3, <2>4
  <2>. QED
    BY <1>0, <1>1, <2>3, <2>5 DEF Walking, walked, FirstOrigin, FirstScored, BurnEnd, Stride, total
<1>2. CASE Later = {} /\ turn.voice < Len(Listed) /\ turn' = [voice |-> turn.voice + 1, read |-> 1] /\ UNCHANGED <<stage, t>>
  <2>1. turn' \in [voice : DOMAIN Listed, read : Nat]
    <3>1. turn.voice \in 1 .. Len(Listed) /\ Len(Listed) \in Nat
      BY HarnessAssumption DEF Walking
    <3>2. turn.voice + 1 \in 1 .. Len(Listed)
      BY <3>1, <1>2
    <3>. QED  BY <3>2, <1>2, HarnessAssumption
  <2>2. 1 \in Reads'
    BY <1>0, <1>2, HarnessAssumption DEF Reads, scored_at, walked, Walking
  <2>. QED
    BY <1>0, <1>2, <2>1, <2>2 DEF Walking, walked, FirstOrigin, FirstScored, BurnEnd, Stride, total
<1>3. CASE NextOrigin
  BY <1>0, <1>3, NextOriginFacts
<1>. QED  BY <1>1, <1>2, <1>3 DEF NextRead

LEMMA WalkingStep == Walking /\ [Next]_vars => Walking'
BY OnlyNextReadWalks, WalkingStays, WalkingNextRead

LEMMA TheOrigin ==
    ASSUME Walking
    PROVE  t \in Nat \ {0} /\ t \in 1 .. total - 1 /\ t \in 1 .. total /\ total \in Nat
<1>1. total \in Nat /\ FirstOrigin \in Int
  BY PlanFacts DEF Walking, FirstOrigin
<1>. QED  BY <1>1 DEF Walking

-----------------------------------------------------------------------------
(* What tells the panels apart. *)

\* A column is of one panel, and of one window.
LEMMA ColumnsTellPanels ==
    ASSUME y \in Tables, plan \in Walks, NEW m \in 1 .. total,
           NEW of \in Kinds, NEW as \in Kinds, Column(of, m) = Column(as, m)
    PROVE  Panel(of) = Panel(as) /\ WindowOf(of) = WindowOf(as)
<1>1. CASE of = as \/ plan.horizon = 1
  BY <1>1 DEF Panel, WindowOf
<1>2. CASE of # as /\ plan.horizon # 1
  <2>1. plan.horizon > 1 /\ m \in DOMAIN y[1]
    BY <1>2, HarnessAssumption DEF total
  <2>2. PICK s \in DOMAIN y : y[s][m] # trailing_sum(y, plan.horizon)[s][m]
    BY <2>1, HarnessAssumption DEF ColumnsTell
  <2>3. Column(of, m)[s] = Panel(of)[s][m] /\ Column(as, m)[s] = Panel(as)[s][m]
    BY DEF Column
  <2>4. Panel("months") = y /\ Panel("totals") = trailing_sum(y, plan.horizon)
    BY <1>2 DEF Panel
  <2>. QED  BY <1>2, <2>2, <2>3, <2>4 DEF Kinds
<1>. QED  BY <1>1, <1>2

\* So is what a panel is known by, and what is handed to a voice.
LEMMA KeysTellPanels ==
    ASSUME y \in Tables, plan \in Walks, NEW of \in Kinds, NEW as \in Kinds
    PROVE  \A m, n : m \in 1 .. total /\ n \in 1 .. total /\ KeyAt(of, m) = KeyAt(as, n) => Panel(of) = Panel(as)
<1>. SUFFICES ASSUME NEW m, NEW n, m \in 1 .. total, n \in 1 .. total, KeyAt(of, m) = KeyAt(as, n)
              PROVE  Panel(of) = Panel(as)
  OBVIOUS
<1>1. 1 \in 1 .. (IF m < KeyMonths THEN m ELSE KeyMonths) /\ 1 \in 1 .. (IF n < KeyMonths THEN n ELSE KeyMonths)
      /\ 1 \in 1 .. total
  BY PlanFacts, HarnessAssumption
<1>2. \A s \in DOMAIN y : KeyAt(of, m)[s][1] = Panel(of)[s][1] /\ KeyAt(as, n)[s][1] = Panel(as)[s][1]
  BY <1>1 DEF KeyAt
<1>3. Column(of, 1) = Column(as, 1)
  BY <1>2 DEF Column
<1>. QED  BY <1>1, <1>3, ColumnsTellPanels

LEMMA CutsTellPanels ==
    ASSUME y \in Tables, plan \in Walks, NEW m \in 1 .. total,
           NEW of \in Kinds, NEW as \in Kinds, Cut(of, m) = Cut(as, m)
    PROVE  Panel(of) = Panel(as)
<1>1. 1 \in 1 .. m /\ 1 \in 1 .. total
  BY PlanFacts
<1>2. \A s \in DOMAIN y : Cut(of, m)[s][1] = Panel(of)[s][1] /\ Cut(as, m)[s][1] = Panel(as)[s][1]
  BY <1>1 DEF Cut
<1>3. Column(of, 1) = Column(as, 1)
  BY <1>2 DEF Column
<1>. QED  BY <1>1, <1>3, ColumnsTellPanels

LEMMA SamePanel ==
    ASSUME NEW of, NEW as, Panel(of) = Panel(as), NEW n
    PROVE  Cut(of, n) = Cut(as, n) /\ KeyAt(of, n) = KeyAt(as, n) /\ Column(of, n) = Column(as, n)
BY DEF Cut, KeyAt, Column

LEMMA PanelKeyIs ==
    ASSUME t \in Nat
    PROVE  PanelKey = KeyAt(Read.of, t)
<1>1. ASSUME NEW s \in DOMAIN y, NEW m \in 1 .. (IF t < KeyMonths THEN t ELSE KeyMonths)
      PROVE  Y[s][m] = Panel(Read.of)[s][m]
  <2>1. m \in 1 .. t
    BY HarnessAssumption
  <2>. QED  BY <2>1 DEF Y, Cut
<1>. QED  BY <1>1 DEF PanelKey, KeyAt

-----------------------------------------------------------------------------
(* What is heard. *)

\* An answer, and what it was made of, is to what was asked.
Rightly(a, of, n, h) ==
    /\ a.y = Cut(of, n) /\ a.h = h
    /\ a.by \in Calibrated => a.default = Default(a.by, WindowOf(of))

Says(v, a, of, n, h) ==
    /\ a.by = v /\ Rightly(a, of, n, h)
    /\ \A k \in DOMAIN a.parts : Rightly(a.parts[k], of, n, h)

Asking ==
    /\ stack \in Seq([v : Names, window : Nat])
    /\ \A i \in DOMAIN stack : stack[i].window = Read.window \/ Deaf(stack[i].v)

Hearing == DOMAIN said \subseteq Names /\ \A v \in DOMAIN said : Says(v, said[v], Read.of, t, Read.h)

Remembered(v, key, a) ==
    \E of \in Kinds :
        /\ key = <<key[1], key[2], Column(of, key[1])>> /\ key[1] \in 1 .. total
        /\ Says(v, a, of, key[1], key[2])

Once ==
    /\ answers = [v \in Names |-> answers[v]]
    /\ \A v \in Names : \A key \in DOMAIN answers[v] : Remembered(v, key, answers[v][key])

\* The panel does not change.
LEMMA PanelStays ==
    ASSUME UNCHANGED walked
    PROVE  /\ UNCHANGED total
           /\ \A of, n : UNCHANGED <<Panel(of), Cut(of, n), KeyAt(of, n), Column(of, n), WindowOf(of)>>
           /\ \A v, a, of, n, h : Says(v, a, of, n, h)' <=> Says(v, a, of, n, h)
           /\ \A v, key, a : Remembered(v, key, a)' <=> Remembered(v, key, a)
<1>1. y' = y /\ plan' = plan /\ UNCHANGED total
  BY DEF walked, total
<1>2. \A of : UNCHANGED Panel(of)
  BY <1>1 DEF Panel
<1>3. \A of, n : UNCHANGED <<Cut(of, n), KeyAt(of, n), Column(of, n), WindowOf(of)>>
  BY <1>1, <1>2 DEF Cut, KeyAt, Column, WindowOf
<1>4. \A a, of, n, h : Rightly(a, of, n, h)' <=> Rightly(a, of, n, h)
  BY <1>3 DEF Rightly
<1>5. \A v, a, of, n, h : Says(v, a, of, n, h)' <=> Says(v, a, of, n, h)
  BY <1>4 DEF Says
<1>6. \A v, key, a : Remembered(v, key, a)' <=> Remembered(v, key, a)
  BY <1>1, <1>3, <1>5 DEF Remembered
<1>. QED  BY <1>1, <1>2, <1>3, <1>5, <1>6

LEMMA TopIsAVoice ==
    ASSUME Asking, stack # <<>>
    PROVE  /\ Head(stack).v \in Names /\ Head(stack).window \in Nat
           /\ Head(stack).window = Read.window \/ Deaf(Head(stack).v)
<1>1. stack \in Seq([v : Names, window : Nat])
  BY DEF Asking
<1>2. 1 \in DOMAIN stack /\ Head(stack) = stack[1] /\ stack[1] \in [v : Names, window : Nat]
  <2>1. ASSUME NEW S, NEW q \in Seq(S), q # <<>> PROVE 1 \in DOMAIN q /\ Head(q) = q[1] /\ q[1] \in S
    BY <2>1
  <2>. QED  BY <1>1, <2>1
<1>. QED  BY <1>2 DEF Asking

\* Nothing in a call is heard beside the read it is of.
Heard == Asking /\ Hearing /\ Once

LEMMA HeardStays ==
    ASSUME Heard, UNCHANGED <<walked, stage, t, turn, stack, said, answers>>
    PROVE  Heard'
<1>1. UNCHANGED Read
  BY DEF Read, Month, Total, walked
<1>2. UNCHANGED <<t, stack, said, answers>>
  OBVIOUS
<1>3. Asking'
  BY <1>1, <1>2 DEF Heard, Asking
<1>4. Hearing'
  BY <1>1, <1>2, PanelStays DEF Heard, Hearing
<1>5. Once'
  BY <1>2, PanelStays DEF Heard, Once
<1>. QED  BY <1>3, <1>4, <1>5 DEF Heard

\* The read stays while a call goes on.
LEMMA ReadStays ==
    ASSUME UNCHANGED <<walked, stage, t, turn>>
    PROVE  /\ UNCHANGED <<Read, t>>
           /\ \A v, a : Says(v, a, Read.of, t, Read.h)' <=> Says(v, a, Read.of, t, Read.h)
<1>1. UNCHANGED <<Read, t, walked>>
  BY DEF Read, Month, Total, walked
<1>. QED  BY <1>1, PanelStays

\* What a blend or a raw voice said of a column is of the panel of that column.
LEMMA FoundIsRight ==
    ASSUME Walking, Once, NEW v \in Names, OnceKey \in DOMAIN answers[v]
    PROVE  Says(v, answers[v][OnceKey], Read.of, t, Read.h)
<1>. DEFINE a == answers[v][OnceKey]
<1>1. Read.of \in Kinds /\ y \in Tables /\ plan \in Walks /\ OnceKey = <<t, Read.h, Column(Read.of, t)>>
  BY ReadFacts DEF Walking, OnceKey
<1>2. Remembered(v, OnceKey, a)
  BY DEF Once
<1>3. PICK of \in Kinds : /\ OnceKey = <<OnceKey[1], OnceKey[2], Column(of, OnceKey[1])>> /\ OnceKey[1] \in 1 .. total
                          /\ Says(v, a, of, OnceKey[1], OnceKey[2])
  BY <1>2 DEF Remembered
<1>4. OnceKey[1] = t /\ OnceKey[2] = Read.h /\ OnceKey[3] = Column(Read.of, t)
  BY <1>1
<1>5. Column(of, t) = Column(Read.of, t) /\ t \in 1 .. total /\ Says(v, a, of, t, Read.h)
  BY <1>3, <1>4
<1>6. Panel(of) = Panel(Read.of) /\ WindowOf(of) = WindowOf(Read.of)
  BY <1>1, <1>5, ColumnsTellPanels
<1>7. Cut(of, t) = Cut(Read.of, t)
  BY <1>6, SamePanel
<1>8. \A b : Rightly(b, of, t, Read.h) => Rightly(b, Read.of, t, Read.h)
  BY <1>6, <1>7 DEF Rightly
<1>. QED  BY <1>5, <1>8 DEF Says

\* The one who has spoken is heard; the others are as they were.
LEMMA SpokenIsHeard ==
    ASSUME Asking, Hearing, stack # <<>>, UNCHANGED <<walked, stage, t, turn>>,
           NEW v \in Names, NEW a, Answer(v, a), Says(v, a, Read.of, t, Read.h)
    PROVE  Asking' /\ Hearing'
<1>1. UNCHANGED Read /\ UNCHANGED t
  BY ReadStays
<1>2. stack' = Tail(stack) /\ said' = Put(said, v, a)
  BY DEF Answer
<1>3. stack' \in Seq([v : Names, window : Nat])
  BY <1>2 DEF Asking
<1>4. \A i \in DOMAIN stack' : i + 1 \in DOMAIN stack /\ stack'[i] = stack[i + 1]
  BY <1>2 DEF Asking
<1>5. Asking'
  BY <1>1, <1>3, <1>4 DEF Asking
<1>6. DOMAIN said' = DOMAIN said \union {v}
  BY <1>2 DEF Put
<1>7. \A u \in DOMAIN said' : said'[u] = IF u = v THEN a ELSE said[u]
  BY <1>2 DEF Put
<1>8. \A u \in DOMAIN said' : Says(u, said'[u], Read.of, t, Read.h)
  BY <1>6, <1>7 DEF Hearing
<1>9. (\A u \in DOMAIN said : Says(u, said[u], Read.of, t, Read.h))'
  <2>1. \A u, b : Says(u, b, Read.of, t, Read.h) => Says(u, b, Read.of, t, Read.h)'
    BY ReadStays
  <2>. QED  BY <1>8, <2>1
<1>10. (DOMAIN said \subseteq Names)'
  BY <1>6 DEF Hearing
<1>. QED  BY <1>5, <1>9, <1>10 DEF Hearing

LEMMA HeardFindAnswer == Walking /\ Heard /\ FindAnswer => Heard'
<1>. SUFFICES ASSUME Walking, Heard, FindAnswer PROVE Heard'
  OBVIOUS
<1>. DEFINE v == Head(stack).v
<1>1. stack # <<>> /\ v \in Names
  BY TopIsAVoice DEF FindAnswer, Heard
<1>2. OnceKey \in DOMAIN answers[v] /\ Answer(v, answers[v][OnceKey]) /\ UNCHANGED <<walked, stage, t, turn, answers>>
  BY DEF FindAnswer, Found, records
<1>3. Says(v, answers[v][OnceKey], Read.of, t, Read.h)
  BY <1>1, <1>2, FoundIsRight DEF Heard
<1>4. Asking' /\ Hearing'
  BY <1>1, <1>2, <1>3, SpokenIsHeard DEF Heard
<1>5. Once'
  BY <1>2, PanelStays DEF Heard, Once
<1>. QED  BY <1>4, <1>5 DEF Heard

LEMMA HeardAsk == Walking /\ Heard /\ Ask => Heard'
<1>. SUFFICES ASSUME Walking, Heard, Ask PROVE Heard'
  OBVIOUS
<1>1. UNCHANGED <<walked, stage, t, turn, said, answers>>
  BY DEF Ask, records
<1>2. stack' = <<[v |-> Listed[turn.voice], window |-> Read.window]>>
  BY DEF Ask
<1>3. Listed[turn.voice] \in Names /\ Read.window \in Nat
  <2>1. Listed[turn.voice] \in Names
    BY HarnessAssumption DEF Walking
  <2>2. Read.window \in Nat
    BY ReadFacts, HarnessAssumption DEF Walking, WindowOf
  <2>. QED  BY <2>1, <2>2
<1>4. Asking'
  BY <1>1, <1>2, <1>3, ReadStays DEF Asking
<1>5. Hearing' /\ Once'
  BY <1>1, ReadStays, PanelStays DEF Heard, Hearing, Once
<1>. QED  BY <1>4, <1>5 DEF Heard

LEMMA HeardAskInner == Walking /\ Heard /\ AskInner => Heard'
<1>. SUFFICES ASSUME Walking, Heard, AskInner PROVE Heard'
  OBVIOUS
<1>. DEFINE u == Head(stack).v
            inner == Made[u].inner
            k == CHOOSE k \in Unsaid(u) : \A l \in Unsaid(u) : k <= l
            asked == [v |-> inner[k], window |-> IF u \in Calibrated THEN 1 ELSE Head(stack).window]
<1>1. UNCHANGED <<walked, stage, t, turn, said, answers>> /\ stack' = <<asked>> \o stack /\ Unsaid(u) # {}
  BY DEF AskInner, records
<1>2. u \in Names /\ Head(stack).window \in Nat /\ (Head(stack).window = Read.window \/ Deaf(u))
  BY TopIsAVoice DEF AskInner, Heard
<1>3. inner \in Seq(Names)
  BY <1>2, HarnessAssumption DEF build
<1>4. k \in DOMAIN inner
  <2>1. Unsaid(u) \subseteq DOMAIN inner /\ Unsaid(u) \subseteq Nat
    BY <1>3 DEF Unsaid
  <2>2. \E l \in Unsaid(u) : \A j \in Unsaid(u) : l <= j
    BY <1>1, <2>1, LeastOf
  <2>3. k \in Unsaid(u)
    BY <2>2
  <2>. QED  BY <2>1, <2>3
<1>5. asked.window = Read.window \/ Deaf(asked.v)
  <2>1. CASE u \in Calibrated
    <3>1. Len(inner) = 1 /\ Deaf(inner[1])
      BY <2>1, HarnessAssumption DEF build
    <3>2. k = 1
      <4>. HIDE DEF k
      <4>. QED  BY <1>3, <1>4, <3>1
    <3>3. asked.v = inner[1]
      <4>. HIDE DEF k, inner
      <4>. QED  BY <3>2
    <3>. QED  BY <3>1, <3>3
  <2>2. CASE u \notin Calibrated /\ Made[u].kind = "Blend"
    <3>1. Made[inner[k]].kind # "Blend"
      BY <1>2, <1>4, <2>2, HarnessAssumption DEF build
    <3>2. Deaf(u) => Deaf(inner[k])
      BY <1>4, <2>2, <3>1 DEF Deaf
    <3>. QED  BY <1>2, <2>2, <3>2
  <2>3. CASE u \notin Calibrated /\ Made[u].kind # "Blend"
    <3>1. inner = <<>>
      BY <1>2, <2>3, HarnessAssumption DEF build
    <3>. QED  BY <1>4, <3>1
  <2>. QED  BY <2>1, <2>2, <2>3
<1>6. asked \in [v : Names, window : Nat]
  <2>1. inner[k] \in Names
    <3>. HIDE DEF k, inner
    <3>. QED  BY <1>3, <1>4
  <2>. HIDE DEF k, inner
  <2>. QED  BY <1>2, <2>1
<1>. HIDE DEF asked
<1>7. stack' \in Seq([v : Names, window : Nat])
      /\ \A i \in DOMAIN stack' : stack'[i] = asked \/ \E j \in DOMAIN stack : stack'[i] = stack[j]
  <2>1. stack \in Seq([v : Names, window : Nat])
    BY DEF Heard, Asking
  <2>. QED  BY <1>1, <1>6, <2>1
<1>8. Asking'
  BY <1>1, <1>5, <1>7, ReadStays DEF Heard, Asking
<1>9. Hearing' /\ Once'
  BY <1>1, ReadStays, PanelStays DEF Heard, Hearing, Once
<1>. QED  BY <1>8, <1>9 DEF Heard

LEMMA OnceSpeaks ==
    ASSUME Walking, Once, UNCHANGED walked, NEW v \in Names, NEW a, Says(v, a, Read.of, t, Read.h),
           answers' = [answers EXCEPT ![v] = Put(@, OnceKey, a)]
    PROVE  Once'
<1>1. answers' = [u \in Names |-> IF u = v THEN Put(answers[v], OnceKey, a) ELSE answers[u]]
  BY DEF Once
<1>2. answers' = [u \in Names |-> answers'[u]]
  BY <1>1
<1>3. ASSUME NEW u \in Names, NEW key \in DOMAIN answers'[u] PROVE Remembered(u, key, answers'[u][key])
  <2>1. CASE u = v /\ key = OnceKey
    <3>1. answers'[u][key] = a
      BY <1>1, <2>1 DEF Put
    <3>2. key[1] = t /\ key[2] = Read.h /\ key = <<t, Read.h, Column(Read.of, t)>>
      BY <2>1 DEF OnceKey
    <3>3. Read.of \in Kinds /\ t \in 1 .. total
      BY ReadFacts, TheOrigin DEF Walking
    <3>. QED  BY <2>1, <3>1, <3>2, <3>3 DEF Remembered
  <2>2. CASE ~(u = v /\ key = OnceKey)
    <3>1. key \in DOMAIN answers[u] /\ answers'[u][key] = answers[u][key]
      BY <1>1, <1>3, <2>2 DEF Put
    <3>. QED  BY <3>1 DEF Once
  <2>. QED  BY <2>1, <2>2
<1>4. (\A u \in Names : \A key \in DOMAIN answers[u] : Remembered(u, key, answers[u][key]))'
  <2>1. \A u, key, b : Remembered(u, key, b) => Remembered(u, key, b)'
    BY PanelStays
  <2>. QED  BY <1>3, <2>1
<1>. QED  BY <1>2, <1>4 DEF Once

\* What the innermost voices said is to what was asked.
LEMMA InnerIsRight ==
    ASSUME Hearing, NEW v \in Names, Unsaid(v) = {}, NEW k \in DOMAIN Made[v].inner
    PROVE  LET u == Made[v].inner[k]
           IN  u \in DOMAIN said /\ said[u].by = u /\ Rightly(said[u], Read.of, t, Read.h)
BY DEF Hearing, Unsaid, Says

LEMMA HeardSpeak ==
    ASSUME Walking, Heard, NEW v \in Names, Speak(v)
    PROVE  Heard'
<1>. DEFINE a == IF Made[v].kind = "Blend" THEN Blend(v) ELSE Raw(v)
<1>1. /\ v \notin Calibrated /\ stack # <<>> /\ Unsaid(v) = {} /\ UNCHANGED <<walked, stage, t, turn>>
      /\ answers' = [answers EXCEPT ![v] = Put(@, OnceKey, a)] /\ Answer(v, a)
  BY DEF Speak, Shared, Ready
<1>2. Says(v, a, Read.of, t, Read.h)
  <2>1. CASE Made[v].kind = "Blend"
    <3>1. /\ Blend(v).by = v /\ Blend(v).y = Cut(Read.of, t) /\ Blend(v).h = Read.h
          /\ Blend(v).parts = [k \in DOMAIN Made[v].inner |-> said[Made[v].inner[k]]]
      BY DEF Blend, Y
    <3>2. \A k \in DOMAIN Blend(v).parts : Rightly(Blend(v).parts[k], Read.of, t, Read.h)
      BY <1>1, <3>1, InnerIsRight DEF Heard
    <3>. QED  BY <1>1, <2>1, <3>1, <3>2 DEF Says, Rightly
  <2>2. CASE Made[v].kind # "Blend"
    <3>1. Raw(v).by = v /\ Raw(v).y = Cut(Read.of, t) /\ Raw(v).h = Read.h /\ Raw(v).parts = <<>>
      BY DEF Raw, Y
    <3>. QED  BY <1>1, <2>2, <3>1 DEF Says, Rightly
  <2>. QED  BY <2>1, <2>2
<1>. HIDE DEF a
<1>3. Asking' /\ Hearing'
  BY <1>1, <1>2, SpokenIsHeard DEF Heard
<1>4. Once'
  BY <1>1, <1>2, OnceSpeaks DEF Heard
<1>. QED  BY <1>3, <1>4 DEF Heard

LEMMA HeardRecalibrate ==
    ASSUME Walking, Heard, NEW v \in Names, Recalibrate(v)
    PROVE  Heard'
<1>. DEFINE raw == said[Made[v].inner[1]]
            a == [by |-> v, y |-> raw.y, h |-> raw.h, rows |-> raw.rows, parts |-> <<raw>>,
                  record |-> {[t |-> p.t, h |-> p.h] : p \in {p \in pits'[v] : p.panel = PanelKey /\ p.h = Read.h}},
                  default |-> Default(v, Head(stack).window)]
<1>1. /\ v \in Calibrated /\ stack # <<>> /\ Head(stack).v = v /\ Unsaid(v) = {}
      /\ UNCHANGED <<walked, stage, t, turn, answers>> /\ Answer(v, a)
  BY DEF Recalibrate, Ready
<1>2. Rightly(raw, Read.of, t, Read.h)
  <2>1. 1 \in DOMAIN Made[v].inner
    BY <1>1, HarnessAssumption DEF build
  <2>. QED  BY <1>1, <2>1, InnerIsRight DEF Heard
<1>3. a.default = Default(v, WindowOf(Read.of))
  <2>1. Head(stack).window = Read.window \/ ~Made[v].shipped
    BY <1>1, TopIsAVoice DEF Heard, Deaf
  <2>2. Read.window = WindowOf(Read.of)
    BY ReadFacts DEF Walking
  <2>. QED  BY <2>1, <2>2 DEF Default
<1>4. Says(v, a, Read.of, t, Read.h)
  <2>1. a.by = v /\ a.y = Cut(Read.of, t) /\ a.h = Read.h /\ a.parts = <<raw>>
    BY <1>2 DEF Rightly
  <2>2. \A k \in DOMAIN a.parts : Rightly(a.parts[k], Read.of, t, Read.h)
    BY <1>2, <2>1
  <2>. QED  BY <1>3, <2>1, <2>2 DEF Says, Rightly
<1>. HIDE DEF a
<1>5. Asking' /\ Hearing'
  BY <1>1, <1>4, SpokenIsHeard DEF Heard
<1>6. Once'
  BY <1>1, PanelStays DEF Heard, Once
<1>. QED  BY <1>5, <1>6 DEF Heard

LEMMA HeardNextRead == Walking /\ Heard /\ NextRead => Heard'
<1>. SUFFICES ASSUME Walking, Heard, NextRead PROVE Heard'
  OBVIOUS
<1>1. stack' = <<>> /\ said' = <<>> /\ UNCHANGED <<walked, answers>>
  BY DEF NextRead, records
<1>2. Asking' /\ Hearing'
  BY <1>1 DEF Asking, Hearing
<1>3. Once'
  BY <1>1, PanelStays DEF Heard, Once
<1>. QED  BY <1>2, <1>3 DEF Heard

LEMMA HeardInit == Init => Heard
<1>. SUFFICES ASSUME Init PROVE Heard
  OBVIOUS
<1>1. stack = <<>> /\ said = <<>> /\ answers = [v \in Names |-> <<>>]
  BY DEF Init
<1>. QED  BY <1>1 DEF Heard, Asking, Hearing, Once

LEMMA HeardStep == Walking /\ Heard /\ [Next]_vars => Heard'
<1>. SUFFICES ASSUME Walking, Heard, [Next]_vars PROVE Heard'
  OBVIOUS
<1>1. CASE UNCHANGED vars
  BY <1>1, HeardStays DEF vars, records
<1>2. CASE Next
  BY <1>1, <1>2, HeardAsk, HeardFindAnswer, HeardAskInner, HeardNextRead, HeardSpeak, HeardRecalibrate
     DEF Next, Finished
<1>. QED  BY <1>1, <1>2

LEMMA HeardAlways == HarnessSpec => [](Walking /\ Heard)
<1>1. Init => Walking /\ Heard
  BY WalkingInit, HeardInit
<1>2. Walking /\ Heard /\ [Next]_vars => (Walking /\ Heard)'
  BY WalkingStep, HeardStep
<1>. QED  BY <1>1, <1>2, PTL DEF HarnessSpec

\* "A voice asked once per origin and horizon, however many listen" (_Once):
\* the key has no window and no panel, and yet whatever panel is walked, with
\* whatever voices, what anybody hears is of the call he is in.
THEOREM HearsItsOwnCall == HarnessSpec => []HeardIsOwn
<1>1. Walking /\ Heard => HeardIsOwn
  <2>. SUFFICES ASSUME Walking, Heard PROVE HeardIsOwn
    OBVIOUS
  <2>1. Read.window = WindowOf(Read.of)
    BY ReadFacts DEF Walking
  <2>2. \A a : Rightly(a, Read.of, t, Read.h) => Own(a)
    BY <2>1 DEF Rightly, Own, Y
  <2>. QED  BY <2>2 DEF Heard, Hearing, Says, HeardIsOwn
<1>. QED  BY <1>1, HeardAlways, PTL

-----------------------------------------------------------------------------
(* What is kept. *)

Calling(c) == c.of \in Kinds /\ c.h \in Nat \ {0} /\ c.h <= Stride /\ c.t \in FirstOrigin .. t

\* An answer that waits for its month, and a PIT, are of one panel.
Awaits(p) ==
    /\ p.h \in Nat \ {0} /\ p.t \in FirstOrigin .. t
    /\ \E of \in Kinds : p.panel = KeyAt(of, p.t) /\ p.answer.y = Cut(of, p.t)

Counts(p) ==
    /\ p.h \in Nat \ {0} /\ p.t \in FirstOrigin .. t
    /\ p.at \in Nat /\ p.t + p.h <= p.at /\ p.at <= t
    /\ \E of \in Kinds : p.y = Cut(of, p.t) /\ p.actual = Column(of, p.t + p.h)

Keeping ==
    /\ pending = [v \in Names |-> pending[v]] /\ pits = [v \in Names |-> pits[v]] /\ called = [v \in Names |-> called[v]]
    /\ \A v \in Names :
          /\ \A c \in called[v] : Calling(c)
          /\ \A p \in pending[v] : Awaits(p)
          /\ \A p \in pits[v] : Counts(p)

LEMMA WalkStays ==
    ASSUME UNCHANGED walked
    PROVE  UNCHANGED <<total, Stride, FirstScored, BurnEnd, FirstOrigin>>
BY DEF walked, total, Stride, FirstScored, BurnEnd, FirstOrigin

\* Time makes none of it false.
LEMMA KeptLater ==
    ASSUME Walking, UNCHANGED walked, t' \in Nat, t' >= t
    PROVE  /\ \A c : Calling(c) => Calling(c)'
           /\ \A p : Awaits(p) => Awaits(p)'
           /\ \A p : Counts(p) => Counts(p)'
<1>1. UNCHANGED <<Stride, FirstOrigin>> /\ FirstOrigin \in Int /\ t \in Nat
  BY WalkStays, PlanFacts, TheOrigin DEF Walking, FirstOrigin
<1>2. \A n : n \in FirstOrigin .. t => n \in FirstOrigin .. t'
  BY <1>1
<1>3. \A of, n : UNCHANGED <<Cut(of, n), KeyAt(of, n), Column(of, n)>>
  BY PanelStays
<1>4. \A c : Calling(c) => Calling(c)'
  BY <1>1, <1>2 DEF Calling
<1>5. \A p : Awaits(p) => Awaits(p)'
  BY <1>1, <1>2, <1>3 DEF Awaits
<1>6. \A p : Counts(p) => Counts(p)'
  BY <1>1, <1>2, <1>3 DEF Counts
<1>. QED  BY <1>4, <1>5, <1>6

\* What a calibrated voice does when asked, in the panel's own terms.
LEMMA RecalibrateIs ==
    ASSUME Walking, Heard, Keeping, NEW v \in Names, Recalibrate(v)
    PROVE  LET new == [panel |-> PanelKey, h |-> Read.h, t |-> t, answer |-> said[Made[v].inner[1]]]
               call == [of |-> Read.of, h |-> Read.h, t |-> t]
           IN  /\ UNCHANGED <<walked, stage, t, turn>>
               /\ pits' = [u \in Names |-> IF u = v THEN pits[v] \union {Pit(p) : p \in Landed(v)} ELSE pits[u]]
               /\ pending' = [u \in Names |-> IF u = v THEN {p \in pending[v] \ Landed(v) : <<p.panel, p.h, p.t>> # <<PanelKey, Read.h, t>>} \union {new}
                                             ELSE pending[u]]
               /\ called' = [u \in Names |-> IF u = v THEN called[v] \union {call} ELSE called[u]]
               /\ new.panel = KeyAt(Read.of, t) /\ new.answer.y = Cut(Read.of, t)
               /\ Read.of \in Kinds /\ Read.h \in Nat \ {0} /\ Read.h <= Stride
<1>. DEFINE raw == said[Made[v].inner[1]]
            new == [panel |-> PanelKey, h |-> Read.h, t |-> t, answer |-> raw]
<1>1. v \in Calibrated /\ Unsaid(v) = {} /\ UNCHANGED <<walked, stage, t, turn>>
  BY DEF Recalibrate, Ready
<1>2. raw.y = Cut(Read.of, t)
  <2>1. 1 \in DOMAIN Made[v].inner
    BY <1>1, HarnessAssumption DEF build
  <2>. QED  BY <1>1, <2>1, InnerIsRight DEF Heard, Rightly
<1>3. PanelKey = KeyAt(Read.of, t)
  BY TheOrigin, PanelKeyIs
<1>4. pits' = [pits EXCEPT ![v] = @ \union {Pit(p) : p \in Landed(v)}]
  BY DEF Recalibrate
<1>5. pending' = [pending EXCEPT ![v] = {p \in @ \ Landed(v) : <<p.panel, p.h, p.t>> # <<PanelKey, Read.h, t>>} \union {new}]
  BY DEF Recalibrate
<1>6. called' = [called EXCEPT ![v] = @ \union {[of |-> Read.of, h |-> Read.h, t |-> t]}]
  BY DEF Recalibrate
<1>7. Read.of \in Kinds /\ Read.h \in Nat \ {0} /\ Read.h <= Stride
  BY ReadFacts DEF Walking
<1>. QED  BY <1>1, <1>2, <1>3, <1>4, <1>5, <1>6, <1>7 DEF Keeping

\* A PIT is taken of the panel its answer was about.
LEMMA PitIsOfItsPanel ==
    ASSUME Walking, NEW v \in Names, NEW p \in Landed(v), Awaits(p)
    PROVE  /\ Counts(Pit(p)) /\ Pit(p).h = p.h /\ Pit(p).t = p.t /\ Pit(p).y = p.answer.y /\ p.t + p.h <= t
<1>1. p.panel = KeyAt(Read.of, t) /\ p.t + p.h <= t
  BY TheOrigin, PanelKeyIs DEF Landed
<1>2. PICK of \in Kinds : p.panel = KeyAt(of, p.t) /\ p.answer.y = Cut(of, p.t)
  BY DEF Awaits
<1>3. p.t \in 1 .. total /\ t \in 1 .. total /\ t \in Nat
  BY TheOrigin, PlanFacts DEF Awaits, Walking, FirstOrigin
<1>4. Panel(of) = Panel(Read.of)
  <2>1. y \in Tables /\ plan \in Walks /\ Read.of \in Kinds
    BY ReadFacts DEF Walking
  <2>2. KeyAt(of, p.t) = KeyAt(Read.of, t)
    BY <1>1, <1>2
  <2>. QED  BY <1>3, <2>1, <2>2, KeysTellPanels
<1>5. Pit(p).actual = Column(of, p.t + p.h)
  BY <1>4 DEF Pit, Column
<1>6. Pit(p).h = p.h /\ Pit(p).t = p.t /\ Pit(p).at = t /\ Pit(p).y = p.answer.y
  BY DEF Pit
<1>. QED  BY <1>1, <1>2, <1>3, <1>5, <1>6 DEF Counts, Awaits

LEMMA KeepingRecalibrate ==
    ASSUME Walking, Heard, Keeping, NEW v \in Names, Recalibrate(v)
    PROVE  Keeping'
<1>. DEFINE new == [panel |-> PanelKey, h |-> Read.h, t |-> t, answer |-> said[Made[v].inner[1]]]
            call == [of |-> Read.of, h |-> Read.h, t |-> t]
<1>1. /\ UNCHANGED <<walked, stage, t, turn>>
      /\ pits' = [u \in Names |-> IF u = v THEN pits[v] \union {Pit(p) : p \in Landed(v)} ELSE pits[u]]
      /\ pending' = [u \in Names |-> IF u = v THEN {p \in pending[v] \ Landed(v) : <<p.panel, p.h, p.t>> # <<PanelKey, Read.h, t>>} \union {new}
                                    ELSE pending[u]]
      /\ called' = [u \in Names |-> IF u = v THEN called[v] \union {call} ELSE called[u]]
      /\ new.panel = KeyAt(Read.of, t) /\ new.answer.y = Cut(Read.of, t)
      /\ Read.of \in Kinds /\ Read.h \in Nat \ {0} /\ Read.h <= Stride
  BY RecalibrateIs
<1>2. t \in FirstOrigin .. t /\ new.h = Read.h /\ new.t = t
  BY TheOrigin, PlanFacts DEF Walking, FirstOrigin
<1>3. Awaits(new)
  BY <1>1, <1>2 DEF Awaits
<1>4. Calling(call)
  BY <1>1, <1>2 DEF Calling
<1>5. \A p \in Landed(v) : p \in pending[v]
  BY DEF Landed
<1>. HIDE DEF new, call
<1>6. ASSUME NEW u \in Names
      PROVE  /\ \A c \in called'[u] : Calling(c)
             /\ \A p \in pending'[u] : Awaits(p)
             /\ \A p \in pits'[u] : Counts(p)
  <2>1. \A c \in called'[u] : Calling(c)
    BY <1>1, <1>4 DEF Keeping
  <2>2. \A p \in pending'[u] : Awaits(p)
    BY <1>1, <1>3 DEF Keeping
  <2>3. \A p \in pits'[u] : Counts(p)
    BY <1>1, <1>5, PitIsOfItsPanel DEF Keeping
  <2>. QED  BY <2>1, <2>2, <2>3
<1>7. pending' = [u \in Names |-> pending'[u]] /\ pits' = [u \in Names |-> pits'[u]] /\ called' = [u \in Names |-> called'[u]]
  BY <1>1
<1>8. t' \in Nat /\ t' >= t
  BY <1>1, TheOrigin
<1>9. (\A u \in Names : /\ \A c \in called[u] : Calling(c)
                        /\ \A p \in pending[u] : Awaits(p)
                        /\ \A p \in pits[u] : Counts(p))'
  <2>1. UNCHANGED walked
    BY <1>1
  <2>. QED  BY <1>6, <1>8, <2>1, KeptLater
<1>. QED  BY <1>7, <1>9 DEF Keeping

LEMMA KeepingStays ==
    ASSUME Walking, Keeping, UNCHANGED <<walked, pending, pits, called>>, t' \in Nat, t' >= t
    PROVE  Keeping'
<1>1. UNCHANGED <<pending, pits, called>> /\ UNCHANGED walked
  OBVIOUS
<1>. QED  BY <1>1, KeptLater DEF Keeping

\* The other actions leave the records alone.
LEMMA OnlyRecalibrateKeeps ==
    ASSUME [Next]_vars, Walking
    PROVE  \/ \E v \in Names : Recalibrate(v)
           \/ UNCHANGED <<walked, pending, pits, called>> /\ t' \in Nat /\ t' >= t
<1>1. t \in Nat /\ (UNCHANGED t => t' \in Nat /\ t' >= t)
  BY TheOrigin
<1>2. CASE UNCHANGED vars
  BY <1>1, <1>2 DEF vars, records
<1>3. CASE Ask \/ FindAnswer \/ AskInner \/ Finished
  BY <1>1, <1>3 DEF Ask, FindAnswer, AskInner, Finished, vars, records
<1>4. CASE NextRead
  BY <1>4, WalkingNextRead DEF NextRead, records
<1>5. CASE \E v \in Names : Speak(v)
  BY <1>1, <1>5 DEF Speak
<1>. QED  BY <1>2, <1>3, <1>4, <1>5 DEF Next

LEMMA KeepingStep == Walking /\ Heard /\ Keeping /\ [Next]_vars => Keeping'
BY OnlyRecalibrateKeeps, KeepingRecalibrate, KeepingStays

LEMMA KeepingInit == Init => Keeping
<1>. SUFFICES ASSUME Init PROVE Keeping
  OBVIOUS
<1>1. pending = [v \in Names |-> {}] /\ pits = [v \in Names |-> {}] /\ called = [v \in Names |-> {}]
  BY DEF Init
<1>. QED  BY <1>1 DEF Keeping

LEMMA KeepingAlways == HarnessSpec => [](Walking /\ Heard /\ Keeping)
<1>1. Init => Keeping
  BY KeepingInit
<1>2. Walking /\ Heard /\ Keeping /\ [Next]_vars => Keeping'
  BY KeepingStep
<1>. QED  BY <1>1, <1>2, HeardAlways, PTL DEF HarnessSpec

\* "Point in time by construction: an origin's PITs come only from months
\* already in the `y` it was handed" (Calibrated), for every panel and walk,
\* and of the months or of their sums, whichever the answer was about.
THEOREM RecordsArePointInTime == HarnessSpec => []RecordIsPointInTime
<1>1. Walking /\ Keeping => RecordIsPointInTime
  <2>. SUFFICES ASSUME Walking, Keeping PROVE RecordIsPointInTime
    OBVIOUS
  <2>1. \A v \in Calibrated : v \in Names
    BY DEF Calibrated
  <2>. QED  BY <2>1 DEF Keeping, Counts, RecordIsPointInTime, Kinds
<1>. QED  BY <1>1, KeepingAlways, PTL

-----------------------------------------------------------------------------
(* The burn. *)

\* Earlier calls, the furthest too, have landed at a scored origin.
Burnt ==
    stage = "scored" => \A v \in Names : \A c \in called[v] : c.t < t => c.t + Stride <= t

LEMMA BurntNextOrigin ==
    ASSUME Walking, Keeping, Burnt, NextOrigin, UNCHANGED <<walked, called>>
    PROVE  Burnt'
<1>1. UNCHANGED <<Stride, called, FirstScored>> /\ Stride \in Nat \ {0} /\ t \in Nat /\ FirstScored \in Int /\ BurnEnd = FirstScored - Stride
  BY WalkStays, PlanFacts, TheOrigin DEF Walking
<1>2. \A v \in Names : \A c \in called[v] : c.t \in Int /\ c.t <= t
  <2>1. FirstOrigin \in Int
    BY PlanFacts DEF Walking, FirstOrigin
  <2>. QED  BY <1>1, <2>1 DEF Keeping, Calling
<1>3. CASE stage = "burn" /\ t >= BurnEnd /\ t' = FirstScored
  <2>1. t + Stride <= t'
    BY <1>1, <1>3 DEF Walking
  <2>2. \A v \in Names : \A c \in called[v] : c.t + Stride <= t'
    BY <1>1, <1>2, <1>3, <2>1
  <2>. QED  BY <1>1, <2>2 DEF Burnt
<1>4. CASE stage = "scored" /\ t' = t + Stride
  <2>2. \A v \in Names : \A c \in called[v] : c.t + Stride <= t'
    BY <1>1, <1>2, <1>4
  <2>. QED  BY <1>1, <2>2 DEF Burnt
<1>5. CASE stage' # "scored"
  BY <1>5 DEF Burnt
<1>. QED  BY <1>3, <1>4, <1>5 DEF NextOrigin

LEMMA BurntStep == Walking /\ Heard /\ Keeping /\ Burnt /\ [Next]_vars => Burnt'
<1>. SUFFICES ASSUME Walking, Heard, Keeping, Burnt, [Next]_vars PROVE Burnt'
  OBVIOUS
<1>1. CASE \E v \in Names : Recalibrate(v)
  <2>. PICK v \in Names : Recalibrate(v)
    BY <1>1
  <2>1. /\ UNCHANGED <<walked, stage, t>>
        /\ called' = [u \in Names |-> IF u = v THEN called[v] \union {[of |-> Read.of, h |-> Read.h, t |-> t]} ELSE called[u]]
    BY RecalibrateIs
  <2>2. \A u \in Names : \A c \in called'[u] : c \in called[u] \/ c.t = t
    BY <2>1
  <2>3. UNCHANGED Stride /\ t \in Nat
    BY <2>1, WalkStays, TheOrigin
  <2>. QED  BY <2>1, <2>2, <2>3 DEF Burnt
<1>2. CASE UNCHANGED <<walked, stage, t, called>>
  <2>1. UNCHANGED Stride
    BY <1>2, WalkStays
  <2>. QED  BY <1>2, <2>1 DEF Burnt
<1>3. CASE NextRead
  <2>1. UNCHANGED <<walked, called>>
    BY <1>3 DEF NextRead, records
  <2>2. UNCHANGED <<stage, t>> \/ NextOrigin
    BY <1>3 DEF NextRead
  <2>. QED  BY <1>2, <2>1, <2>2, BurntNextOrigin
<1>. QED
  BY <1>1, <1>2, <1>3 DEF Next, vars, records, Ask, FindAnswer, AskInner, Speak, Finished

\* "The last of them early enough that its furthest call has landed by the
\* first scored origin" (score.project), whatever the horizon and the burn.
THEOREM TheBurnHasLanded == HarnessSpec => []BurnHasLanded
<1>1. Init => Burnt
  <2>1. Init => called = [v \in Names |-> {}]
    BY DEF Init
  <2>. QED  BY <2>1 DEF Burnt
<1>2. Walking /\ Heard /\ Keeping /\ Burnt /\ [Next]_vars => Burnt'
  BY BurntStep
<1>3. Walking /\ Keeping /\ Burnt => BurnHasLanded
  <2>. SUFFICES ASSUME Walking, Keeping, Burnt, stage = "scored",
                       NEW v \in Calibrated, NEW c \in called[v], c.t < t
                PROVE  c.t + c.h <= t
    BY DEF BurnHasLanded
  <2>1. v \in Names /\ FirstOrigin \in Int /\ t \in Nat /\ Stride \in Nat
    BY PlanFacts, TheOrigin DEF Calibrated, Walking, FirstOrigin
  <2>2. c.h \in Nat /\ c.h <= Stride /\ c.t \in Int
    BY <2>1 DEF Keeping, Calling
  <2>3. c.t + Stride <= t
    BY <2>1 DEF Burnt
  <2>. QED  BY <2>1, <2>2, <2>3
<1>. QED  BY <1>1, <1>2, <1>3, KeepingAlways, PTL DEF HarnessSpec

-----------------------------------------------------------------------------
(* Nothing is lost, where the walk begins past the months a panel is known  *)
(* by: its key is then one at every origin.                                *)

Enough == KeyMonths <= FirstOrigin

\* The month `c` called is known to one who was asked of its panel.
Came(v, c) == \E d \in called[v] : Panel(d.of) = Panel(c.of) /\ d.t >= c.t + c.h

\* The same call: of an answer that waits, of a PIT, of what was asked.
Alike(p, py, q, qy) == p.h = q.h /\ p.t = q.t /\ py = qy

\* Every call is in one place: with those that wait until it has come, then
\* in the record.
Filed(v) ==
    /\ \A p, q \in pits[v] : Alike(p, p.y, q, q.y) => p = q
    /\ \A p, q \in pending[v] : Alike(p, p.answer.y, q, q.answer.y) => p = q
    /\ \A p \in pending[v], q \in pits[v] : ~Alike(p, p.answer.y, q, q.y)
    /\ \A c \in called[v] :
          \/ Came(v, c) /\ \E p \in pits[v] : Alike(p, p.y, c, Cut(c.of, c.t))
          \/ ~Came(v, c) /\ \E p \in pending[v] : Alike(p, p.answer.y, c, Cut(c.of, c.t))

Lossless == Enough => \A v \in Names : Filed(v)

LEMMA OneKey ==
    ASSUME Walking, Enough, NEW m \in FirstOrigin .. t, NEW n \in FirstOrigin .. t, NEW of
    PROVE  KeyAt(of, m) = KeyAt(of, n)
<1>a. y \in Tables /\ plan \in Walks
  BY DEF Walking
<1>b. FirstOrigin \in Int
  <2>1. FirstScored \in Int /\ BurnEnd \in Int /\ plan.burn \in Nat
    BY <1>a, PlanFacts
  <2>. QED  BY <2>1 DEF FirstOrigin
<1>c. t \in Nat
  BY TheOrigin
<1>d. KeyMonths \in Nat
  BY HarnessAssumption
<1>1. FirstOrigin \in Int /\ t \in Nat /\ KeyMonths \in Nat
  BY <1>b, <1>c, <1>d
<1>2. ~(m < KeyMonths) /\ ~(n < KeyMonths)
  BY <1>1 DEF Enough
<1>. QED  BY <1>2 DEF KeyAt

\* Two answers are filed together when they are of one panel.
LEMMA OneFile ==
    ASSUME Walking, Enough, NEW m \in FirstOrigin .. t, NEW n \in FirstOrigin .. t,
           NEW of \in Kinds, NEW as \in Kinds
    PROVE  /\ KeyAt(of, m) = KeyAt(as, n) <=> Panel(of) = Panel(as)
           /\ Cut(of, m) = Cut(as, m) <=> Panel(of) = Panel(as)
<1>1. y \in Tables /\ plan \in Walks /\ m \in 1 .. total /\ n \in 1 .. total
  <2>1. FirstOrigin \in Int /\ FirstOrigin >= 1 /\ t \in Nat /\ t <= total /\ total \in Nat
    BY PlanFacts, TheOrigin DEF Walking, FirstOrigin
  <2>. QED  BY <2>1 DEF Walking
<1>2. KeyAt(of, m) = KeyAt(as, n) => Panel(of) = Panel(as)
  <2>1. \A i, j : i \in 1 .. total /\ j \in 1 .. total /\ KeyAt(of, i) = KeyAt(as, j) => Panel(of) = Panel(as)
    BY <1>1, KeysTellPanels
  <2>. QED  BY <1>1, <2>1
<1>3. Cut(of, m) = Cut(as, m) => Panel(of) = Panel(as)
  <2>1. y \in Tables /\ plan \in Walks /\ m \in 1 .. total
    BY <1>1
  <2>. QED  BY <2>1, CutsTellPanels
<1>4. Panel(of) = Panel(as) => KeyAt(of, n) = KeyAt(as, n) /\ Cut(of, m) = Cut(as, m)
  BY SamePanel
<1>5. KeyAt(of, m) = KeyAt(of, n)
  BY OneKey
<1>. QED  BY <1>2, <1>3, <1>4, <1>5

\* A waiting answer, its panel named.
LEMMA WaitsFor ==
    ASSUME Walking, Enough, Keeping, NEW v \in Names, NEW p \in pending[v]
    PROVE  \E of \in Kinds :
              /\ p.h \in Nat \ {0} /\ p.t \in FirstOrigin .. t /\ p.answer.y = Cut(of, p.t)
              /\ p.panel = KeyAt(of, p.t)
              /\ \A as \in Kinds : /\ p.panel = KeyAt(as, t) <=> Panel(of) = Panel(as)
                                   /\ p.answer.y = Cut(as, p.t) <=> Panel(of) = Panel(as)
<1>1. PICK of \in Kinds : p.panel = KeyAt(of, p.t) /\ p.answer.y = Cut(of, p.t)
  BY DEF Keeping, Awaits
<1>2. p.h \in Nat \ {0} /\ p.t \in FirstOrigin .. t /\ t \in FirstOrigin .. t
  BY PlanFacts, TheOrigin DEF Keeping, Awaits, Walking, FirstOrigin
<1>3. \A as \in Kinds : /\ KeyAt(of, p.t) = KeyAt(as, t) <=> Panel(of) = Panel(as)
                        /\ Cut(of, p.t) = Cut(as, p.t) <=> Panel(of) = Panel(as)
  BY <1>2, OneFile
<1>. QED  BY <1>1, <1>2, <1>3

LEMMA FiledRecalibrate ==
    ASSUME Walking, Heard, Keeping, Enough, NEW v \in Names, Recalibrate(v), Filed(v)
    PROVE  Filed(v)'
<1>. DEFINE new == [panel |-> PanelKey, h |-> Read.h, t |-> t, answer |-> said[Made[v].inner[1]]]
            call == [of |-> Read.of, h |-> Read.h, t |-> t]
            stays(p) == p \in pending[v] /\ p \notin Landed(v) /\ <<p.panel, p.h, p.t>> # <<PanelKey, Read.h, t>>
<1>1. /\ UNCHANGED <<walked, t>>
      /\ pits'[v] = pits[v] \union {Pit(p) : p \in Landed(v)}
      /\ \A p : p \in pending'[v] <=> stays(p) \/ p = new
      /\ called'[v] = called[v] \union {call}
  BY RecalibrateIs
<1>2. /\ PanelKey = KeyAt(Read.of, t) /\ new.panel = KeyAt(Read.of, t) /\ new.answer.y = Cut(Read.of, t) /\ new.h = Read.h /\ new.t = t
      /\ Read.of \in Kinds /\ Read.h \in Nat \ {0}
      /\ call.of = Read.of /\ call.h = Read.h /\ call.t = t
  BY RecalibrateIs, TheOrigin, PanelKeyIs
<1>. HIDE DEF new, call
<1>3. t \in Nat /\ FirstOrigin \in Int
  BY PlanFacts, TheOrigin DEF Walking, FirstOrigin
<1>4. \A p \in pits[v] : p.h \in Nat \ {0} /\ p.t \in Int /\ p.t + p.h <= t
  BY <1>3 DEF Keeping, Counts
<1>5. \A p \in pending[v] : \E of \in Kinds :
          /\ p.h \in Nat \ {0} /\ p.t \in FirstOrigin .. t /\ p.answer.y = Cut(of, p.t) /\ p.panel = KeyAt(of, p.t)
          /\ \A as \in Kinds : /\ p.panel = KeyAt(as, t) <=> Panel(of) = Panel(as)
                               /\ p.answer.y = Cut(as, p.t) <=> Panel(of) = Panel(as)
  BY WaitsFor
<1>6. \A p \in Landed(v) : /\ p \in pending[v] /\ Pit(p) \in pits'[v] /\ Pit(p).h = p.h /\ Pit(p).t = p.t /\ Pit(p).y = p.answer.y
                           /\ p.panel = KeyAt(Read.of, t) /\ p.t + p.h <= t
  <2>1. \A p \in Landed(v) : p \in pending[v] /\ p.panel = PanelKey
    BY DEF Landed
  <2>2. \A p \in Landed(v) : Pit(p).h = p.h /\ Pit(p).t = p.t /\ Pit(p).y = p.answer.y /\ p.t + p.h <= t
    BY <2>1, PitIsOfItsPanel DEF Keeping
  <2>. QED  BY <1>1, <1>2, <2>1, <2>2
<1>7. \A q \in pits'[v] : q.h \in Nat \ {0} /\ q.t \in Int /\ q.t + q.h <= t
                         /\ (q \in pits[v] \/ \E r \in Landed(v) : q = Pit(r))
  BY <1>1, <1>3, <1>4, <1>5, <1>6
<1>8. \A p, q \in pits'[v] : Alike(p, p.y, q, q.y) => p = q
  <2>. SUFFICES ASSUME NEW p \in pits'[v], NEW q \in pits'[v], Alike(p, p.y, q, q.y) PROVE p = q
    OBVIOUS
  <2>1. CASE p \in pits[v] /\ q \in pits[v]
    BY <2>1 DEF Filed
  <2>2. ASSUME NEW a \in pits[v], NEW r \in Landed(v) PROVE ~Alike(a, a.y, Pit(r), Pit(r).y) /\ ~Alike(Pit(r), Pit(r).y, a, a.y)
    BY <1>6 DEF Filed, Alike
  <2>3. ASSUME NEW r \in Landed(v), NEW r2 \in Landed(v), p = Pit(r), q = Pit(r2) PROVE p = q
    <3>1. Alike(r, r.answer.y, r2, r2.answer.y)
      BY <1>6, <2>3 DEF Alike
    <3>2. r = r2
      BY <1>6, <3>1 DEF Filed
    <3>. QED  BY <2>3, <3>2
  <2>. QED  BY <1>7, <2>1, <2>2, <2>3
<1>9. \A p \in pending[v] : stays(p) => ~Alike(p, p.answer.y, new, new.answer.y)
  <2>. SUFFICES ASSUME NEW p \in pending[v], stays(p), Alike(p, p.answer.y, new, new.answer.y) PROVE FALSE
    OBVIOUS
  <2>1. p.h = Read.h /\ p.t = t /\ p.answer.y = Cut(Read.of, p.t)
    BY <1>2 DEF Alike
  <2>2. p.panel = KeyAt(Read.of, t)
    BY <1>2, <1>5, <2>1
  <2>. QED  BY <1>2, <2>1, <2>2
<1>10. \A p, q \in pending'[v] : Alike(p, p.answer.y, q, q.answer.y) => p = q
  <2>. SUFFICES ASSUME NEW p \in pending'[v], NEW q \in pending'[v], Alike(p, p.answer.y, q, q.answer.y) PROVE p = q
    OBVIOUS
  <2>1. Alike(q, q.answer.y, p, p.answer.y)
    BY DEF Alike
  <2>. QED  BY <1>1, <1>9, <2>1 DEF Filed
<1>11. \A p \in pending'[v], q \in pits'[v] : ~Alike(p, p.answer.y, q, q.y)
  <2>. SUFFICES ASSUME NEW p \in pending'[v], NEW q \in pits'[v], Alike(p, p.answer.y, q, q.y) PROVE FALSE
    OBVIOUS
  <2>1. CASE p = new
    BY <1>2, <1>3, <1>7, <2>1 DEF Alike
  <2>2. CASE stays(p) /\ q \in pits[v]
    BY <2>2 DEF Filed
  <2>3. ASSUME stays(p), NEW r \in Landed(v), q = Pit(r) PROVE FALSE
    <3>1. Alike(p, p.answer.y, r, r.answer.y) /\ r \in pending[v] /\ p \in pending[v]
      BY <1>6, <2>3 DEF Alike
    <3>2. p = r
      BY <3>1 DEF Filed
    <3>. QED  BY <2>3, <3>2
  <2>. QED  BY <1>1, <1>7, <2>1, <2>2, <2>3
<1>12. \A of, n : UNCHANGED <<Panel(of), Cut(of, n)>>
  BY <1>1, PanelStays
<1>13. ASSUME NEW c \in called'[v]
       PROVE  \/ Came(v, c)' /\ \E p \in pits'[v] : Alike(p, p.y, c, Cut(c.of, c.t))
              \/ ~Came(v, c)' /\ \E p \in pending'[v] : Alike(p, p.answer.y, c, Cut(c.of, c.t))
  <2>1. Came(v, c)' <=> \E d \in called[v] \union {call} : Panel(d.of) = Panel(c.of) /\ d.t >= c.t + c.h
    BY <1>1, <1>12 DEF Came
  <2>2. \A d \in called[v] \union {call} : d.t \in Int /\ d.t <= t /\ d.h \in Nat \ {0} /\ d.of \in Kinds
    BY <1>2, <1>3 DEF Keeping, Calling
  <2>3. CASE c = call
    <3>1. ~Came(v, c)'
      BY <1>2, <1>3, <2>1, <2>2, <2>3
    <3>2. new \in pending'[v] /\ Alike(new, new.answer.y, c, Cut(c.of, c.t))
      BY <1>1, <1>2, <2>3 DEF Alike
    <3>. QED  BY <3>1, <3>2
  <2>4. CASE c \in called[v] /\ Came(v, c)
    <3>1. Came(v, c)'
      BY <2>1, <2>4 DEF Came
    <3>2. \E p \in pits[v] : Alike(p, p.y, c, Cut(c.of, c.t))
      BY <2>4 DEF Filed
    <3>. QED  BY <1>1, <3>1, <3>2
  <2>5. CASE c \in called[v] /\ ~Came(v, c)
    <3>1. PICK p \in pending[v] : Alike(p, p.answer.y, c, Cut(c.of, c.t))
      BY <2>5 DEF Filed
    <3>2. PICK of \in Kinds :
              /\ p.h \in Nat \ {0} /\ p.t \in FirstOrigin .. t /\ p.answer.y = Cut(of, p.t) /\ p.panel = KeyAt(of, p.t)
              /\ \A as \in Kinds : /\ p.panel = KeyAt(as, t) <=> Panel(of) = Panel(as)
                                   /\ p.answer.y = Cut(as, p.t) <=> Panel(of) = Panel(as)
      BY <1>5
    <3>3. p.h = c.h /\ p.t = c.t /\ p.answer.y = Cut(c.of, p.t) /\ c.of \in Kinds
      BY <2>2, <2>5, <3>1 DEF Alike
    <3>4. Panel(of) = Panel(c.of)
      BY <3>2, <3>3
    <3>5. p.panel = KeyAt(Read.of, t) <=> Panel(Read.of) = Panel(c.of)
      BY <1>2, <3>2, <3>4
    <3>6. Came(v, c)' <=> Panel(Read.of) = Panel(c.of) /\ t >= c.t + c.h
      BY <1>2, <2>1, <2>5 DEF Came
    <3>7. CASE p \in Landed(v)
      <4>1. Came(v, c)'
        BY <1>3, <1>6, <2>2, <2>5, <3>3, <3>5, <3>6, <3>7
      <4>2. Pit(p) \in pits'[v] /\ Alike(Pit(p), Pit(p).y, c, Cut(c.of, c.t))
        BY <1>6, <3>1, <3>7 DEF Alike
      <4>. QED  BY <4>1, <4>2
    <3>8. CASE p \notin Landed(v)
      <4>1. ~(p.panel = PanelKey /\ p.t + p.h <= t)
        BY <3>8 DEF Landed
      <4>2. ~Came(v, c)'
        BY <1>2, <1>3, <2>2, <2>5, <3>3, <3>5, <3>6, <4>1
      <4>3. CASE stays(p)
        BY <1>1, <3>1, <4>2, <4>3
      <4>4. CASE ~stays(p)
        <5>1. p.panel = KeyAt(Read.of, t) /\ p.h = Read.h /\ p.t = t
          BY <1>2, <3>8, <4>4
        <5>2. Cut(Read.of, t) = Cut(c.of, t)
          BY <3>5, <5>1, SamePanel
        <5>3. Alike(new, new.answer.y, c, Cut(c.of, c.t)) /\ new \in pending'[v]
          BY <1>1, <1>2, <3>3, <5>1, <5>2 DEF Alike
        <5>. QED  BY <4>2, <5>3
      <4>. QED  BY <4>3, <4>4
    <3>. QED  BY <3>7, <3>8
  <2>. QED  BY <1>1, <2>3, <2>4, <2>5
<1>14. (\A c \in called[v] :
          \/ Came(v, c) /\ \E p \in pits[v] : Alike(p, p.y, c, Cut(c.of, c.t))
          \/ ~Came(v, c) /\ \E p \in pending[v] : Alike(p, p.answer.y, c, Cut(c.of, c.t)))'
  BY <1>12, <1>13 DEF Alike
<1>. QED  BY <1>8, <1>10, <1>11, <1>14 DEF Filed, Alike

\* Time alone does not move a call.
LEMMA FiledStays ==
    ASSUME UNCHANGED walked, NEW v \in Names, UNCHANGED <<pending[v], pits[v], called[v]>>, Filed(v)
    PROVE  Filed(v)'
<1>1. \A of, n : UNCHANGED <<Panel(of), Cut(of, n)>>
  BY PanelStays
<1>2. pending'[v] = pending[v] /\ pits'[v] = pits[v] /\ called'[v] = called[v]
  OBVIOUS
<1>. QED  BY <1>1, <1>2 DEF Filed, Came, Alike

LEMMA LosslessStep == Walking /\ Heard /\ Keeping /\ Lossless /\ [Next]_vars => Lossless'
<1>. SUFFICES ASSUME Walking, Heard, Keeping, Lossless, [Next]_vars, Enough', NEW u \in Names
              PROVE  Filed(u)'
  BY DEF Lossless
<1>1. CASE \E v \in Names : Recalibrate(v)
  <2>. PICK v \in Names : Recalibrate(v)
    BY <1>1
  <2>1. UNCHANGED walked
    BY RecalibrateIs
  <2>2. Enough
    BY <2>1, WalkStays DEF Enough
  <2>3. CASE u = v
    BY <2>2, <2>3, FiledRecalibrate DEF Lossless
  <2>4. CASE u # v
    <3>1. UNCHANGED <<pending[u], pits[u], called[u]>>
      BY <2>4, RecalibrateIs
    <3>. QED  BY <2>1, <2>2, <3>1, FiledStays DEF Lossless
  <2>. QED  BY <2>3, <2>4
<1>2. CASE UNCHANGED <<walked, pending, pits, called>>
  <2>1. Enough
    BY <1>2, WalkStays DEF Enough
  <2>2. UNCHANGED walked /\ UNCHANGED <<pending[u], pits[u], called[u]>>
    BY <1>2
  <2>. QED  BY <2>1, <2>2, FiledStays DEF Lossless
<1>. QED  BY <1>1, <1>2, OnlyRecalibrateKeeps

LEMMA FiledIsThere ==
    ASSUME Keeping, NEW v \in Names, Filed(v), NEW c \in called[v]
    PROVE  Cardinality({p \in pits[v] : p.h = c.h /\ p.t = c.t /\ p.y = Cut(c.of, c.t)}) = IF Came(v, c) THEN 1 ELSE 0
<1>. DEFINE S == {p \in pits[v] : p.h = c.h /\ p.t = c.t /\ p.y = Cut(c.of, c.t)}
<1>1. CASE Came(v, c)
  <2>1. PICK p \in pits[v] : Alike(p, p.y, c, Cut(c.of, c.t))
    BY <1>1 DEF Filed
  <2>2. \A q \in S : q = p
    BY <2>1 DEF Filed, Alike
  <2>3. p \in S
    BY <2>1 DEF Alike
  <2>4. S = {p}
    BY <2>2, <2>3
  <2>. HIDE DEF S
  <2>5. Cardinality(S) = 1
    BY <2>4, FS_Singleton
  <2>. QED  BY <1>1, <2>5 DEF S
<1>2. CASE ~Came(v, c)
  <2>1. PICK p \in pending[v] : Alike(p, p.answer.y, c, Cut(c.of, c.t))
    BY <1>2 DEF Filed
  <2>2. ASSUME NEW q \in S PROVE FALSE
    <3>1. q \in pits[v] /\ Alike(p, p.answer.y, q, q.y)
      BY <2>1 DEF Alike
    <3>. QED  BY <3>1 DEF Filed
  <2>3. S = {}
    BY <2>2
  <2>. HIDE DEF S
  <2>4. Cardinality(S) = 0
    BY <2>3, FS_EmptySet
  <2>. QED  BY <1>2, <2>4 DEF S
<1>. QED  BY <1>1, <1>2

\* "Each answer is kept; once the month it called has landed, the PIT joins
\* the voice's history" (Calibrated): so it does, once, whatever the panel,
\* the walk and the voices, when no origin is before the month that a panel's
\* key ends with.
THEOREM NothingIsLostFromThere == HarnessSpec => [](KeyMonths <= FirstOrigin => NothingIsLost)
<1>1. Init => Lossless
  <2>1. Init => pending = [v \in Names |-> {}] /\ pits = [v \in Names |-> {}] /\ called = [v \in Names |-> {}]
    BY DEF Init
  <2>. QED  BY <2>1 DEF Lossless, Filed
<1>2. Walking /\ Heard /\ Keeping /\ Lossless /\ [Next]_vars => Lossless'
  BY LosslessStep
<1>3. Keeping /\ Lossless => (KeyMonths <= FirstOrigin => NothingIsLost)
  <2>. SUFFICES ASSUME Keeping, Lossless, KeyMonths <= FirstOrigin PROVE NothingIsLost
    OBVIOUS
  <2>1. \A v \in Calibrated : v \in Names /\ Filed(v)
    BY DEF Lossless, Enough, Calibrated
  <2>. QED  BY <2>1, FiledIsThere DEF NothingIsLost, Came
<1>. QED  BY <1>1, <1>2, <1>3, KeepingAlways, PTL DEF HarnessSpec

-----------------------------------------------------------------------------
(* Types. *)

\* A voice keeps what it answered or what it is calibrated by, not both.
Apart ==
    /\ \A v \in Calibrated : answers[v] = <<>>
    /\ \A v \in Names : Shared(v) => pending[v] = {} /\ pits[v] = {}

LEMMA ApartStep == Walking /\ Heard /\ Keeping /\ Apart /\ [Next]_vars => Apart'
<1>. SUFFICES ASSUME Walking, Heard, Keeping, Apart, [Next]_vars PROVE Apart'
  OBVIOUS
<1>1. ASSUME NEW v \in Names, Recalibrate(v) PROVE Apart'
  <2>1. v \in Calibrated /\ UNCHANGED answers
    BY <1>1 DEF Recalibrate
  <2>2. \A u \in Names : u # v => UNCHANGED <<pending[u], pits[u]>>
    BY <1>1, RecalibrateIs
  <2>. QED  BY <2>1, <2>2 DEF Apart, Shared
<1>2. ASSUME NEW v \in Names, Speak(v) PROVE Apart'
  <2>1. Shared(v) /\ UNCHANGED <<pending, pits>>
    BY <1>2 DEF Speak
  <2>2. \A u \in Calibrated : UNCHANGED answers[u]
    <3>1. \A u \in Calibrated : u \in Names /\ u # v
      BY <2>1 DEF Calibrated, Shared
    <3>2. \E a : answers' = [answers EXCEPT ![v] = a]
      BY <1>2 DEF Speak
    <3>. QED  BY <3>1, <3>2 DEF Heard, Once
  <2>. QED  BY <2>1, <2>2 DEF Apart
<1>3. CASE UNCHANGED <<answers, pending, pits>>
  BY <1>3 DEF Apart, Shared
<1>. QED
  BY <1>1, <1>2, <1>3 DEF Next, vars, records, Ask, FindAnswer, AskInner, NextRead, Finished

\* The walk stays within the panel's months, with a month left to call at
\* every origin (score.walk, score.project), and the voices keep to their own
\* records (_Once, Calibrated).
THEOREM HarnessTyped == HarnessSpec => []HarnessTypeOK
<1>1. Init => Apart
  <2>1. Init => answers = [v \in Names |-> <<>>] /\ pending = [v \in Names |-> {}] /\ pits = [v \in Names |-> {}]
    BY DEF Init
  <2>. QED  BY <2>1 DEF Apart, Calibrated
<1>2. Walking /\ Heard /\ Keeping /\ Apart /\ [Next]_vars => Apart'
  BY ApartStep
<1>3. Walking /\ Heard /\ Apart => HarnessTypeOK
  <2>. SUFFICES ASSUME Walking, Heard, Apart PROVE HarnessTypeOK
    OBVIOUS
  <2>1. t \in 1 .. total - 1
    BY TheOrigin
  <2>2. \A i \in DOMAIN stack : stack[i].v \in Names /\ stack[i].window \in Nat
    <3>1. ASSUME NEW S, NEW q \in Seq(S), NEW i \in DOMAIN q PROVE q[i] \in S
      OBVIOUS
    <3>2. stack \in Seq([v : Names, window : Nat])
      BY DEF Heard, Asking
    <3>3. \A i \in DOMAIN stack : stack[i] \in [v : Names, window : Nat]
      BY <3>1, <3>2
    <3>. QED  BY <3>3
  <2>. QED  BY <2>1, <2>2 DEF Walking, Heard, Hearing, Apart, HarnessTypeOK
<1>. QED  BY <1>1, <1>2, <1>3, KeepingAlways, PTL DEF HarnessSpec

=============================================================================
