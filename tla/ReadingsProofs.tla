--------------------------- MODULE ReadingsProofs ---------------------------
(***************************************************************************)
(* Proofs about Readings, for inputs of every length: that nothing looks   *)
(* ahead, that the folds of a misfit hold their rows out and its chain     *)
(* conditions on every column once, that the levels a record is read at    *)
(* are its own, that PITs follow the actuals, and that a bands body is     *)
(* answered as asked, the blend between its voices.                        *)
(***************************************************************************)
EXTENDS Readings, DataFacts

-----------------------------------------------------------------------------
(* Whole seasons. *)

\* Division, as multiplication.
LEMMA Divided ==
    ASSUME NEW a \in Nat, NEW b \in Nat \ {0}
    PROVE  /\ a \div b \in Nat /\ a % b \in 0 .. b - 1
           /\ a = b * (a \div b) + (a % b)
OBVIOUS

\* What is left is told by any whole part.
LEMMA LeftOver ==
    ASSUME NEW a \in Nat, NEW b \in Nat \ {0}, NEW q \in Nat, NEW r \in 0 .. b - 1, a = b * q + r
    PROVE  a \div b = q /\ a % b = r
OBVIOUS

\* Multiples keep the order of what they are of.
LEMMA Multiples ==
    ASSUME NEW b \in Nat \ {0}, NEW p \in Nat, NEW q \in Nat
    PROVE  /\ p <= q => b * p <= b * q
           /\ b * p < b * q + b => p <= q
           /\ b * (q + 1) = b * q + b
           /\ b * q \in Nat
OBVIOUS

\* How far back the last month of the season lies that is known: a whole
\* number of years, h months at least, and no year more.
LEMMA BackFacts ==
    ASSUME NEW h \in Nat \ {0}
    PROVE  \E q \in Nat : back(h) = YEAR * q /\ YEAR * q \in Nat /\ h <= YEAR * q /\ YEAR * q < h + YEAR
<1>. DEFINE a == h + YEAR - 1
            q == a \div YEAR
<1>1. YEAR \in Nat \ {0} /\ a \in Nat
  BY RecipesAssumption
<1>2. q \in Nat /\ a % YEAR \in 0 .. YEAR - 1 /\ a = YEAR * q + (a % YEAR)
  BY <1>1, Divided
<1>3. YEAR * q \in Nat
  BY <1>1, <1>2, Multiples
<1>4. back(h) = YEAR * q
  BY DEF back
<1>5. h <= YEAR * q /\ YEAR * q < h + YEAR
  <2>. DEFINE w == YEAR * q
              r == a % YEAR
  <2>1. w \in Nat /\ r \in 0 .. YEAR - 1 /\ h + YEAR - 1 = w + r
    BY <1>2, <1>3
  <2>. HIDE DEF w, r
  <2>2. h <= w /\ w < h + YEAR
    BY <2>1, <1>1
  <2>. QED  BY <2>2 DEF w
<1>. QED  BY <1>2, <1>3, <1>4, <1>5

\* The months of i's season that are h months back or more.
InSeason(i, h) == {m \in 0 .. i - h : (i - m) % YEAR = 0}

LEMMA SeasonFacts ==
    ASSUME NEW h \in Nat \ {0}, NEW i \in Nat, h <= i
    PROVE  /\ \A m \in InSeason(i, h) : m \in Nat /\ m <= i - back(h)
           /\ \A m \in InSeason(i, h) : m = i - back(h) \/ m <= i - back(h) - YEAR
           /\ i >= back(h) => i - back(h) \in InSeason(i, h)
           /\ i >= back(h) + YEAR => i - back(h) - YEAR \in InSeason(i, h)
<1>1. YEAR \in Nat \ {0}
  BY RecipesAssumption
<1>2. PICK q \in Nat : back(h) = YEAR * q /\ YEAR * q \in Nat /\ h <= YEAR * q /\ YEAR * q < h + YEAR
  BY BackFacts
<1>3. ASSUME NEW m \in InSeason(i, h)
      PROVE  m \in Nat /\ m <= i - back(h) /\ (m = i - back(h) \/ m <= i - back(h) - YEAR)
  <2>1. m \in Nat /\ i - m \in Nat /\ h <= i - m /\ (i - m) % YEAR = 0
    BY DEF InSeason
  <2>2. PICK p \in Nat : i - m = YEAR * p
    <3>. DEFINE p == (i - m) \div YEAR
    <3>1. p \in Nat /\ i - m = YEAR * p + ((i - m) % YEAR)
      BY <2>1, <1>1, Divided
    <3>2. YEAR * p \in Nat
      BY <3>1, <1>1, Multiples
    <3>. HIDE DEF p
    <3>3. i - m = YEAR * p
      BY <3>1, <3>2, <2>1
    <3>. QED  BY <3>1, <3>3
  <2>3. YEAR * p \in Nat /\ YEAR * q < YEAR * p + YEAR
    BY <1>1, <1>2, <2>1, <2>2
  <2>4. q <= p
    BY <2>3, <1>1, Multiples
  <2>5. YEAR * q <= YEAR * p
    BY <2>4, <1>1, Multiples
  <2>6. CASE q = p
    BY <2>6, <2>1, <2>2, <1>2
  <2>7. CASE q # p
    <3>1. q + 1 \in Nat /\ q + 1 <= p
      BY <2>4, <2>7
    <3>2. YEAR * (q + 1) <= YEAR * p /\ YEAR * (q + 1) = YEAR * q + YEAR
      BY <3>1, <1>1, Multiples
    <3>. QED  BY <3>2, <2>1, <2>2, <2>3, <1>1, <1>2
  <2>. QED  BY <2>6, <2>7
<1>4. ASSUME NEW p \in Nat, q <= p, YEAR * p <= i PROVE i - YEAR * p \in InSeason(i, h)
  <2>1. YEAR * p \in Nat /\ h <= YEAR * p
    BY <1>1, <1>2, <1>4, Multiples
  <2>2. (YEAR * p) % YEAR = 0
    BY <2>1, <1>1, LeftOver
  <2>3. i - (i - YEAR * p) = YEAR * p /\ i - YEAR * p \in 0 .. i - h
    BY <2>1, <1>4
  <2>. QED  BY <2>2, <2>3 DEF InSeason
<1>5. i >= back(h) => i - back(h) \in InSeason(i, h)
  BY <1>2, <1>4
<1>6. i >= back(h) + YEAR => i - back(h) - YEAR \in InSeason(i, h)
  <2>1. q + 1 \in Nat /\ q <= q + 1 /\ YEAR * (q + 1) = YEAR * q + YEAR
    BY <1>1, <1>2, Multiples
  <2>2. YEAR * (q + 1) <= i => i - YEAR * (q + 1) \in InSeason(i, h)
    BY <2>1, <1>4
  <2>3. i - (YEAR * q + YEAR) = i - YEAR * q - YEAR
    BY <1>1, <1>2
  <2>. QED  BY <2>1, <2>2, <2>3, <1>2
<1>. QED  BY <1>3, <1>5, <1>6

-----------------------------------------------------------------------------
(* The feature rows. *)

LEMMA RowsAreLater ==
    ASSUME NEW n \in Nat \ {0}, NEW h \in Nat \ {0}, NEW i \in Rows(n, h)
    PROVE  i \in Nat /\ h <= i /\ Known(i, h) = i - h + 1
BY DEF Rows, Known

\* A window that ends with what was known holds nothing later.
LEMMA WindowsEnd ==
    ASSUME NEW i \in Nat, NEW h \in Nat \ {0}, h <= i, NEW from \in Int, NEW to \in Int, to <= i - h + 1
    PROVE  Window(from, to) \subseteq 0 .. i - h
BY DEF Window

LEMMA LookBack ==
    ASSUME NEW n \in Nat \ {0}, NEW h \in Nat \ {0}
    PROVE  RowsLookBack(n, h)
<1>. SUFFICES ASSUME NEW i \in Rows(n, h)
             PROVE  /\ LET row == recipe(n, h)[i] IN row.last \union row.recent \union row.year \subseteq 0 .. i - h
                    /\ LET row == seasonal_recipe(n, h)[i]
                       IN  row.last \union row.same \union row.same_before \union row.year \union row.before \subseteq 0 .. i - h
  BY DEF RowsLookBack
<1>1. i \in Nat /\ h <= i /\ Known(i, h) = i - h + 1 /\ YEAR \in Nat \ {0}
  BY RowsAreLater, RecipesAssumption
<1>2. Known(i, h) - 1 \in 0 .. i - h
  BY <1>1
<1>3. \A from, to \in Int : to <= i - h + 1 => Window(from, to) \subseteq 0 .. i - h
  BY <1>1, WindowsEnd
<1>4. PICK b \in Nat : back(h) = b /\ h <= b
  BY BackFacts
<1>5. LET row == recipe(n, h)[i] IN row.last \union row.recent \union row.year \subseteq 0 .. i - h
  <2>1. Window(Known(i, h) - 3, Known(i, h)) \subseteq 0 .. i - h
    BY <1>1, <1>3
  <2>2. (IF h <= YEAR /\ YEAR <= i THEN {i - YEAR} ELSE {}) \subseteq 0 .. i - h
    BY <1>1
  <2>. QED  BY <1>2, <2>1, <2>2 DEF recipe
<1>6. LET row == seasonal_recipe(n, h)[i]
      IN  row.last \union row.same \union row.same_before \union row.year \union row.before \subseteq 0 .. i - h
  <2>1. /\ Window(Known(i, h) - YEAR, Known(i, h)) \subseteq 0 .. i - h
        /\ Window(Known(i, h) - 2 * YEAR, Known(i, h) - YEAR) \subseteq 0 .. i - h
    BY <1>1, <1>3
  <2>2. (IF i >= back(h) THEN {i - back(h)} ELSE {}) \subseteq 0 .. i - h
    BY <1>1, <1>4
  <2>3. (IF i >= back(h) + YEAR THEN {i - back(h) - YEAR} ELSE {}) \subseteq 0 .. i - h
    BY <1>1, <1>4
  <2>. QED  BY <1>2, <2>1, <2>2, <2>3 DEF seasonal_recipe
<1>. QED  BY <1>5, <1>6

\* The latest of a season, and the one before it.
LEMMA LastTwo ==
    ASSUME NEW T \in SUBSET Int, IsFiniteSet(T), NEW b \in Int, NEW c \in Int, c < b,
           \A m \in T : m = b \/ m <= c,
           T # {} => b \in T, T \ {b} # {} => c \in T
    PROVE  /\ {m \in T : \A l \in T : l <= m} = IF b \in T THEN {b} ELSE {}
           /\ {m \in T : Cardinality({l \in T : l > m}) = 1} = IF c \in T THEN {c} ELSE {}
<1>1. b \in T => \A l \in T : l <= b
  OBVIOUS
<1>2. \A m \in T : (\A l \in T : l <= m) => m = b
  OBVIOUS
<1>3. {m \in T : \A l \in T : l <= m} = IF b \in T THEN {b} ELSE {}
  BY <1>1, <1>2
<1>. DEFINE After(m) == {l \in T : l > m}
<1>4. \A m : IsFiniteSet(After(m))
  BY FS_Subset
<1>5. c \in T => Cardinality(After(c)) = 1
  <2>1. \A l \in T : l > c => l = b
    OBVIOUS
  <2>2. c \in T => b \in T /\ b > c
    OBVIOUS
  <2>3. c \in T => After(c) = {b}
    BY <2>1, <2>2
  <2>. QED  BY <2>3, FS_Singleton
<1>6. ASSUME NEW m \in T, Cardinality(After(m)) = 1 PROVE m = c
  <2>1. PICK x : After(m) = {x}
    BY <1>4, <1>6, FS_Singleton
  <2>2. x \in T /\ x > m
    BY <2>1
  <2>3. m # b
    BY <2>2, <1>1
  <2>4. c \in T /\ b \in T /\ m <= c
    BY <2>3
  <2>5. CASE m # c
    <3>1. c > m /\ b > m
      BY <2>4, <2>5
    <3>2. c \in After(m) /\ b \in After(m)
      BY <2>4, <3>1
    <3>. HIDE DEF After
    <3>. QED  BY <3>2, <2>1
  <2>. QED  BY <2>5
<1>7. {m \in T : Cardinality(After(m)) = 1} = IF c \in T THEN {c} ELSE {}
  <2>. HIDE DEF After
  <2>. QED  BY <1>5, <1>6
<1>. QED  BY <1>3, <1>7

LEMMA LastKnown ==
    ASSUME NEW n \in Nat \ {0}, NEW h \in Nat \ {0}
    PROVE  LagsAreTheLastKnown(n, h)
<1>. SUFFICES ASSUME NEW i \in Rows(n, h)
             PROVE  LET seasons == {m \in 0 .. i - h : (i - m) % YEAR = 0}
                        got == seasonal_recipe(n, h)[i]
                    IN  /\ recipe(n, h)[i].year = seasons \intersect {i - YEAR}
                        /\ got.same = {m \in seasons : \A l \in seasons : l <= m}
                        /\ got.same_before = {m \in seasons : Cardinality({l \in seasons : l > m}) = 1}
  BY DEF LagsAreTheLastKnown
<1>. DEFINE T == InSeason(i, h)
            b == i - back(h)
            c == i - back(h) - YEAR
<1>1. i \in Nat /\ h <= i /\ YEAR \in Nat \ {0} /\ back(h) \in Nat
  BY RowsAreLater, RecipesAssumption, BackFacts
<1>2. T \in SUBSET Int /\ IsFiniteSet(T)
  <2>1. T \subseteq 0 .. i - h
    BY DEF InSeason
  <2>2. IsFiniteSet(0 .. i - h)
    <3>1. i - h \in Int
      BY <1>1
    <3>. QED  BY <3>1, FS_Interval
  <2>3. IsFiniteSet(T)
    BY <2>1, <2>2, FS_Subset
  <2>. QED  BY <1>1, <2>1, <2>3
<1>3. /\ \A m \in T : m \in Nat /\ m <= b /\ (m = b \/ m <= c)
      /\ b >= 0 => b \in T
      /\ c >= 0 => c \in T
  <2>1. (i >= back(h) <=> b >= 0) /\ (i >= back(h) + YEAR <=> c >= 0)
    BY <1>1
  <2>. QED  BY <1>1, <2>1, SeasonFacts
<1>4. b \in Int /\ c \in Int /\ c < b /\ (b \in T <=> i >= back(h)) /\ (c \in T <=> i >= back(h) + YEAR)
  BY <1>1, <1>3
<1>5. /\ {m \in T : \A l \in T : l <= m} = IF b \in T THEN {b} ELSE {}
      /\ {m \in T : Cardinality({l \in T : l > m}) = 1} = IF c \in T THEN {c} ELSE {}
  <2>1. (T # {} => b \in T) /\ (T \ {b} # {} => c \in T)
    <3>. HIDE DEF T, b, c
    <3>. QED  BY <1>3, <1>4
  <2>. HIDE DEF T, b, c
  <2>. QED  BY <1>2, <1>3, <1>4, <2>1, LastTwo
<1>6. recipe(n, h)[i].year = T \intersect {i - YEAR}
  <2>1. CASE h <= YEAR /\ YEAR <= i
    <3>1. i - YEAR \in 0 .. i - h /\ i - (i - YEAR) = YEAR
      BY <1>1, <2>1
    <3>2. YEAR % YEAR = 0
      BY <1>1, LeftOver
    <3>. QED  BY <2>1, <3>1, <3>2 DEF recipe, InSeason
  <2>2. CASE ~(h <= YEAR /\ YEAR <= i)
    <3>1. i - YEAR \notin 0 .. i - h
      BY <1>1, <2>2
    <3>. QED  BY <2>2, <3>1 DEF recipe, InSeason
  <2>. QED  BY <2>1, <2>2
<1>7. /\ seasonal_recipe(n, h)[i].same = IF i >= back(h) THEN {b} ELSE {}
      /\ seasonal_recipe(n, h)[i].same_before = IF i >= back(h) + YEAR THEN {c} ELSE {}
  BY DEF seasonal_recipe
<1>8. /\ seasonal_recipe(n, h)[i].same = {m \in T : \A l \in T : l <= m}
      /\ seasonal_recipe(n, h)[i].same_before = {m \in T : Cardinality({l \in T : l > m}) = 1}
  BY <1>4, <1>5, <1>7
<1>. QED  BY <1>6, <1>8 DEF InSeason

-----------------------------------------------------------------------------
(* The voice that needs no model. *)

LEMMA KnownType ==
    ASSUME NEW history \in Seq(BOOLEAN)
    PROVE  known(history) \in Seq(BOOLEAN)
<1>. DEFINE present == {m \in DOMAIN history : history[m]}
            first == CHOOSE m \in present : \A l \in present : m <= l
<1>1. CASE present = {}
  BY <1>1 DEF known
<1>2. CASE present # {}
  <2>1. present \in SUBSET Nat
    OBVIOUS
  <2>2. first \in present
    <3>. HIDE DEF present
    <3>. QED  BY <1>2, <2>1, LeastOf
  <2>3. first \in 1 .. Len(history)
    BY <2>2
  <2>. HIDE DEF first
  <2>4. SubSeq(history, first, Len(history)) \in Seq(BOOLEAN)
    BY <2>3
  <2>. QED  BY <1>2, <2>4 DEF known, first
<1>. QED  BY <1>1, <1>2

LEMMA NaiveBack ==
    ASSUME NEW history \in Seq(BOOLEAN), NEW h \in Nat \ {0}, NEW season \in Nat \ {0}
    PROVE  NaiveLooksBack(history, h, season)
<1>. DEFINE v == known(history)
            lag == Lag(v, h, season)
            base == Base(v, h, lag)
            got == seasonal_naive(history, h, season)
<1>1. v \in Seq(BOOLEAN) /\ Len(v) \in Nat /\ MinHistory \in Nat \ {0}
  BY KnownType, VoicesAssumption
<1>2. lag \in Nat \ {0} /\ h <= lag /\ (lag = season \/ lag = h)
  BY DEF Lag
<1>3. base = Len(v) + h - lag
  BY <1>1, <1>2 DEF Base, Place
<1>. SUFFICES ASSUME got # VoiceError
             PROVE  /\ got.base \in 1 .. Len(v) /\ v[got.base]
                    /\ got.base + got.lag = Len(v) + h
                    /\ got.lag # season => got.base = Len(v)
                    /\ Len(v) - got.lag >= MinHistory
  BY DEF NaiveLooksBack
<1>4. ~(Len(v) <= lag + MinHistory - 1) /\ v[base] /\ got = [base |-> base, lag |-> lag, moves |-> Moves(v, lag)]
  BY DEF seasonal_naive
<1>5. got.base = base /\ got.lag = lag
  BY <1>4
<1>. HIDE DEF v, lag, base, got
<1>. QED  BY <1>1, <1>2, <1>3, <1>4, <1>5

-----------------------------------------------------------------------------
(* The folds. *)

\* Two of a finite set are two.
LEMMA TwoOf ==
    ASSUME NEW T, IsFiniteSet(T), NEW x \in T, NEW z \in T, x # z
    PROVE  Cardinality(T) >= 2
<1>1. {x, z} \subseteq T /\ IsFiniteSet({x})
  BY FS_Singleton
<1>2. Cardinality({x} \union {z}) = 2 /\ IsFiniteSet({x} \union {z})
  <2>1. z \notin {x} /\ Cardinality({x}) = 1
    BY FS_Singleton
  <2>2. /\ IsFiniteSet({x} \union {z})
        /\ Cardinality({x} \union {z}) = IF z \in {x} THEN Cardinality({x}) ELSE Cardinality({x}) + 1
    BY <1>1, FS_AddElement
  <2>. QED  BY <2>1, <2>2
<1>3. {x} \union {z} \subseteq T /\ Cardinality({x} \union {z}) <= Cardinality(T)
  BY <1>1, <1>2, FS_Subset
<1>4. Cardinality(T) \in Nat
  BY FS_CardinalityType
<1>. QED  BY <1>2, <1>3, <1>4

LEMMA FoldsHold ==
    ASSUME NEW n \in Nat, NEW folds \in Nat \ {0, 1}, NEW order \in [1 .. n -> Nat],
           \A j, k \in 1 .. n : order[j] = order[k] => j = k
    PROVE  FoldsHoldOut(order, folds)
<1>. SUFFICES ASSUME ~Refused(Len(order), folds)
             PROVE  /\ \A r \in ToSet(order) : Cardinality({f \in 0 .. folds - 1 : r \in Out(order, f, folds)}) = 1
                    /\ \A f \in 0 .. folds - 1 :
                          /\ Cardinality(Out(order, f, folds)) >= 2
                          /\ folds > 1 => Cardinality(Rest(order, f, folds)) >= 2
                          /\ Out(order, f, folds) \intersect Rest(order, f, folds) = {}
  BY DEF FoldsHoldOut
<1>1. order \in Seq(Nat) /\ Len(order) = n /\ DOMAIN order = 1 .. n
  OBVIOUS
<1>2. n >= 2 * folds
  BY <1>1 DEF Refused
<1>3. ToSet(order) = {order[k] : k \in 1 .. n}
  BY <1>1 DEF ToSet
<1>4. \A f, k : k \in 1 .. n => (order[k] \in Out(order, f, folds) <=> (k - 1) % folds = f)
  BY <1>1 DEF Out
<1>5. \A f : Out(order, f, folds) \subseteq ToSet(order)
  BY <1>1, <1>3 DEF Out
<1>6. IsFiniteSet(ToSet(order))
  <2>1. IsFiniteSet(1 .. n)
    BY FS_Interval
  <2>2. order \in Surjection(1 .. n, ToSet(order))
    BY <1>3 DEF Surjection
  <2>. QED  BY <2>1, <2>2, FS_Surjection
<1>7. ASSUME NEW r \in ToSet(order)
      PROVE  Cardinality({f \in 0 .. folds - 1 : r \in Out(order, f, folds)}) = 1
  <2>1. PICK k \in 1 .. n : r = order[k]
    BY <1>3
  <2>2. (k - 1) % folds \in 0 .. folds - 1
    <3>1. k - 1 \in Nat /\ folds \in Nat \ {0}
      OBVIOUS
    <3>. QED  BY <3>1, Divided
  <2>3. {f \in 0 .. folds - 1 : r \in Out(order, f, folds)} = {(k - 1) % folds}
    BY <1>4, <2>1, <2>2
  <2>. QED  BY <2>3, FS_Singleton
<1>8. ASSUME NEW f \in 0 .. folds - 1
      PROVE  /\ order[f + 1] \in Out(order, f, folds) /\ order[f + 1 + folds] \in Out(order, f, folds)
             /\ f + 1 \in 1 .. n /\ f + 1 + folds \in 1 .. n
  <2>1. f + 1 \in 1 .. n /\ f + 1 + folds \in 1 .. n
    BY <1>2
  <2>2. f % folds = f /\ (f + folds) % folds = f
    <3>1. f \in Nat /\ f + folds \in Nat /\ folds \in Nat \ {0}
      OBVIOUS
    <3>2. f = folds * 0 + f /\ f + folds = folds * 1 + f
      OBVIOUS
    <3>3. f % folds = f
      BY <3>1, <3>2, LeftOver
    <3>4. (f + folds) % folds = f
      BY <3>1, <3>2, LeftOver
    <3>. QED  BY <3>3, <3>4
  <2>3. f + 1 - 1 = f /\ f + 1 + folds - 1 = f + folds
    OBVIOUS
  <2>4. order[f + 1] \in Out(order, f, folds)
    BY <1>4, <2>1, <2>2, <2>3
  <2>5. order[f + 1 + folds] \in Out(order, f, folds)
    <3>. DEFINE k == f + 1 + folds
    <3>1. k \in 1 .. n /\ (k - 1) % folds = f
      BY <2>1, <2>2, <2>3
    <3>. HIDE DEF k
    <3>2. order[k] \in Out(order, f, folds)
      BY <1>4, <3>1
    <3>. QED  BY <3>2 DEF k
  <2>. QED  BY <2>1, <2>4, <2>5
<1>9. ASSUME NEW f \in 0 .. folds - 1 PROVE Cardinality(Out(order, f, folds)) >= 2
  <2>1. order[f + 1] # order[f + 1 + folds]
    <3>1. f + 1 # f + 1 + folds
      OBVIOUS
    <3>. QED  BY <1>8, <1>9, <3>1
  <2>2. IsFiniteSet(Out(order, f, folds))
    BY <1>5, <1>6, FS_Subset
  <2>. QED  BY <1>8, <1>9, <2>1, <2>2, TwoOf
<1>10. ASSUME NEW f \in 0 .. folds - 1 PROVE Cardinality(Rest(order, f, folds)) >= 2
  <2>1. PICK g \in 0 .. folds - 1 : g # f
    <3>1. 0 \in 0 .. folds - 1 /\ 1 \in 0 .. folds - 1
      OBVIOUS
    <3>. QED  BY <3>1
  <2>2. Out(order, g, folds) \subseteq Rest(order, f, folds)
    <3>1. \A r \in Out(order, g, folds) : \E k \in 1 .. n : r = order[k] /\ (k - 1) % folds = g
      BY <1>1 DEF Out
    <3>2. \A r \in Out(order, g, folds) : r \notin Out(order, f, folds)
      BY <3>1, <2>1, <1>4
    <3>. QED  BY <3>2, <1>5 DEF Rest
  <2>3. IsFiniteSet(Rest(order, f, folds))
    <3>1. Rest(order, f, folds) \subseteq ToSet(order)
      BY DEF Rest
    <3>. QED  BY <3>1, <1>6, FS_Subset
  <2>4. Cardinality(Out(order, g, folds)) <= Cardinality(Rest(order, f, folds))
    BY <2>2, <2>3, FS_Subset
  <2>5. Cardinality(Out(order, g, folds)) >= 2
    BY <1>9
  <2>6. Cardinality(Out(order, g, folds)) \in Nat /\ Cardinality(Rest(order, f, folds)) \in Nat
    BY <2>2, <2>3, FS_Subset, FS_CardinalityType
  <2>. QED  BY <2>4, <2>5, <2>6
<1>11. \A f : Out(order, f, folds) \intersect Rest(order, f, folds) = {}
  BY DEF Rest
<1>. QED  BY <1>7, <1>9, <1>10, <1>11

-----------------------------------------------------------------------------
(* The chain of a misfit. *)

\* The conditional fitted on the i-th column of an ordering.
Conditional(all, pi, i) == [pi |-> pi, col |-> all[pi][i], cond |-> Cond(all[pi], i)]

\* Planned are the conditionals of the fitted columns, an ordering at a time, each once.
LEMMA PlanFacts ==
    ASSUME NEW C, NEW all \in PartsOf(C), \A pi \in DOMAIN all : IsInjective(all[pi]), NEW fit
    PROVE  /\ IsInjective(tasks(all, fit))
           /\ \A x : x \in ToSet(tasks(all, fit)) <=>
                        \E pi \in DOMAIN all : \E i \in DOMAIN all[pi] :
                            all[pi][i] \in fit /\ x = Conditional(all, pi, i)
<1>. DEFINE T == [pi : DOMAIN all, col : C, cond : Seq(C)]
            of(pi) == [i \in DOMAIN all[pi] |-> Task(pi, all[pi], i, fit)]
            inner(pi) == FlattenSeq(of(pi))
            parts == [pi \in DOMAIN all |-> inner(pi)]
<1>1. DOMAIN all = 1 .. Len(all) /\ Len(all) \in Nat /\ \A pi \in DOMAIN all : all[pi] \in Seq(C)
  BY PartsType
<1>2. ASSUME NEW pi \in DOMAIN all
      PROVE  /\ inner(pi) \in Seq(T) /\ IsInjective(inner(pi))
             /\ \A x : x \in ToSet(inner(pi)) <=>
                    \E i \in DOMAIN all[pi] : all[pi][i] \in fit /\ x = Conditional(all, pi, i)
  <2>. DEFINE perm == all[pi]
              tasked == of(pi)
  <2>1. perm \in Seq(C) /\ IsInjective(perm) /\ DOMAIN perm = 1 .. Len(perm) /\ Len(perm) \in Nat
    BY <1>1
  <2>2. ASSUME NEW i \in DOMAIN perm PROVE Conditional(all, pi, i) \in T
    <3>1. Cond(perm, i) \in Seq(C)
      BY <2>1 DEF Cond
    <3>2. perm[i] \in C
      BY <2>1
    <3>. QED  BY <3>1, <3>2 DEF Conditional
  <2>3. ASSUME NEW i \in DOMAIN perm
        PROVE  /\ tasked[i] = IF perm[i] \in fit THEN <<Conditional(all, pi, i)>> ELSE <<>>
               /\ tasked[i] \in Seq(T) /\ IsInjective(tasked[i])
               /\ \A x : x \in ToSet(tasked[i]) <=> perm[i] \in fit /\ x = Conditional(all, pi, i)
    <3>1. tasked[i] = IF perm[i] \in fit THEN <<Conditional(all, pi, i)>> ELSE <<>>
      BY DEF Task, Conditional
    <3>. HIDE DEF tasked, T
    <3>. DEFINE c == Conditional(all, pi, i)
    <3>2. c \in T
      BY <2>2
    <3>. HIDE DEF c
    <3>3. /\ <<c>> \in Seq(T) /\ DOMAIN <<c>> = {1} /\ <<c>>[1] = c
          /\ <<>> \in Seq(T) /\ DOMAIN <<>> = {}
      BY <3>2
    <3>. QED  BY <3>1, <3>3 DEF c, ToSet, IsInjective
  <2>4. tasked \in PartsOf(T) /\ DOMAIN tasked = DOMAIN perm
    <3>1. DOMAIN tasked = DOMAIN perm /\ tasked = [i \in DOMAIN perm |-> tasked[i]]
      OBVIOUS
    <3>2. \A i \in 1 .. Len(perm) : tasked[i] \in Seq(T)
      BY <2>1, <2>3
    <3>. HIDE DEF tasked, T
    <3>3. tasked \in [1 .. Len(perm) -> Seq(T)]
      BY <2>1, <3>1, <3>2
    <3>. QED  BY <2>1, <3>1, <3>3 DEF PartsOf
  <2>5. \A j, k \in DOMAIN tasked : ToSet(tasked[j]) \intersect ToSet(tasked[k]) # {} => j = k
    <3>. SUFFICES ASSUME NEW j \in DOMAIN perm, NEW k \in DOMAIN perm, NEW x,
                         x \in ToSet(tasked[j]), x \in ToSet(tasked[k])
                  PROVE  j = k
      BY <2>4
    <3>. HIDE DEF tasked
    <3>1. Conditional(all, pi, j) = Conditional(all, pi, k)
      BY <2>3
    <3>2. perm[j] = perm[k]
      BY <3>1 DEF Conditional
    <3>. QED  BY <2>1, <3>2 DEF IsInjective
  <2>. HIDE DEF tasked, T
  <2>6. FlattenSeq(tasked) \in Seq(T)
    BY <2>4, FlattenFacts
  <2>7. IsInjective(FlattenSeq(tasked))
    BY <2>3, <2>4, <2>5, FlattenOnce
  <2>8. ToSet(FlattenSeq(tasked)) = UNION {ToSet(tasked[i]) : i \in DOMAIN tasked}
    BY <2>4, FlattenHolds
  <2>9. \A x : x \in ToSet(FlattenSeq(tasked)) <=> \E i \in DOMAIN perm : x \in ToSet(tasked[i])
    BY <2>4, <2>8
  <2>10. \A x : x \in ToSet(FlattenSeq(tasked)) <=>
                   \E i \in DOMAIN perm : perm[i] \in fit /\ x = Conditional(all, pi, i)
    BY <2>3, <2>9
  <2>. QED  BY <2>6, <2>7, <2>10 DEF tasked
<1>. HIDE DEF inner
<1>3. DOMAIN parts = DOMAIN all /\ parts \in PartsOf(T) /\ \A pi \in DOMAIN all : parts[pi] = inner(pi)
  <2>. HIDE DEF T
  <2>1. parts \in [1 .. Len(all) -> Seq(T)]
    BY <1>1, <1>2
  <2>2. parts \in PartsOf(T)
    BY <1>1, <2>1 DEF PartsOf
  <2>. QED  BY <2>2
<1>4. \A j, k \in DOMAIN parts : ToSet(parts[j]) \intersect ToSet(parts[k]) # {} => j = k
  <2>. SUFFICES ASSUME NEW j \in DOMAIN all, NEW k \in DOMAIN all, NEW x,
                       x \in ToSet(inner(j)), x \in ToSet(inner(k))
                PROVE  j = k
    BY <1>3
  <2>1. x.pi = j
    BY <1>2 DEF Conditional
  <2>2. x.pi = k
    BY <1>2 DEF Conditional
  <2>. QED  BY <2>1, <2>2
<1>5. tasks(all, fit) = FlattenSeq(parts)
  BY DEF tasks, inner
<1>. HIDE DEF parts, T
<1>6. IsInjective(FlattenSeq(parts))
  BY <1>2, <1>3, <1>4, FlattenOnce
<1>7. ToSet(FlattenSeq(parts)) = UNION {ToSet(parts[pi]) : pi \in DOMAIN parts}
  BY <1>3, FlattenHolds
<1>8. \A x : x \in ToSet(FlattenSeq(parts)) <=> \E pi \in DOMAIN all : x \in ToSet(inner(pi))
  BY <1>3, <1>7
<1>. QED  BY <1>2, <1>5, <1>6, <1>8

\* A conditional of the plan on column c, of the ordering pi, says which columns it is on.
ConditionedOn(x, cols) ==
    /\ x.pi \in {1, 2} /\ x.col \in 1 .. cols
    /\ x.pi = 1 => ToSet(x.cond) = 1 .. x.col - 1 /\ (x.cond = <<>> => x.col = 1)
    /\ x.pi = 2 => ToSet(x.cond) = x.col + 1 .. cols /\ (x.cond = <<>> => x.col = cols)

\* The column that comes i-th in each of the default orderings.
LEMMA PermsFacts ==
    ASSUME NEW cols \in Nat, NEW i \in 1 .. cols, NEW pi \in {1, 2}
    PROVE  /\ perms(cols)[pi][i] = IF pi = 1 THEN i ELSE cols + 1 - i
           /\ ConditionedOn(Conditional(perms(cols), pi, i), cols)
<1>. DEFINE perm == IF pi = 1 THEN [c \in 1 .. cols |-> c] ELSE [c \in 1 .. cols |-> cols + 1 - c]
            x == Conditional(perms(cols), pi, i)
            before == SubSeq(perm, 1, i - 1)
<1>1. perms(cols)[pi] = perm
  BY DEF perms
<1>2. \A k \in 1 .. cols : perm[k] = IF pi = 1 THEN k ELSE cols + 1 - k
  OBVIOUS
<1>3. perm \in Seq(1 .. cols) /\ Len(perm) = cols
  OBVIOUS
<1>. HIDE DEF perm
<1>4. /\ x.pi = pi /\ x.col = perm[i] /\ x.cond = before
  BY <1>1 DEF Conditional, Cond
<1>5. DOMAIN before = 1 .. i - 1 /\ \A k \in 1 .. i - 1 : before[k] = perm[k]
  BY <1>3
<1>6. before = <<>> => i = 1
  <2>1. DOMAIN <<>> = {}
    OBVIOUS
  <2>. SUFFICES ASSUME i # 1 PROVE before # <<>>
    OBVIOUS
  <2>2. 1 \in DOMAIN before
    BY <1>5
  <2>. QED  BY <2>1, <2>2
<1>. HIDE DEF before
<1>7. \A c : c \in ToSet(before) <=> \E k \in 1 .. i - 1 : c = IF pi = 1 THEN k ELSE cols + 1 - k
  <2>1. \A k \in 1 .. i - 1 : before[k] = IF pi = 1 THEN k ELSE cols + 1 - k
    BY <1>2, <1>5
  <2>2. \A c : c \in ToSet(before) <=> \E k \in 1 .. i - 1 : before[k] = c
    BY <1>5 DEF ToSet
  <2>. QED  BY <2>1, <2>2
<1>. HIDE DEF x
<1>8. CASE pi = 1
  <2>1. ToSet(before) = 1 .. i - 1
    BY <1>7, <1>8
  <2>. QED  BY <1>1, <1>2, <1>4, <1>6, <1>8, <2>1 DEF ConditionedOn, x
<1>9. CASE pi = 2
  <2>1. \A c \in ToSet(before) : c \in (cols + 1 - i) + 1 .. cols
    BY <1>7, <1>9
  <2>2. ASSUME NEW c \in (cols + 1 - i) + 1 .. cols PROVE c \in ToSet(before)
    <3>. DEFINE k == cols + 1 - c
    <3>1. k \in 1 .. i - 1 /\ c = cols + 1 - k
      OBVIOUS
    <3>. HIDE DEF k
    <3>. QED  BY <1>7, <1>9, <3>1
  <2>3. perm[i] = cols + 1 - i /\ perm[i] \in 1 .. cols
    BY <1>2, <1>9
  <2>4. ToSet(x.cond) = x.col + 1 .. cols
    BY <1>4, <2>1, <2>2, <2>3
  <2>. QED  BY <1>1, <1>2, <1>4, <1>6, <1>9, <2>3, <2>4 DEF ConditionedOn, x
<1>. QED  BY <1>8, <1>9

\* The plan over the default orderings: what a conditional is on, one for
\* each fitted column of each ordering, and no two of them.
LEMMA ChainFacts ==
    ASSUME NEW cols \in Nat, NEW fit \in SUBSET (1 .. cols)
    PROVE  LET plan == tasks(perms(cols), fit)
           IN  /\ \A k \in DOMAIN plan : plan[k].col \in fit /\ ConditionedOn(plan[k], cols)
               /\ \A pi \in {1, 2}, c \in fit : \E k \in DOMAIN plan : plan[k].pi = pi /\ plan[k].col = c
               /\ \A j, k \in DOMAIN plan : plan[j].pi = plan[k].pi /\ plan[j].col = plan[k].col => j = k
<1>. DEFINE all == perms(cols)
            plan == tasks(all, fit)
<1>1. all \in Seq(Seq(1 .. cols)) /\ DOMAIN all = {1, 2} /\ \A pi \in {1, 2} : DOMAIN all[pi] = 1 .. cols
  <2>. DEFINE out == [c \in 1 .. cols |-> c]
              back_ == [c \in 1 .. cols |-> cols + 1 - c]
  <2>1. out \in Seq(1 .. cols) /\ back_ \in Seq(1 .. cols) /\ DOMAIN out = 1 .. cols /\ DOMAIN back_ = 1 .. cols
    OBVIOUS
  <2>2. all = <<out, back_>>
    BY DEF perms
  <2>. HIDE DEF out, back_, all
  <2>. QED  BY <2>1, <2>2
<1>2. \A pi \in {1, 2}, i \in 1 .. cols :
          all[pi][i] = (IF pi = 1 THEN i ELSE cols + 1 - i) /\ ConditionedOn(Conditional(all, pi, i), cols)
  BY PermsFacts
<1>. HIDE DEF all
<1>3. \A pi \in DOMAIN all : IsInjective(all[pi])
  BY <1>1, <1>2 DEF IsInjective
<1>4. /\ IsInjective(plan)
      /\ \A x : x \in ToSet(plan) <=>
            \E pi \in DOMAIN all : \E i \in DOMAIN all[pi] : all[pi][i] \in fit /\ x = Conditional(all, pi, i)
  <2>. DEFINE C == 1 .. cols
  <2>1. all \in PartsOf(C)
    BY <1>1 DEF PartsOf
  <2>. HIDE DEF C
  <2>. QED  BY <1>3, <2>1, PlanFacts
<1>. HIDE DEF plan
<1>5. ASSUME NEW k \in DOMAIN plan
      PROVE  \E pi \in {1, 2} : \E i \in 1 .. cols :
                /\ plan[k] = Conditional(all, pi, i) /\ all[pi][i] \in fit
                /\ plan[k].pi = pi /\ plan[k].col = all[pi][i]
  <2>1. plan[k] \in ToSet(plan)
    BY DEF ToSet
  <2>2. PICK pi \in {1, 2} : \E i \in 1 .. cols : all[pi][i] \in fit /\ plan[k] = Conditional(all, pi, i)
    BY <1>1, <1>4, <2>1
  <2>3. PICK i \in 1 .. cols : all[pi][i] \in fit /\ plan[k] = Conditional(all, pi, i)
    BY <2>2
  <2>4. Conditional(all, pi, i).pi = pi /\ Conditional(all, pi, i).col = all[pi][i]
    BY DEF Conditional
  <2>. QED  BY <2>3, <2>4
<1>6. ASSUME NEW k \in DOMAIN plan PROVE plan[k].col \in fit /\ ConditionedOn(plan[k], cols)
  BY <1>2, <1>5
<1>7. ASSUME NEW pi \in {1, 2}, NEW c \in fit
      PROVE  \E k \in DOMAIN plan : plan[k].pi = pi /\ plan[k].col = c
  <2>. DEFINE i == IF pi = 1 THEN c ELSE cols + 1 - c
  <2>1. i \in 1 .. cols /\ all[pi][i] = c
    <3>1. c \in 1 .. cols /\ i \in 1 .. cols
      OBVIOUS
    <3>. QED  BY <1>2, <3>1
  <2>. HIDE DEF i
  <2>2. Conditional(all, pi, i) \in ToSet(plan)
    BY <1>1, <1>4, <2>1
  <2>3. PICK k \in DOMAIN plan : plan[k] = Conditional(all, pi, i)
    BY <2>2 DEF ToSet
  <2>. QED  BY <2>1, <2>3 DEF Conditional
<1>8. ASSUME NEW j \in DOMAIN plan, NEW k \in DOMAIN plan, plan[j].pi = plan[k].pi, plan[j].col = plan[k].col
      PROVE  j = k
  <2>1. PICK pi \in {1, 2} : \E i \in 1 .. cols :
                plan[j] = Conditional(all, pi, i) /\ plan[j].pi = pi /\ plan[j].col = all[pi][i]
    BY <1>5
  <2>2. PICK i \in 1 .. cols : plan[j] = Conditional(all, pi, i) /\ plan[j].pi = pi /\ plan[j].col = all[pi][i]
    BY <2>1
  <2>3. PICK l \in 1 .. cols : plan[k] = Conditional(all, pi, l) /\ plan[k].col = all[pi][l]
    BY <1>5, <1>8, <2>2
  <2>4. i = l
    BY <1>2, <1>8, <2>2, <2>3
  <2>. QED  BY <1>4, <2>2, <2>3, <2>4 DEF IsInjective
<1>. QED  BY <1>6, <1>7, <1>8 DEF plan, all

LEMMA ChainCovers ==
    ASSUME NEW cols \in Nat, NEW fit \in SUBSET (1 .. cols)
    PROVE  ConditionsOnceOnEach(cols, fit) /\ SharesAreTheScore(cols, fit)
<1>. DEFINE plan == tasks(perms(cols), fit)
<1>1. /\ \A k \in DOMAIN plan : plan[k].col \in fit /\ ConditionedOn(plan[k], cols)
      /\ \A pi \in {1, 2}, c \in fit : \E k \in DOMAIN plan : plan[k].pi = pi /\ plan[k].col = c
      /\ \A j, k \in DOMAIN plan : plan[j].pi = plan[k].pi /\ plan[j].col = plan[k].col => j = k
  BY ChainFacts
<1>2. \A k : Cardinality({k}) = 1 /\ Cardinality({}) = 0
  BY FS_Singleton, FS_EmptySet
<1>. HIDE DEF plan
<1>3. ASSUME NEW c \in fit, NEW d \in 1 .. cols
      PROVE  Cardinality({k \in DOMAIN plan : plan[k].col = c /\ d \in ToSet(plan[k].cond)}) = IF c = d THEN 0 ELSE 1
  <2>. DEFINE K == {k \in DOMAIN plan : plan[k].col = c /\ d \in ToSet(plan[k].cond)}
  <2>1. c \in 1 .. cols
    OBVIOUS
  <2>2. \A k \in DOMAIN plan : plan[k].col = c => (d \in ToSet(plan[k].cond) <=> IF plan[k].pi = 1 THEN d < c ELSE d > c)
    BY <1>1, <2>1 DEF ConditionedOn
  <2>3. CASE c = d
    <3>1. K = {}
      BY <2>1, <2>2, <2>3
    <3>. QED  BY <1>2, <2>3, <3>1
  <2>4. CASE c # d
    <3>. DEFINE pi == IF d < c THEN 1 ELSE 2
    <3>1. PICK k \in DOMAIN plan : plan[k].pi = pi /\ plan[k].col = c
      BY <1>1
    <3>2. k \in K
      BY <2>1, <2>2, <2>4, <3>1
    <3>3. \A j \in K : plan[j].pi = pi /\ plan[j].col = c
      BY <1>1, <2>1, <2>2, <2>4 DEF ConditionedOn
    <3>4. K = {k}
      BY <1>1, <3>1, <3>2, <3>3
    <3>. QED  BY <1>2, <2>4, <3>4
  <2>. QED  BY <2>3, <2>4
<1>4. ASSUME NEW j \in Noisy(perms(cols), fit), NEW k \in Noisy(perms(cols), fit), j # k
      PROVE  plan[j].pi # plan[k].pi
  <2>1. j \in DOMAIN plan /\ k \in DOMAIN plan /\ plan[j].cond = <<>> /\ plan[k].cond = <<>>
    BY DEF Noisy, plan
  <2>. SUFFICES ASSUME plan[j].pi = plan[k].pi PROVE FALSE
    OBVIOUS
  <2>2. plan[j].col = plan[k].col
    BY <1>1, <2>1 DEF ConditionedOn
  <2>. QED  BY <1>1, <1>4, <2>1, <2>2
<1>5. DOMAIN perms(cols) = {1, 2}
  BY DEF perms
<1>6. ASSUME NEW pi \in {1, 2}
      PROVE  /\ Sums(perms(cols), fit, pi) = UNION {Share(perms(cols), fit, pi, c) : c \in fit}
             /\ \A c \in 1 .. cols : Cardinality(Share(perms(cols), fit, pi, c)) = IF c \in fit THEN 1 ELSE 0
  <2>1. \A c : Share(perms(cols), fit, pi, c) = {k \in DOMAIN plan : plan[k].pi = pi /\ plan[k].col = c}
    BY DEF Share, plan
  <2>2. Sums(perms(cols), fit, pi) = {k \in DOMAIN plan : plan[k].pi = pi}
    BY DEF Sums, plan
  <2>3. Sums(perms(cols), fit, pi) = UNION {Share(perms(cols), fit, pi, c) : c \in fit}
    <3>. DEFINE U == UNION {Share(perms(cols), fit, pi, c) : c \in fit}
    <3>1. \A k : k \in U <=> \E c \in fit : k \in Share(perms(cols), fit, pi, c)
      OBVIOUS
    <3>. HIDE DEF U
    <3>2. ASSUME NEW k PROVE k \in U <=> k \in DOMAIN plan /\ plan[k].pi = pi /\ plan[k].col \in fit
      <4>1. \A c : k \in Share(perms(cols), fit, pi, c) <=>
                       k \in DOMAIN plan /\ plan[k].pi = pi /\ plan[k].col = c
        BY <2>1
      <4>2. k \in U <=> \E c \in fit : k \in DOMAIN plan /\ plan[k].pi = pi /\ plan[k].col = c
        BY <3>1, <4>1
      <4>. QED  BY <4>2
    <3>3. \A k \in DOMAIN plan : plan[k].col \in fit
      BY <1>1
    <3>4. U = {k \in DOMAIN plan : plan[k].pi = pi}
      BY <3>2, <3>3
    <3>. QED  BY <2>2, <3>4 DEF U
  <2>4. ASSUME NEW c \in 1 .. cols, c \in fit PROVE Cardinality(Share(perms(cols), fit, pi, c)) = 1
    <3>1. PICK k \in DOMAIN plan : plan[k].pi = pi /\ plan[k].col = c
      BY <1>1, <2>4
    <3>2. Share(perms(cols), fit, pi, c) = {k}
      BY <1>1, <2>1, <3>1
    <3>. QED  BY <1>2, <3>2
  <2>5. ASSUME NEW c \in 1 .. cols, c \notin fit PROVE Cardinality(Share(perms(cols), fit, pi, c)) = 0
    <3>1. Share(perms(cols), fit, pi, c) = {}
      BY <1>1, <2>1, <2>5
    <3>. QED  BY <1>2, <3>1
  <2>. QED  BY <2>3, <2>4, <2>5
<1>. QED  BY <1>3, <1>4, <1>5, <1>6 DEF ConditionsOnceOnEach, SharesAreTheScore, plan

-----------------------------------------------------------------------------
(* Records. *)

CountsOf == [1 .. BINS -> Nat]

\* What the first bins of a record hold.
LEMMA CumFacts ==
    ASSUME NEW r \in CountsOf
    PROVE  /\ cumsum(r, 0) = 0 /\ cumsum(r, BINS) = SumOf(r)
           /\ \A n \in 0 .. BINS : cumsum(r, n) \in Nat
           /\ \A n \in 1 .. BINS : cumsum(r, n) = cumsum(r, n - 1) + r[n]
<1>1. BINS \in Nat \ {0} /\ r \in Seq(Nat) /\ Len(r) = BINS
  BY CalibrationAssumption DEF CountsOf
<1>2. ASSUME NEW n \in 0 .. BINS PROVE cumsum(r, n) = Amount(1 .. n, r)
  <2>. DEFINE s == SubSeq(r, 1, n)
  <2>1. s \in Seq(Nat) /\ DOMAIN s = 1 .. n /\ \A k \in 1 .. n : s[k] = r[k]
    BY <1>1
  <2>. HIDE DEF s
  <2>2. FoldSeq(+, 0, s) = Amount(1 .. n, s)
    BY <2>1, FoldIsAmount
  <2>3. Amount(1 .. n, s) = Amount(1 .. n, r)
    <3>1. Units(1 .. n, s) = Units(1 .. n, r)
      BY <2>1 DEF Units
    <3>. QED  BY <3>1 DEF Amount
  <2>. QED  BY <2>2, <2>3 DEF cumsum, SumOf, s
<1>3. \A n \in 0 .. BINS : IsFiniteSet(1 .. n) /\ \A k \in 1 .. n : r[k] \in Nat
  <2>. SUFFICES ASSUME NEW n \in 0 .. BINS PROVE IsFiniteSet(1 .. n) /\ \A k \in 1 .. n : r[k] \in Nat
    OBVIOUS
  <2>1. n \in Nat /\ \A k \in 1 .. n : r[k] \in Nat
    BY <1>1
  <2>. QED  BY <2>1, FS_Interval
<1>4. \A n \in 0 .. BINS : cumsum(r, n) \in Nat
  BY <1>2, <1>3, AmountFinite
<1>5. ASSUME NEW n \in 1 .. BINS PROVE cumsum(r, n) = cumsum(r, n - 1) + r[n]
  <2>1. n - 1 \in 0 .. BINS /\ n \in 0 .. BINS /\ n \notin 1 .. n - 1 /\ r[n] \in Nat
        /\ 1 .. n = (1 .. n - 1) \union {n}
    BY <1>1
  <2>. DEFINE K == 1 .. n - 1
  <2>2. IsFiniteSet(K) /\ (\A k \in K : r[k] \in Nat) /\ n \notin K
    BY <1>3, <2>1
  <2>. HIDE DEF K
  <2>3. Amount(K \union {n}, r) = Amount(K, r) + r[n]
    BY <2>1, <2>2, AmountAdd
  <2>. QED  BY <1>2, <2>1, <2>3 DEF K
<1>6. cumsum(r, 0) = 0
  <2>1. 1 .. 0 = {} /\ 0 \in 0 .. BINS
    BY <1>1
  <2>. QED  BY <1>2, <2>1, AmountEmpty
<1>7. cumsum(r, BINS) = SumOf(r)
  <2>1. SubSeq(r, 1, BINS) = r
    BY <1>1
  <2>. QED  BY <2>1 DEF cumsum
<1>. QED  BY <1>4, <1>5, <1>6, <1>7

\* More bins hold as much or more.
LEMMA CumRises ==
    ASSUME NEW r \in CountsOf
    PROVE  \A n \in 0 .. BINS : \A m \in 0 .. n : cumsum(r, m) <= cumsum(r, n)
<1>. DEFINE c(n) == cumsum(r, n)
            T == {n \in Nat : n <= BINS => \A m \in 0 .. n : c(m) <= c(n)}
<1>1. BINS \in Nat /\ \A k \in 1 .. BINS : r[k] \in Nat
  BY CalibrationAssumption DEF CountsOf
<1>2. /\ \A n \in 0 .. BINS : c(n) \in Nat
      /\ \A n \in 1 .. BINS : c(n) = c(n - 1) + r[n]
  BY CumFacts
<1>. HIDE DEF c
<1>3. 0 \in T
  BY <1>1, <1>2
<1>4. ASSUME NEW n \in T PROVE n + 1 \in T
  <2>. SUFFICES ASSUME n + 1 <= BINS, NEW m \in 0 .. n + 1 PROVE c(m) <= c(n + 1)
    OBVIOUS
  <2>1. n + 1 \in 1 .. BINS /\ (n + 1) - 1 = n /\ n \in 0 .. BINS /\ m \in 0 .. BINS /\ n + 1 \in 0 .. BINS
    BY <1>1
  <2>2. c(n + 1) = c(n) + r[n + 1] /\ r[n + 1] \in Nat /\ c(n) \in Nat /\ c(m) \in Nat
    BY <1>1, <1>2, <2>1
  <2>3. CASE m = n + 1
    BY <2>2, <2>3
  <2>4. CASE m \in 0 .. n
    <3>1. c(m) <= c(n)
      BY <2>1, <2>4
    <3>. QED  BY <2>2, <3>1
  <2>. QED  BY <2>3, <2>4
<1>5. T = Nat
  <2>1. T \in SUBSET Nat
    OBVIOUS
  <2>. HIDE DEF T
  <2>. QED  BY <1>3, <1>4, <2>1, Inductive
<1>. SUFFICES ASSUME NEW n \in 0 .. BINS, NEW m \in 0 .. n PROVE c(m) <= c(n)
  BY DEF c
<1>6. n \in T
  <2>. HIDE DEF T
  <2>. QED  BY <1>5
<1>. QED  BY <1>6

FullCounts == [1 .. BINS -> Nat \ {0}]

\* What a record reads at alpha a: x of the w that its bin b is wide.
ReadIn(r, a, b, w, x) ==
    /\ b \in 1 .. BINS /\ w \in Nat \ {0} /\ x \in 0 .. w - 1 /\ w = Dens * r[b]
    /\ cumsum(r, b - 1) * Dens + x = a * SumOf(r)
    /\ cumsum(r, b) * Dens = cumsum(r, b - 1) * Dens + w
    /\ Interp(r, a).num = (b - 1) * w + x /\ Interp(r, a).den = BINS * w

LEMMA FullFacts ==
    ASSUME NEW r \in FullCounts
    PROVE  r \in CountsOf /\ SumOf(r) \in Nat \ {0}
<1>1. BINS \in Nat \ {0} /\ r \in CountsOf /\ r[1] \in Nat \ {0}
  BY CalibrationAssumption DEF FullCounts, CountsOf
<1>2. cumsum(r, 1) = cumsum(r, 0) + r[1] /\ cumsum(r, 0) = 0 /\ cumsum(r, BINS) = SumOf(r) /\ cumsum(r, BINS) \in Nat
  <2>1. 1 \in 1 .. BINS /\ 1 - 1 = 0 /\ BINS \in 0 .. BINS
    BY <1>1
  <2>. QED  BY <1>1, <2>1, CumFacts
<1>3. cumsum(r, 1) <= cumsum(r, BINS)
  <2>1. BINS \in 0 .. BINS /\ 1 \in 0 .. BINS
    BY <1>1
  <2>. QED  BY <1>1, <2>1, CumRises
<1>. QED  BY <1>1, <1>2, <1>3

\* Every alpha is reached in one of the bins.
LEMMA ReadFacts ==
    ASSUME NEW r \in FullCounts, NEW a \in 1 .. Dens - 1
    PROVE  \E b, w, x : ReadIn(r, a, b, w, x)
<1>. DEFINE c(n) == cumsum(r, n)
            S == SumOf(r)
            B == {b \in 1 .. BINS : a * S < c(b) * Dens}
            b == BinOf(r, a)
            reached(k) == c(k - 1) * Dens <= a * S /\ a * S < c(k) * Dens
<1>1. /\ BINS \in Nat \ {0} /\ Dens \in Nat \ {0} /\ S \in Nat \ {0} /\ r \in CountsOf
      /\ \A k \in 1 .. BINS : r[k] \in Nat \ {0}
  BY FullFacts, CalibrationAssumption DEF FullCounts
<1>2. /\ c(0) = 0 /\ c(BINS) = S /\ \A n \in 0 .. BINS : c(n) \in Nat
      /\ \A n \in 1 .. BINS : c(n) = c(n - 1) + r[n]
  BY <1>1, CumFacts
<1>3. b = CHOOSE k \in 1 .. BINS : reached(k)
  BY DEF BinOf
<1>. HIDE DEF c, S, b
<1>4. \E k \in 1 .. BINS : reached(k)
  <2>1. a * S \in Nat /\ a * S < S * Dens
    <3>1. a \in Nat /\ Dens \in Nat /\ a < Dens
      BY <1>1
    <3>. QED  BY <1>1, <3>1
  <2>2. B \in SUBSET Nat /\ BINS \in B
    BY <1>1, <1>2, <2>1
  <2>3. PICK k \in B : \A l \in B : k <= l
    BY <2>2, LeastOf
  <2>4. CASE k = 1
    <3>1. c(k - 1) = 0 /\ 0 * Dens = 0
      BY <1>1, <1>2, <2>4
    <3>. QED  BY <2>1, <2>3, <3>1
  <2>5. CASE k # 1
    <3>1. k - 1 \in 1 .. BINS /\ ~(k <= k - 1) /\ k - 1 \in 0 .. BINS
      BY <1>1, <2>3, <2>5
    <3>2. k - 1 \notin B
      BY <2>3, <3>1
    <3>3. c(k - 1) * Dens \in Nat
      BY <1>1, <1>2, <3>1
    <3>. QED  BY <2>1, <2>3, <3>1, <3>2, <3>3
  <2>. QED  BY <2>4, <2>5
<1>5. b \in 1 .. BINS /\ reached(b)
  <2>. HIDE DEF reached
  <2>. QED  BY <1>3, <1>4
<1>. DEFINE w == Dens * r[b]
            x == a * S - c(b - 1) * Dens
<1>6. b - 1 \in 0 .. BINS /\ b \in 0 .. BINS /\ b - 1 \in Nat /\ r[b] \in Nat \ {0}
  BY <1>1, <1>5
<1>7. w \in Nat \ {0} /\ a * S \in Nat /\ c(b - 1) * Dens \in Nat /\ c(b) * Dens = c(b - 1) * Dens + w
  <2>1. w \in Nat \ {0} /\ a * S \in Nat
    BY <1>1, <1>6
  <2>2. c(b - 1) \in Nat /\ c(b) = c(b - 1) + r[b]
    BY <1>2, <1>5, <1>6
  <2>3. (c(b - 1) + r[b]) * Dens = c(b - 1) * Dens + Dens * r[b] /\ c(b - 1) * Dens \in Nat
    BY <1>1, <1>6, <2>2
  <2>. QED  BY <2>1, <2>2, <2>3
<1>8. x \in 0 .. w - 1 /\ c(b - 1) * Dens + x = a * S
  <2>. HIDE DEF w
  <2>1. c(b - 1) * Dens <= a * S /\ a * S < c(b) * Dens
    BY <1>5
  <2>. QED  BY <1>7, <2>1
<1>9. Interp(r, a).num = (b - 1) * w + x /\ Interp(r, a).den = BINS * w
  <2>1. /\ Interp(r, a).num = (b - 1) * Dens * r[b] + (a * S - c(b - 1) * Dens)
        /\ Interp(r, a).den = BINS * Dens * r[b]
    BY DEF Interp, b, c, S
  <2>2. (b - 1) * Dens * r[b] = (b - 1) * (Dens * r[b]) /\ BINS * Dens * r[b] = BINS * (Dens * r[b])
    BY <1>1, <1>6
  <2>. QED  BY <2>1, <2>2
<1>. HIDE DEF w, x
<1>10. ReadIn(r, a, b, w, x)
  BY <1>5, <1>7, <1>8, <1>9 DEF ReadIn, c, S, w
<1>. QED  BY <1>10

\* A level read in a bin lies between nothing and all.
LEMMA LevelWithin ==
    ASSUME NEW r \in FullCounts, NEW a \in 1 .. Dens - 1, NEW b, NEW w, NEW x, ReadIn(r, a, b, w, x)
    PROVE  Interp(r, a).den \in Nat \ {0} /\ Interp(r, a).num \in 1 .. Interp(r, a).den - 1
<1>1. /\ BINS \in Nat \ {0} /\ b \in 1 .. BINS /\ w \in Nat \ {0} /\ x \in 0 .. w - 1
      /\ Interp(r, a).num = (b - 1) * w + x /\ Interp(r, a).den = BINS * w
      /\ cumsum(r, b - 1) * Dens + x = a * SumOf(r)
  BY CalibrationAssumption DEF ReadIn
<1>2. b - 1 \in 0 .. BINS - 1 /\ (b - 1) * w \in Nat /\ BINS * w \in Nat \ {0}
  BY <1>1
<1>3. (b - 1) * w + w <= BINS * w
  <2>1. (b - 1) * w <= (BINS - 1) * w
    BY <1>1, <1>2
  <2>2. (BINS - 1) * w = BINS * w - w
    BY <1>1
  <2>. QED  BY <1>1, <1>2, <2>1, <2>2
<1>4. (b - 1) * w + x # 0
  <2>1. CASE b = 1
    <3>1. cumsum(r, 0) = 0 /\ 0 * Dens = 0 /\ SumOf(r) \in Nat \ {0} /\ a \in Nat \ {0}
      BY FullFacts, CumFacts, CalibrationAssumption
    <3>2. a * SumOf(r) # 0
      BY <3>1
    <3>3. cumsum(r, b - 1) = cumsum(r, 0)
      <4>1. b - 1 = 0
        BY <2>1
      <4>. QED  BY <4>1
    <3>. QED  BY <1>1, <1>2, <3>1, <3>2, <3>3
  <2>2. CASE b # 1
    <3>1. b - 1 \in Nat \ {0}
      BY <1>1, <2>2
    <3>2. (b - 1) * w # 0
      BY <1>1, <3>1
    <3>. QED  BY <1>1, <1>2, <3>2
  <2>. QED  BY <2>1, <2>2
<1>. QED  BY <1>1, <1>2, <1>3, <1>4

\* More is read at higher levels.
LEMMA LevelsRise ==
    ASSUME NEW r \in FullCounts, NEW a \in 1 .. Dens - 1, NEW b, NEW w, NEW x, ReadIn(r, a, b, w, x),
           NEW d \in 1 .. Dens - 1, NEW e, NEW v, NEW y, ReadIn(r, d, e, v, y), a < d
    PROVE  Less(Interp(r, a), Interp(r, d))
<1>. DEFINE S == SumOf(r)
            p == a * S
            q == d * S
            C(n) == cumsum(r, n) * Dens
<1>1. /\ BINS \in Nat \ {0} /\ S \in Nat \ {0} /\ r \in CountsOf /\ Dens \in Nat
      /\ b \in 1 .. BINS /\ w \in Nat \ {0} /\ x \in 0 .. w - 1
      /\ e \in 1 .. BINS /\ v \in Nat \ {0} /\ y \in 0 .. v - 1
      /\ Interp(r, a).num = (b - 1) * w + x /\ Interp(r, a).den = BINS * w
      /\ Interp(r, d).num = (e - 1) * v + y /\ Interp(r, d).den = BINS * v
  BY FullFacts, CalibrationAssumption DEF ReadIn
<1>2. p \in Nat /\ q \in Nat /\ p < q
  BY <1>1
<1>3. /\ C(b - 1) + x = p /\ C(b) = C(b - 1) + w /\ C(e - 1) + y = q /\ C(e) = C(e - 1) + v
      /\ w = Dens * r[b] /\ v = Dens * r[e]
  BY DEF ReadIn
<1>4. \A n \in 0 .. BINS : C(n) \in Nat /\ \A m \in 0 .. n : C(m) <= C(n)
  <2>. SUFFICES ASSUME NEW n \in 0 .. BINS, NEW m \in 0 .. n PROVE C(n) \in Nat /\ C(m) <= C(n)
    BY <1>1
  <2>1. m \in 0 .. BINS
    BY <1>1
  <2>2. cumsum(r, m) \in Nat /\ cumsum(r, n) \in Nat /\ cumsum(r, m) <= cumsum(r, n)
    BY <1>1, <2>1, CumFacts, CumRises
  <2>. QED  BY <1>1, <2>2
<1>. HIDE DEF C, p, q, S
<1>5. b <= e
  <2>. SUFFICES ASSUME e < b PROVE FALSE
    BY <1>1
  <2>1. b - 1 \in 0 .. BINS /\ e \in 0 .. b - 1 /\ e - 1 \in 0 .. BINS /\ e \in 0 .. BINS
    BY <1>1
  <2>2. C(e) <= C(b - 1) /\ C(e) \in Nat /\ C(b - 1) \in Nat /\ C(e - 1) \in Nat
    BY <1>4, <2>1
  <2>. QED  BY <1>1, <1>2, <1>3, <2>2
<1>6. CASE b = e
  <2>1. w = v
    BY <1>3, <1>6
  <2>2. x < y
    <3>1. b - 1 \in 0 .. BINS
      BY <1>1
    <3>2. C(b - 1) \in Nat
      BY <1>4, <3>1
    <3>. QED  BY <1>1, <1>2, <1>3, <1>6, <3>2
  <2>3. (b - 1) * w \in Nat /\ BINS * w \in Nat \ {0}
    BY <1>1
  <2>4. (b - 1) * w + x < (b - 1) * w + y
    BY <1>1, <2>2, <2>3
  <2>5. ((b - 1) * w + x) * (BINS * w) < ((b - 1) * w + y) * (BINS * w)
    <3>. DEFINE m == (b - 1) * w + x
                n == (b - 1) * w + y
                k == BINS * w
    <3>1. m \in Nat /\ n \in Nat /\ k \in Nat \ {0} /\ m < n
      BY <1>1, <2>1, <2>3, <2>4
    <3>. HIDE DEF m, n, k
    <3>2. m * k < n * k
      BY <3>1
    <3>. QED  BY <3>2 DEF m, n, k
  <2>. QED  BY <1>1, <1>6, <2>1, <2>5 DEF Less
<1>7. CASE b < e
  <2>. DEFINE m == (b - 1) * w + x
              n == (e - 1) * v + y
  <2>1. (b - 1) * w \in Nat /\ (b - 1) * w + w = b * w /\ (e - 1) * v \in Nat /\ b * w \in Nat /\ b * v \in Nat
    BY <1>1
  <2>2. m \in Nat /\ m < b * w
    BY <1>1, <2>1
  <2>3. n \in Nat /\ b * v <= n
    <3>1. b * v <= (e - 1) * v
      BY <1>1, <1>7
    <3>. QED  BY <1>1, <2>1, <3>1
  <2>. HIDE DEF m, n
  <2>4. m * (BINS * v) < (b * w) * (BINS * v)
    <3>1. BINS * v \in Nat \ {0}
      BY <1>1
    <3>. DEFINE k == BINS * v
                l == b * w
    <3>2. k \in Nat \ {0} /\ l \in Nat /\ m < l
      BY <2>1, <2>2, <3>1
    <3>. HIDE DEF k, l
    <3>3. m * k < l * k
      BY <2>2, <3>2
    <3>. QED  BY <3>3 DEF k, l
  <2>5. (b * w) * (BINS * v) = (b * v) * (BINS * w)
    BY <1>1
  <2>6. (b * v) * (BINS * w) <= n * (BINS * w)
    <3>1. BINS * w \in Nat
      BY <1>1
    <3>. DEFINE k == BINS * w
                l == b * v
    <3>2. k \in Nat /\ l \in Nat /\ l <= n
      BY <2>1, <2>3, <3>1
    <3>. HIDE DEF k, l
    <3>3. l * k <= n * k
      BY <2>3, <3>2
    <3>. QED  BY <3>3 DEF k, l
  <2>7. m * (BINS * v) \in Int /\ (b * w) * (BINS * v) \in Int /\ n * (BINS * w) \in Int
    BY <1>1, <2>1, <2>2, <2>3
  <2>8. m * (BINS * v) < n * (BINS * w)
    BY <2>4, <2>5, <2>6, <2>7
  <2>. QED  BY <1>1, <2>8 DEF Less, m, n
<1>. QED  BY <1>1, <1>5, <1>6, <1>7

\* Under the level read lies a share alpha of the record.
LEMMA ShareRead ==
    ASSUME NEW r \in FullCounts, NEW a \in 1 .. Dens - 1, NEW b, NEW w, NEW x, ReadIn(r, a, b, w, x)
    PROVE  ShareUnder(r, Interp(r, a)).num * Dens = a * ShareUnder(r, Interp(r, a)).den
<1>. DEFINE S == SumOf(r)
            c == cumsum(r, b - 1)
            num == Interp(r, a).num
            den == Interp(r, a).den
            full == (num * BINS) \div den
            rest == num * BINS - full * den
            n == b - 1
<1>1. /\ BINS \in Nat \ {0} /\ Dens \in Nat \ {0} /\ S \in Nat \ {0} /\ r \in CountsOf
      /\ b \in 1 .. BINS /\ w \in Nat \ {0} /\ x \in 0 .. w - 1
      /\ num = n * w + x /\ den = BINS * w /\ w = Dens * r[b] /\ c * Dens + x = a * S
  BY FullFacts, CalibrationAssumption DEF ReadIn
<1>2. c \in Nat /\ r[b] \in Nat \ {0} /\ n \in Nat /\ n + 1 = b
  <2>1. b - 1 \in 0 .. BINS
    BY <1>1
  <2>. QED  BY <1>1, <2>1, CumFacts DEF FullCounts
<1>3. /\ ShareUnder(r, Interp(r, a)).num = cumsum(r, full) * den + (IF rest = 0 THEN 0 ELSE rest * r[full + 1])
      /\ ShareUnder(r, Interp(r, a)).den = S * den
  BY DEF ShareUnder
<1>. HIDE DEF num, den, S, c, n
<1>4. den \in Nat \ {0} /\ x * BINS \in 0 .. den - 1 /\ num * BINS = den * n + x * BINS /\ den * n = n * den
  <2>1. x * BINS < w * BINS /\ x * BINS \in Nat
    BY <1>1
  <2>2. w * BINS = BINS * w /\ BINS * w \in Nat \ {0}
    BY <1>1
  <2>3. (n * w + x) * BINS = (BINS * w) * n + x * BINS /\ (BINS * w) * n = n * (BINS * w)
    BY <1>1, <1>2
  <2>. QED  BY <1>1, <2>1, <2>2, <2>3
<1>5. full = n /\ rest = x * BINS
  <2>1. num * BINS \in Nat
    BY <1>1, <1>2, <1>4
  <2>2. full = n
    BY <1>2, <1>4, <2>1, LeftOver
  <2>3. den * n \in Nat /\ x * BINS \in Nat
    BY <1>1, <1>2, <1>4
  <2>. QED  BY <1>4, <2>2, <2>3
<1>6. cumsum(r, full) = c /\ r[full + 1] = r[b]
  BY <1>2, <1>5 DEF c, n
<1>. HIDE DEF full, rest
<1>7. (IF rest = 0 THEN 0 ELSE rest * r[full + 1]) = (x * BINS) * r[b]
  BY <1>1, <1>2, <1>5, <1>6
<1>8. (c * den + (x * BINS) * r[b]) * Dens = a * (S * den)
  <2>1. (c * den + (x * BINS) * r[b]) * Dens = (c * Dens) * den + x * (BINS * (Dens * r[b]))
    BY <1>1, <1>2, <1>4
  <2>2. BINS * (Dens * r[b]) = den
    BY <1>1
  <2>3. (c * Dens) * den + x * den = (c * Dens + x) * den
    BY <1>1, <1>2, <1>4
  <2>4. (a * S) * den = a * (S * den)
    BY <1>1, <1>4
  <2>. QED  BY <1>1, <2>1, <2>2, <2>3, <2>4
<1>. QED  BY <1>3, <1>6, <1>7, <1>8

\* A default record is enough by itself.
LEMMA EnoughFacts ==
    ASSUME NEW h \in CountsOf, NEW d \in CountsOf
    PROVE  /\ Unit(d) \in Nat \ {0} /\ counts(h, d) \in FullCounts
           /\ d # Blank => ~TooLittle(h, d)
<1>. DEFINE u == Unit(d)
            W == Weighed(h, d)
            K == DEFAULT_WEIGHT
<1>1. /\ {BINS, K, MIN_HISTORY, Sliver} \subseteq Nat \ {0} /\ K >= MIN_HISTORY
      /\ \A b \in 1 .. BINS : h[b] \in Nat /\ d[b] \in Nat
  BY CalibrationAssumption DEF CountsOf
<1>2. SumOf(d) \in Nat
  <2>1. BINS \in 0 .. BINS
    BY <1>1
  <2>. QED  BY <2>1, CumFacts
<1>3. u \in Nat \ {0}
  BY <1>2 DEF Unit
<1>. HIDE DEF u, K
<1>4. \A b \in 1 .. BINS : W[b] = h[b] * u + d[b] * K /\ W[b] \in Nat
  <2>. SUFFICES ASSUME NEW b \in 1 .. BINS PROVE W[b] = h[b] * u + d[b] * K /\ W[b] \in Nat
    OBVIOUS
  <2>1. W[b] = h[b] * u + d[b] * K
    BY DEF Weighed, u, K
  <2>2. h[b] * u \in Nat /\ d[b] * K \in Nat
    BY <1>1, <1>3
  <2>. QED  BY <2>1, <2>2
<1>5. W \in CountsOf
  BY <1>4 DEF Weighed, CountsOf
<1>. HIDE DEF W
<1>6. counts(h, d) \in FullCounts
  <2>1. counts(h, d) = [b \in 1 .. BINS |-> W[b] * Sliver + u]
    BY DEF counts, W, u
  <2>2. \A b \in 1 .. BINS : W[b] * Sliver + u \in Nat \ {0}
    <3>. SUFFICES ASSUME NEW b \in 1 .. BINS PROVE W[b] * Sliver + u \in Nat \ {0}
      OBVIOUS
    <3>1. W[b] * Sliver \in Nat
      BY <1>1, <1>4
    <3>. QED  BY <1>3, <3>1
  <2>. QED  BY <2>1, <2>2 DEF FullCounts
<1>7. ASSUME d # Blank PROVE ~TooLittle(h, d)
  <2>. DEFINE T == {n \in Nat : n <= BINS => cumsum(d, n) * K <= cumsum(W, n)}
  <2>1. 0 \in T
    <3>1. cumsum(d, 0) = 0 /\ cumsum(W, 0) = 0 /\ 0 * K <= 0
      BY <1>1, <1>5, CumFacts
    <3>. QED  BY <3>1
  <2>2. ASSUME NEW n \in T PROVE n + 1 \in T
    <3>. SUFFICES ASSUME n + 1 <= BINS PROVE cumsum(d, n + 1) * K <= cumsum(W, n + 1)
      OBVIOUS
    <3>1. n + 1 \in 1 .. BINS /\ n \in 0 .. BINS /\ (n + 1) - 1 = n
      BY <1>1
    <3>. DEFINE p == cumsum(d, n)
                q == cumsum(W, n)
                m == d[n + 1]
    <3>2. p \in Nat /\ q \in Nat /\ p * K <= q /\ m \in Nat /\ K \in Nat /\ h[n + 1] * u \in Nat
      BY <1>1, <1>3, <1>5, <3>1, CumFacts
    <3>3. cumsum(d, n + 1) = p + m /\ cumsum(W, n + 1) = q + W[n + 1] /\ W[n + 1] = h[n + 1] * u + m * K
      <4>1. cumsum(d, n + 1) = cumsum(d, (n + 1) - 1) + d[n + 1] /\ cumsum(W, n + 1) = cumsum(W, (n + 1) - 1) + W[n + 1]
        BY <1>5, <3>1, CumFacts
      <4>. QED  BY <1>4, <3>1, <4>1
    <3>. HIDE DEF p, q, m
    <3>4. (p + m) * K = p * K + m * K /\ p * K \in Nat /\ m * K \in Nat
      BY <3>2
    <3>. QED  BY <3>2, <3>3, <3>4
  <2>3. BINS \in T
    <3>1. T \in SUBSET Nat
      OBVIOUS
    <3>. HIDE DEF T
    <3>. QED  BY <1>1, <2>1, <2>2, <3>1, Inductive
  <2>4. SumOf(d) * K <= SumOf(W)
    BY <1>5, <2>3, CumFacts
  <2>5. SumOf(d) > 0
    <3>1. PICK b \in 1 .. BINS : d[b] # 0
      <4>. SUFFICES ASSUME \A b \in 1 .. BINS : d[b] = 0 PROVE FALSE
        OBVIOUS
      <4>. QED  BY <1>7 DEF Blank, CountsOf
    <3>2. b \in 0 .. BINS /\ b - 1 \in 0 .. BINS /\ BINS \in 0 .. BINS
      BY <1>1
    <3>3. cumsum(d, b) = cumsum(d, b - 1) + d[b] /\ cumsum(d, b - 1) \in Nat /\ cumsum(d, b) <= cumsum(d, BINS)
      <4>1. b \in 0 .. BINS
        BY <3>2
      <4>. QED  BY <1>1, <3>2, CumFacts, CumRises
    <3>4. d[b] \in Nat \ {0} /\ cumsum(d, BINS) = SumOf(d)
      BY <1>1, <3>1, CumFacts
    <3>. QED  BY <1>2, <3>3, <3>4
  <2>6. u = SumOf(d)
    BY <2>5 DEF Unit, u
  <2>7. MIN_HISTORY * u <= SumOf(d) * K
    <3>1. MIN_HISTORY * u <= K * u /\ K * u = u * K
      BY <1>1, <1>3
    <3>. QED  BY <2>6, <3>1
  <2>8. SumOf(W) \in Nat
    <3>1. BINS \in 0 .. BINS
      BY <1>1
    <3>. QED  BY <1>5, <3>1, CumFacts
  <2>9. ~(SumOf(W) < MIN_HISTORY * u)
    <3>1. MIN_HISTORY * u \in Int /\ SumOf(d) * K \in Int
      BY <1>1, <1>2, <1>3
    <3>. QED  BY <2>4, <2>7, <2>8, <3>1
  <2>. QED  BY <2>9 DEF TooLittle, u, W
<1>. QED  BY <1>3, <1>6, <1>7 DEF u

LEMMA LevelsHold ==
    ASSUME NEW h \in CountsOf, NEW d \in CountsOf
    PROVE  /\ LevelsAreTheRecords(h, d)
           /\ \A a \in 1 .. Dens - 1 : levels(a, h, d).num \in Nat /\ levels(a, h, d).den \in Nat \ {0}
<1>. DEFINE r == counts(h, d)
            at(a) == levels(a, h, d)
<1>1. r \in FullCounts /\ Dens \in Nat \ {0}
  BY EnoughFacts, CalibrationAssumption
<1>. HIDE DEF r
<1>2. CASE TooLittle(h, d)
  <2>1. \A a : at(a) = [num |-> a, den |-> Dens]
    BY <1>2 DEF levels
  <2>2. \A a : at(a).num = a /\ at(a).den = Dens
    BY <2>1
  <2>. HIDE DEF at
  <2>3. \A a, b \in 1 .. Dens - 1 : a < b => a * Dens < b * Dens
    BY <1>1
  <2>4. d # Blank => ~TooLittle(h, d)
    BY EnoughFacts
  <2>5. \A a, b \in 1 .. Dens - 1 : a < b => Less(at(a), at(b))
    BY <2>2, <2>3 DEF Less
  <2>6. \A a \in 1 .. Dens - 1 : at(a).num \in 1 .. at(a).den - 1 /\ at(a).num \in Nat /\ at(a).den \in Nat \ {0}
    BY <1>1, <2>2
  <2>. QED  BY <1>2, <2>4, <2>5, <2>6 DEF LevelsAreTheRecords, at
<1>3. CASE ~TooLittle(h, d)
  <2>1. \A a : at(a) = Interp(r, a)
    BY <1>3 DEF levels, r
  <2>. HIDE DEF at
  <2>2. ASSUME NEW a \in 1 .. Dens - 1
        PROVE  LET s == ShareUnder(r, at(a)) IN s.num * Dens = a * s.den
    <3>1. PICK b, w, x : ReadIn(r, a, b, w, x)
      BY <1>1, ReadFacts
    <3>. QED  BY <1>1, <2>1, <3>1, ShareRead
  <2>3. ASSUME NEW a \in 1 .. Dens - 1, NEW b \in 1 .. Dens - 1, a < b PROVE Less(at(a), at(b))
    <3>1. PICK k, w, x : ReadIn(r, a, k, w, x)
      BY <1>1, ReadFacts
    <3>2. PICK l, v, y : ReadIn(r, b, l, v, y)
      BY <1>1, ReadFacts
    <3>3. Less(Interp(r, a), Interp(r, b))
      BY <1>1, <2>3, <3>1, <3>2, LevelsRise
    <3>. QED  BY <2>1, <3>3
  <2>4. ASSUME NEW a \in 1 .. Dens - 1
        PROVE  at(a).num \in 1 .. at(a).den - 1 /\ at(a).den \in Nat \ {0}
    <3>1. PICK b, w, x : ReadIn(r, a, b, w, x)
      BY <1>1, ReadFacts
    <3>2. Interp(r, a).den \in Nat \ {0} /\ Interp(r, a).num \in 1 .. Interp(r, a).den - 1
      BY <1>1, <3>1, LevelWithin
    <3>. QED  BY <2>1, <3>2
  <2>5. \A a \in 1 .. Dens - 1 : at(a).num \in Nat
    BY <2>4
  <2>. QED  BY <1>3, <2>2, <2>3, <2>4, <2>5 DEF LevelsAreTheRecords, at, r
<1>. QED  BY <1>2, <1>3

\* A grid re-read, or given back, has each level where the record has it.
LEMMA RereadHolds ==
    ASSUME NEW h \in CountsOf, NEW d \in CountsOf
    PROVE  RecalibratesEveryLevel(h, d)
<1>. DEFINE N == Dens - 1
            at  == [k \in 1 .. N |-> k]
            row == [k \in DOMAIN at |-> [at |-> Level(at[k])]]
            got == recalibrate(row, at, h, d)
            lv(k) == levels(k, h, d)
            reach(k) == Between(Level(1), lv(k), Level(N))
            same == \A k \in DOMAIN at : Same(levels(at[k], h, d), Level(at[k]))
<1>. SUFFICES ASSUME NEW k \in 1 .. N PROVE Same(got[k].at, reach(k))
  BY DEF RecalibratesEveryLevel
<1>1. Dens \in Nat \ {0} /\ N \in Nat \ {0} /\ k \in Nat \ {0} /\ k <= N
  BY CalibrationAssumption
<1>2. lv(k).num \in Nat /\ lv(k).den \in Nat \ {0}
  BY LevelsHold
<1>3. \A a : Level(a).num = a /\ Level(a).den = Dens
  BY DEF Level
<1>4. DOMAIN at = 1 .. N /\ Len(at) = N /\ at[1] = 1 /\ at[N] = N /\ \A j \in 1 .. N : at[j] = j
  BY <1>1
<1>5. \A j \in 1 .. N : row[j].at = Level(j)
  BY <1>4
<1>. HIDE DEF lv
<1>6. CASE same
  <2>1. got = row
    BY <1>6 DEF recalibrate
  <2>2. Same(lv(k), Level(k))
    BY <1>4, <1>6 DEF lv
  <2>3. lv(k).num * Dens = k * lv(k).den
    BY <1>3, <2>2 DEF Same
  <2>4. ~Less(lv(k), Level(1))
    <3>. DEFINE m == lv(k).num * Dens
                e == lv(k).den
    <3>1. m = k * e /\ e \in Nat \ {0}
      BY <1>2, <2>3
    <3>. HIDE DEF m, e
    <3>2. e <= k * e /\ k * e \in Nat /\ 1 * e = e
      BY <1>1, <3>1
    <3>3. ~(m < 1 * e)
      BY <3>1, <3>2
    <3>. QED  BY <1>3, <3>3 DEF Less, m, e
  <2>5. ~Less(Level(N), lv(k))
    <3>. DEFINE m == lv(k).num * Dens
                e == lv(k).den
    <3>1. m = k * e /\ e \in Nat \ {0}
      BY <1>2, <2>3
    <3>. HIDE DEF m, e, N
    <3>2. k * e <= N * e /\ k * e \in Nat /\ N * e \in Nat
      BY <1>1, <3>1
    <3>3. ~(N * e < m)
      BY <3>1, <3>2
    <3>. QED  BY <1>3, <3>3 DEF Less, m, e
  <2>6. reach(k) = lv(k)
    BY <2>4, <2>5 DEF Between
  <2>7. Same(Level(k), lv(k))
    BY <2>2 DEF Same
  <2>. QED  BY <1>5, <2>1, <2>6, <2>7
<1>7. CASE ~same
  <2>. DEFINE within == Between(Level(at[1]), lv(k), Level(at[Len(at)]))
              own == {j \in DOMAIN at : Same(within, Level(at[j]))}
  <2>1. got[k] = interp(lv(k), at, row)
    <3>1. got = re_read(at, at, row, h, d)
      BY <1>7 DEF recalibrate
    <3>2. k \in DOMAIN at /\ at[k] = k
      BY <1>4
    <3>. HIDE DEF at, row, got
    <3>. QED  BY <3>1, <3>2 DEF re_read, lv
  <2>2. within = reach(k)
    BY <1>4
  <2>3. interp(lv(k), at, row)
          = IF own # {} THEN row[CHOOSE j \in own : TRUE] ELSE [row |-> row, at |-> within]
    BY DEF interp
  <2>. HIDE DEF within, got, at, row
  <2>4. CASE own # {}
    <3>. DEFINE j == CHOOSE j \in own : TRUE
    <3>1. j \in own
      BY <2>4
    <3>. HIDE DEF j
    <3>2. j \in 1 .. N /\ Same(within, Level(j))
      BY <1>4, <3>1
    <3>3. got[k].at = Level(j)
      BY <1>5, <2>1, <2>3, <2>4, <3>2 DEF j
    <3>. QED  BY <2>2, <3>2, <3>3 DEF Same
  <2>5. CASE own = {}
    <3>1. got[k].at = within
      BY <2>1, <2>3, <2>5
    <3>. QED  BY <2>2, <3>1 DEF Same
  <2>. QED  BY <2>4, <2>5
<1>. QED  BY <1>6, <1>7

\* Larger actuals have larger PITs, and each has a bin.
LEMMA PitsHold ==
    ASSUME NEW grid \in Seq(Int), NEW actuals \in SUBSET Int
    PROVE  PitsFollowActuals(grid, actuals)
<1>. DEFINE n == Len(grid)
            U(a) == Cardinality(Under(grid, a))
            T(a) == Cardinality(Tied(grid, a))
            den == (n + 1) * Dens
<1>1. n \in Nat /\ DOMAIN grid = 1 .. n /\ Dens \in Nat \ {0} /\ BINS \in Nat \ {0}
      /\ \A k \in 1 .. n : grid[k] \in Int
  BY CalibrationAssumption
<1>2. IsFiniteSet(DOMAIN grid) /\ Cardinality(DOMAIN grid) = n
  <2>1. n \in Nat
    BY <1>1
  <2>2. IsFiniteSet(1 .. n) /\ Cardinality(1 .. n) = n
    <3>. HIDE DEF n
    <3>1. IsFiniteSet(1 .. n) /\ Cardinality(1 .. n) = IF 1 > n THEN 0 ELSE n - 1 + 1
      BY <2>1, FS_Interval
    <3>. QED  BY <2>1, <3>1
  <2>. QED  BY <1>1, <2>2
<1>3. ASSUME NEW a \in Int
      PROVE  /\ U(a) \in Nat /\ T(a) \in Nat /\ IsFiniteSet(Under(grid, a))
             /\ IsFiniteSet(Under(grid, a) \union Tied(grid, a))
             /\ Cardinality(Under(grid, a) \union Tied(grid, a)) = U(a) + T(a)
             /\ U(a) + T(a) <= n
  <2>1. Under(grid, a) \subseteq DOMAIN grid /\ Tied(grid, a) \subseteq DOMAIN grid
    BY DEF Under, Tied
  <2>2. IsFiniteSet(Under(grid, a)) /\ IsFiniteSet(Tied(grid, a)) /\ IsFiniteSet(Under(grid, a) \union Tied(grid, a))
    <3>1. Under(grid, a) \union Tied(grid, a) \subseteq DOMAIN grid
      BY <2>1
    <3>. QED  BY <1>2, <2>1, <3>1, FS_Subset
  <2>3. Under(grid, a) \intersect Tied(grid, a) = {}
    BY <1>1 DEF Under, Tied
  <2>4. U(a) \in Nat /\ T(a) \in Nat
    BY <2>2, FS_CardinalityType
  <2>5. Cardinality(Under(grid, a) \union Tied(grid, a)) = U(a) + T(a) - Cardinality({})
    BY <2>2, <2>3, FS_Union
  <2>6. Cardinality({}) = 0
    BY FS_EmptySet
  <2>7. Cardinality(Under(grid, a) \union Tied(grid, a)) <= Cardinality(DOMAIN grid)
    <3>1. Under(grid, a) \union Tied(grid, a) \subseteq DOMAIN grid
      BY <2>1
    <3>. QED  BY <1>2, <3>1, FS_Subset
  <2>. HIDE DEF U, T
  <2>. QED  BY <1>1, <1>2, <2>2, <2>4, <2>5, <2>6, <2>7
<1>4. ASSUME NEW a \in Int, NEW b \in Int, a < b PROVE U(a) + T(a) <= U(b)
  <2>1. Under(grid, a) \union Tied(grid, a) \subseteq Under(grid, b)
    BY <1>1, <1>4 DEF Under, Tied
  <2>2. Cardinality(Under(grid, a) \union Tied(grid, a)) <= Cardinality(Under(grid, b))
    BY <1>3, <2>1, FS_Subset
  <2>. QED  BY <1>3, <2>2
<1>5. \A a, e : pit(grid, a, e).num = U(a) * Dens + T(a) * e /\ pit(grid, a, e).den = den
  BY DEF pit
<1>. HIDE DEF U, T
<1>6. ASSUME NEW a \in Int, NEW e \in 0 .. Dens - 1
      PROVE  /\ U(a) * Dens + T(a) * e \in Nat
             /\ U(a) * Dens + T(a) * e <= (U(a) + T(a)) * Dens
             /\ U(a) * Dens <= U(a) * Dens + T(a) * e
  <2>1. U(a) \in Nat /\ T(a) \in Nat
    BY <1>3
  <2>2. U(a) * Dens \in Nat /\ T(a) * e \in Nat /\ T(a) * e <= T(a) * Dens
    BY <1>1, <2>1
  <2>3. (U(a) + T(a)) * Dens = U(a) * Dens + T(a) * Dens /\ T(a) * Dens \in Nat
    BY <1>1, <2>1
  <2>. QED  BY <2>2, <2>3
<1>7. den \in Nat \ {0}
  BY <1>1
<1>8. ASSUME NEW a \in actuals, NEW b \in actuals, NEW e \in 0 .. Dens - 1, NEW f \in 0 .. Dens - 1, a < b
      PROVE  AtMost(pit(grid, a, e), pit(grid, b, f))
  <2>. DEFINE p == U(a) * Dens + T(a) * e
              q == U(b) * Dens + T(b) * f
  <2>1. a \in Int /\ b \in Int
    OBVIOUS
  <2>2. U(a) + T(a) <= U(b) /\ U(a) + T(a) \in Nat /\ U(b) \in Nat
    <3>1. U(a) + T(a) <= U(b)
      BY <1>4, <1>8, <2>1
    <3>2. U(a) \in Nat /\ T(a) \in Nat /\ U(b) \in Nat
      BY <1>3, <2>1
    <3>. QED  BY <3>1, <3>2
  <2>3. (U(a) + T(a)) * Dens <= U(b) * Dens
    <3>. DEFINE m == U(a) + T(a)
    <3>1. m \in Nat /\ m <= U(b) /\ U(b) \in Nat
      BY <2>2
    <3>. HIDE DEF m
    <3>2. m * Dens <= U(b) * Dens
      BY <1>1, <3>1
    <3>. QED  BY <3>2 DEF m
  <2>4. p \in Nat /\ q \in Nat /\ p <= (U(a) + T(a)) * Dens /\ U(b) * Dens <= q
    BY <1>6, <2>1
  <2>5. p <= q
    <3>1. (U(a) + T(a)) * Dens \in Int /\ U(b) * Dens \in Int
      BY <1>1, <2>2
    <3>. QED  BY <2>3, <2>4, <3>1
  <2>. HIDE DEF den, p, q
  <2>6. p * den <= q * den
    BY <1>7, <2>4, <2>5
  <2>. QED  BY <1>5, <2>6 DEF AtMost, p, q
<1>9. ASSUME NEW a \in actuals, NEW e \in 0 .. Dens - 1
      PROVE  histogramBin(pit(grid, a, e)) \in 1 .. BINS
  <2>. DEFINE p == U(a) * Dens + T(a) * e
  <2>1. a \in Int
    OBVIOUS
  <2>2. p \in Nat /\ p <= (U(a) + T(a)) * Dens /\ U(a) + T(a) <= n /\ U(a) + T(a) \in Nat
    <3>1. U(a) \in Nat /\ T(a) \in Nat /\ U(a) + T(a) <= n
      BY <1>3, <2>1
    <3>2. p \in Nat /\ p <= (U(a) + T(a)) * Dens
      BY <1>6, <2>1
    <3>. QED  BY <3>1, <3>2
  <2>3. p < den
    <3>. DEFINE m == U(a) + T(a)
    <3>1. m \in Nat /\ m <= n /\ p \in Nat /\ p <= m * Dens
      BY <2>2
    <3>3. n \in Nat
      BY <1>1
    <3>. HIDE DEF m, p, n
    <3>2. m * Dens <= n * Dens /\ n * Dens < den /\ m * Dens \in Nat /\ n * Dens \in Nat /\ den \in Nat
      BY <1>1, <3>1, <3>3
    <3>. HIDE DEF den
    <3>. QED  BY <3>1, <3>2
  <2>. HIDE DEF den, p
  <2>4. p * BINS < BINS * den /\ p * BINS \in Nat
    BY <1>1, <1>7, <2>2, <2>3
  <2>5. (p * BINS) \div den \in 0 .. BINS - 1
    <3>. DEFINE m == p * BINS
    <3>1. m \in Nat /\ m < BINS * den
      BY <2>4
    <3>. HIDE DEF m
    <3>2. m \div den \in Nat /\ m % den \in 0 .. den - 1 /\ m = den * (m \div den) + (m % den)
      BY <1>7, <3>1, Divided
    <3>. DEFINE q == m \div den
                s == m % den
    <3>3. q \in Nat /\ s \in 0 .. den - 1 /\ m = den * q + s
      BY <3>2
    <3>. HIDE DEF q, s
    <3>4. q < BINS
      <4>. SUFFICES ASSUME BINS <= q PROVE FALSE
        BY <1>1, <3>3
      <4>1. BINS * den <= q * den /\ q * den = den * q /\ BINS * den \in Nat /\ q * den \in Nat
        BY <1>1, <1>7, <3>3
      <4>. QED  BY <1>7, <3>1, <3>3, <4>1
    <3>5. q \in 0 .. BINS - 1
      BY <1>1, <3>3, <3>4
    <3>. QED  BY <3>5 DEF q, m
  <2>6. (p * BINS) \div den + 1 \in 1 .. BINS
    BY <1>1, <2>5
  <2>. QED  BY <1>5, <2>6 DEF histogramBin, p
<1>. QED  BY <1>8, <1>9 DEF PitsFollowActuals

-----------------------------------------------------------------------------
(* Fractions in order, and rows that are in order already. *)

Fraction(x) == x.num \in Nat /\ x.den \in Nat \ {0}

\* The order of fractions is one.
LEMMA AtMostFacts ==
    ASSUME NEW x, NEW y, NEW z, Fraction(x), Fraction(y), Fraction(z)
    PROVE  /\ Less(x, y) <=> ~AtMost(y, x)
           /\ Same(x, y) <=> AtMost(x, y) /\ AtMost(y, x)
           /\ AtMost(x, y) /\ AtMost(y, z) => AtMost(x, z)
<1>. DEFINE a == x.num
            b == x.den
            c == y.num
            d == y.den
            e == z.num
            f == z.den
<1>1. a \in Nat /\ c \in Nat /\ e \in Nat /\ b \in Nat \ {0} /\ d \in Nat \ {0} /\ f \in Nat \ {0}
  BY DEF Fraction
<1>2. /\ Less(x, y) <=> a * d < c * b
      /\ AtMost(y, x) <=> c * b <= a * d
      /\ AtMost(x, y) <=> a * d <= c * b
      /\ Same(x, y) <=> a * d = c * b
      /\ AtMost(y, z) <=> c * f <= e * d
      /\ AtMost(x, z) <=> a * f <= e * b
  BY DEF Less, AtMost, Same
<1>. HIDE DEF a, b, c, d, e, f
<1>3. ASSUME a * d <= c * b, c * f <= e * d PROVE a * f <= e * b
  <2>1. a * d * f <= c * b * f
    BY <1>1, <1>3
  <2>2. c * f * b <= e * d * b
    BY <1>1, <1>3
  <2>3. (a * f) * d <= (e * b) * d
    BY <1>1, <2>1, <2>2
  <2>. DEFINE p == a * f
              q == e * b
  <2>4. p \in Nat /\ q \in Nat /\ p * d <= q * d
    BY <1>1, <2>3
  <2>. HIDE DEF p, q
  <2>5. p <= q
    BY <1>1, <2>4
  <2>. QED  BY <2>5 DEF p, q
<1>4. a * d \in Nat /\ c * b \in Nat
  BY <1>1
<1>. QED  BY <1>2, <1>3, <1>4

\* What is cut off at two ends is in the order it was in.
LEMMA BetweenRises ==
    ASSUME NEW low, NEW high, NEW x, NEW y, Fraction(low), Fraction(high), Fraction(x), Fraction(y),
           AtMost(low, high), AtMost(x, y)
    PROVE  AtMost(Between(low, x, high), Between(low, y, high)) /\ Fraction(Between(low, x, high))
<1>1. \A p, q \in {low, high, x, y} : Less(p, q) <=> ~AtMost(q, p)
  BY AtMostFacts
<1>2. \A p, q, r \in {low, high, x, y} : AtMost(p, q) /\ AtMost(q, r) => AtMost(p, r)
  BY AtMostFacts
<1>3. \A p, q \in {low, high, x, y} : AtMost(p, q) \/ AtMost(q, p)
  BY DEF Fraction, AtMost
<1>. QED  BY <1>1, <1>2, <1>3 DEF Between

LEMMA UpToCount ==
    ASSUME NEW n \in Nat
    PROVE  IsFiniteSet(1 .. n) /\ Cardinality(1 .. n) = n
<1>1. IsFiniteSet(1 .. n) /\ Cardinality(1 .. n) = IF 1 > n THEN 0 ELSE n - 1 + 1
  BY FS_Interval
<1>. QED  BY <1>1

\* A row that rises is sorted as it is.
LEMMA RisingStays ==
    ASSUME NEW n \in Nat, NEW row, row = [l \in 1 .. n |-> row[l]],
           \A j, k \in 1 .. n : j <= k => ~Earlier(row[k], row[j])
    PROVE  Sorted(row) = row
<1>. DEFINE before(k) == {j \in DOMAIN row : Earlier(row[j], row[k]) \/ (~Earlier(row[k], row[j]) /\ j < k)}
            place(k) == 1 + Cardinality(before(k))
<1>1. DOMAIN row = 1 .. n
  OBVIOUS
<1>2. ASSUME NEW k \in 1 .. n PROVE place(k) = k
  <2>1. before(k) = 1 .. k - 1
    BY <1>1
  <2>. DEFINE m == k - 1
  <2>2. m \in Nat /\ 1 + m = k
    OBVIOUS
  <2>. HIDE DEF before, m
  <2>3. Cardinality(1 .. m) = m
    BY <2>2, UpToCount
  <2>4. Cardinality(before(k)) = m
    BY <2>1, <2>2, <2>3 DEF m
  <2>. QED  BY <2>2, <2>4
<1>3. Sorted(row) = [l \in DOMAIN row |-> row[CHOOSE k \in DOMAIN row : place(k) = l]]
  BY DEF Sorted, InOrder
<1>. HIDE DEF place, before
<1>4. \A l \in 1 .. n : (CHOOSE k \in DOMAIN row : place(k) = l) = l
  BY <1>1, <1>2
<1>5. Sorted(row) = [l \in 1 .. n |-> row[l]]
  BY <1>1, <1>3, <1>4
<1>. QED  BY <1>5

-----------------------------------------------------------------------------
(* A voice read at the alphas asked, and through its record. *)

SomeAlphas(alphas) == alphas \in Seq(1 .. Dens - 1)

Rising(alphas) == SomeAlphas(alphas) /\ Rises(alphas)

LEMMA GridFacts ==
    /\ Dens - 1 \in Nat \ {0} /\ Len(GRID) = Dens - 1 /\ Rising(GRID)
    /\ DOMAIN GRID = 1 .. Dens - 1 /\ \A k \in 1 .. Dens - 1 : GRID[k] = k
    /\ 1 \in 1 .. Dens - 1 /\ Dens - 1 \in 1 .. Dens - 1 /\ 1 <= Dens - 1
<1>. DEFINE N == Dens - 1
<1>1. N \in Nat \ {0}
  BY ServedAssumption, CalibrationAssumption
<1>. HIDE DEF N
<1>. DEFINE grid == [k \in 1 .. N |-> k]
<1>2. grid \in Seq(1 .. N) /\ DOMAIN grid = 1 .. N /\ \A k \in 1 .. N : grid[k] = k
  BY <1>1
<1>. HIDE DEF grid
<1>3. Len(grid) = N
  BY <1>1, <1>2
<1>4. GRID = grid
  BY DEF GRID, grid, N
<1>5. \A j, k \in 1 .. N : j < k => grid[j] <= grid[k]
  BY <1>2
<1>6. 1 \in 1 .. N /\ N \in 1 .. N /\ 1 <= N
  BY <1>1
<1>. QED  BY <1>1, <1>2, <1>3, <1>4, <1>5, <1>6 DEF Rising, SomeAlphas, Rises, N

LEMMA LevelFacts ==
    ASSUME NEW a \in 1 .. Dens - 1, NEW b \in 1 .. Dens - 1, a <= b
    PROVE  Fraction(Level(a)) /\ AtMost(Level(a), Level(b))
<1>1. Dens \in Nat \ {0}
  BY CalibrationAssumption
<1>. QED  BY <1>1 DEF Fraction, Level, AtMost

\* Where a record reads rising alphas rises.
LEMMA ReadingsRise ==
    ASSUME NEW alphas, Rising(alphas), NEW h \in CountsOf, NEW d \in CountsOf
    PROVE  \A j, k \in DOMAIN alphas :
              /\ Fraction(levels(alphas[j], h, d))
              /\ j <= k => AtMost(levels(alphas[j], h, d), levels(alphas[k], h, d))
<1>1. \A a \in 1 .. Dens - 1 : Fraction(levels(a, h, d))
  BY LevelsHold DEF Fraction
<1>2. \A a, b \in 1 .. Dens - 1 : a < b => Less(levels(a, h, d), levels(b, h, d))
  BY LevelsHold DEF LevelsAreTheRecords
<1>3. ASSUME NEW a \in 1 .. Dens - 1, NEW b \in 1 .. Dens - 1, a <= b
      PROVE  AtMost(levels(a, h, d), levels(b, h, d))
  <2>1. CASE a = b
    <3>1. Fraction(levels(a, h, d))
      BY <1>1
    <3>. QED  BY <2>1, <3>1 DEF AtMost, Fraction
  <2>2. CASE a < b
    <3>1. Less(levels(a, h, d), levels(b, h, d)) /\ Fraction(levels(a, h, d)) /\ Fraction(levels(b, h, d))
      BY <1>1, <1>2, <2>2
    <3>. QED  BY <3>1 DEF Less, AtMost, Fraction
  <2>3. Dens \in Nat
    BY CalibrationAssumption
  <2>. QED  BY <1>3, <2>1, <2>2, <2>3
<1>4. ASSUME NEW j \in DOMAIN alphas, NEW k \in DOMAIN alphas
      PROVE  /\ alphas[j] \in 1 .. Dens - 1 /\ alphas[k] \in 1 .. Dens - 1
             /\ j <= k => alphas[j] <= alphas[k]
  <2>1. alphas[j] \in 1 .. Dens - 1 /\ alphas[k] \in 1 .. Dens - 1 /\ j \in Nat /\ k \in Nat
    <3>. DEFINE S == 1 .. Dens - 1
    <3>1. alphas \in Seq(S)
      BY DEF Rising, SomeAlphas, Rises
    <3>. HIDE DEF S
    <3>2. alphas[j] \in S /\ alphas[k] \in S /\ j \in Nat /\ k \in Nat
      BY <3>1
    <3>. QED  BY <3>2 DEF S
  <2>2. Dens \in Nat
    BY CalibrationAssumption
  <2>3. CASE j = k
    BY <2>1, <2>2, <2>3
  <2>4. CASE j < k
    BY <2>1, <2>4 DEF Rising, SomeAlphas, Rises
  <2>. QED  BY <2>1, <2>3, <2>4
<1>. QED  BY <1>1, <1>3, <1>4

LEMMA DefaultCounts ==
    ASSUME NEW name, NEW window
    PROVE  default_record(name, window) \in CountsOf
<1>1. Blank \in CountsOf
  BY DEF Blank, CountsOf
<1>2. ASSUME NEW of \in {"months", "totals"}, name \in DOMAIN Shipped PROVE Shipped[name][of] \in CountsOf
  BY <1>2, ServedAssumption DEF CountsOf
<1>. QED  BY <1>1, <1>2 DEF default_record

\* What a voice says at rising levels is sorted as it is.
LEMMA SpokenStays ==
    ASSUME NEW name, NEW n \in Nat, NEW at, DOMAIN at = 1 .. n,
           \A j, k \in 1 .. n : Fraction(at[j]) /\ (j <= k => AtMost(at[j], at[k]))
    PROVE  Sorted(Spoken(name, at)) = Spoken(name, at)
<1>. DEFINE row == Spoken(name, at)
<1>1. row = [l \in 1 .. n |-> row[l]] /\ \A k \in 1 .. n : row[k].at = at[k]
  BY DEF Spoken
<1>. HIDE DEF row
<1>2. ASSUME NEW j \in 1 .. n, NEW k \in 1 .. n, j <= k PROVE ~Earlier(row[k], row[j])
  <2>1. Fraction(at[j]) /\ Fraction(at[k]) /\ AtMost(at[j], at[k])
    BY <1>2
  <2>2. ~Less(at[k], at[j])
    BY <2>1, AtMostFacts
  <2>. QED  BY <1>1, <2>2 DEF Earlier
<1>3. Sorted(row) = row
  BY <1>1, <1>2, RisingStays
<1>. QED  BY <1>3 DEF row

\* A grid's own row, read at a level, is at that level or the grid's end.
LEMMA InterpAt ==
    ASSUME NEW name, NEW level, Fraction(level)
    PROVE  LET within == Between(Level(1), level, Level(Dens - 1))
               got    == interp(level, GRID, OwnGrid(name))
           IN  Fraction(within) /\ Fraction(got.at) /\ Same(within, got.at)
<1>. DEFINE N == Dens - 1
            within == Between(Level(1), level, Level(N))
            row == OwnGrid(name)
            own == {k \in DOMAIN GRID : Same(within, Level(GRID[k]))}
            got == interp(level, GRID, row)
<1>1. N \in Nat \ {0} /\ DOMAIN GRID = 1 .. N /\ Len(GRID) = N /\ \A k \in 1 .. N : GRID[k] = k
  BY GridFacts
<1>2. 1 \in 1 .. N /\ N \in 1 .. N /\ GRID[1] = 1 /\ GRID[Len(GRID)] = N
  BY GridFacts
<1>3. Fraction(Level(1)) /\ Fraction(Level(N)) /\ AtMost(Level(1), Level(N))
  BY <1>1, <1>2, LevelFacts
<1>4. Fraction(within)
  BY <1>3 DEF Between
<1>5. got = IF own # {} THEN row[CHOOSE k \in own : TRUE] ELSE [row |-> row, at |-> within]
  <2>. HIDE DEF row, N
  <2>. QED  BY <1>2 DEF interp
<1>6. \A k \in 1 .. N : row[k].at = Level(k)
  BY <1>1 DEF OwnGrid, Spoken
<1>. HIDE DEF within, row, got, N
<1>7. CASE own # {}
  <2>. DEFINE j == CHOOSE k \in own : TRUE
  <2>1. j \in own
    BY <1>7
  <2>. HIDE DEF j
  <2>2. j \in 1 .. N /\ Same(within, Level(j))
    BY <1>1, <2>1
  <2>3. got.at = Level(j)
    BY <1>5, <1>6, <1>7, <2>2 DEF j
  <2>4. Fraction(Level(j))
    BY <2>2, <1>1, LevelFacts DEF N
  <2>. QED  BY <1>4, <2>2, <2>3, <2>4 DEF within, got, row, N
<1>8. CASE own = {}
  <2>1. got.at = within
    BY <1>5, <1>8
  <2>2. Same(within, within)
    BY DEF Same
  <2>. QED  BY <1>4, <2>1, <2>2 DEF within, got, row, N
<1>. QED  BY <1>7, <1>8

\* And so is a row of them.
LEMMA ReadStays ==
    ASSUME NEW name, NEW alphas, Rising(alphas), NEW h \in CountsOf, NEW d \in CountsOf
    PROVE  Sorted(re_read(alphas, GRID, OwnGrid(name), h, d)) = re_read(alphas, GRID, OwnGrid(name), h, d)
<1>. DEFINE n == Len(alphas)
            lv(k) == levels(alphas[k], h, d)
            got(k) == interp(lv(k), GRID, OwnGrid(name))
            row == re_read(alphas, GRID, OwnGrid(name), h, d)
            within(k) == Between(Level(1), lv(k), Level(Dens - 1))
<1>1. n \in Nat /\ DOMAIN alphas = 1 .. n
  BY DEF Rising, SomeAlphas, Rises
<1>2. \A j, k \in 1 .. n : Fraction(lv(j)) /\ (j <= k => AtMost(lv(j), lv(k)))
  BY <1>1, ReadingsRise
<1>3. row = [k \in 1 .. n |-> got(k)]
  BY <1>1 DEF re_read
<1>. HIDE DEF lv
<1>4. ASSUME NEW k \in 1 .. n PROVE Fraction(within(k)) /\ Fraction(got(k).at) /\ Same(within(k), got(k).at)
  <2>1. Fraction(lv(k))
    BY <1>2
  <2>. QED  BY <2>1, InterpAt
<1>5. ASSUME NEW j \in 1 .. n, NEW k \in 1 .. n, j <= k PROVE AtMost(within(j), within(k))
  <2>1. Fraction(lv(j)) /\ Fraction(lv(k)) /\ AtMost(lv(j), lv(k))
    BY <1>2, <1>5
  <2>2. 1 \in 1 .. Dens - 1 /\ Dens - 1 \in 1 .. Dens - 1 /\ 1 <= Dens - 1
    BY GridFacts
  <2>3. Fraction(Level(1)) /\ Fraction(Level(Dens - 1)) /\ AtMost(Level(1), Level(Dens - 1))
    BY <2>2, LevelFacts
  <2>. QED  BY <2>1, <2>3, BetweenRises
<1>. HIDE DEF got, within, row, n
<1>6. row = [k \in 1 .. n |-> row[k]] /\ \A k \in 1 .. n : row[k] = got(k)
  BY <1>3
<1>7. ASSUME NEW j \in 1 .. n, NEW k \in 1 .. n, j <= k PROVE ~Earlier(row[k], row[j])
  <2>. DEFINE p == got(j).at
              q == got(k).at
  <2>1. /\ Fraction(within(j)) /\ Fraction(within(k)) /\ Fraction(p) /\ Fraction(q)
        /\ Same(within(j), p) /\ Same(within(k), q) /\ AtMost(within(j), within(k))
    BY <1>4, <1>5, <1>7
  <2>. HIDE DEF p, q
  <2>2. AtMost(p, within(j)) /\ AtMost(within(k), q)
    BY <2>1, AtMostFacts
  <2>3. AtMost(p, within(k))
    BY <2>1, <2>2, AtMostFacts
  <2>4. AtMost(p, q)
    BY <2>1, <2>2, <2>3, AtMostFacts
  <2>5. ~Less(q, p)
    BY <2>1, <2>4, AtMostFacts
  <2>. QED  BY <1>6, <2>5 DEF Earlier, p, q
<1>8. Sorted(row) = row
  BY <1>1, <1>6, <1>7, RisingStays DEF n
<1>. QED  BY <1>8 DEF row

-----------------------------------------------------------------------------
(* What is asked in one row is cut apart where it was put together. *)

Listed(a, n) == a = [k \in 1 .. n |-> a[k]]

LEMMA ListOf ==
    ASSUME NEW n \in Nat, NEW a, Listed(a, n), NEW S, \A k \in 1 .. n : a[k] \in S
    PROVE  a \in Seq(S) /\ Len(a) = n
<1>1. a \in [1 .. n -> S]
  BY DEF Listed
<1>. QED  BY <1>1

\* A row cut after n.
CutAt(row, n, first, rest) == SubSeq(row, 1, n) = first /\ SubSeq(row, n + 1, Len(row)) = rest

LEMMA CutApart ==
    ASSUME NEW name, NEW n \in Nat, NEW m \in Nat,
           NEW a, Listed(a, n), NEW b, Listed(b, m)
    PROVE  CutAt(Spoken(name, a \o b), n, Spoken(name, a), Spoken(name, b))
<1>. DEFINE S == {a[k] : k \in 1 .. n} \union {b[k] : k \in 1 .. m}
            T == [by : {name}, at : S]
            ab == a \o b
            row == Spoken(name, ab)
<1>1. a \in Seq(S) /\ Len(a) = n /\ b \in Seq(S) /\ Len(b) = m
  <2>1. (\A k \in 1 .. n : a[k] \in S) /\ \A k \in 1 .. m : b[k] \in S
    OBVIOUS
  <2>. HIDE DEF S
  <2>. QED  BY <2>1, ListOf
<1>. HIDE DEF S
<1>2. /\ ab \in Seq(S) /\ Len(ab) = n + m /\ DOMAIN ab = 1 .. n + m
      /\ \A k \in 1 .. n : ab[k] = a[k]
      /\ \A k \in 1 .. m : ab[n + k] = b[k]
  BY <1>1
<1>. HIDE DEF ab
<1>3. row = [k \in 1 .. n + m |-> [by |-> name, at |-> ab[k]]]
  BY <1>2 DEF Spoken
<1>4. \A k \in 1 .. n + m : ab[k] \in S
  BY <1>2
<1>5. row \in [1 .. n + m -> T]
  BY <1>3, <1>4
<1>6. Spoken(name, a) = [k \in 1 .. n |-> [by |-> name, at |-> a[k]]]
      /\ Spoken(name, b) = [k \in 1 .. m |-> [by |-> name, at |-> b[k]]]
  BY DEF Spoken, Listed
<1>7. \A k \in 1 .. n + m : row[k] = [by |-> name, at |-> ab[k]]
  BY <1>3
<1>. HIDE DEF row, T
<1>8. row \in Seq(T) /\ Len(row) = n + m
  BY <1>5
<1>9. SubSeq(row, 1, n) = [k \in 1 .. n |-> row[k]] /\ SubSeq(row, n + 1, n + m) = [k \in 1 .. m |-> row[n + k]]
  BY <1>8
<1>10. SubSeq(row, 1, n) = Spoken(name, a)
  <2>1. ASSUME NEW k \in 1 .. n PROVE row[k] = [by |-> name, at |-> a[k]]
    <3>1. k \in 1 .. n + m
      OBVIOUS
    <3>2. row[k] = [by |-> name, at |-> ab[k]] /\ ab[k] = a[k]
      BY <1>2, <1>7, <3>1
    <3>. QED  BY <3>2
  <2>. QED  BY <1>6, <1>9, <2>1
<1>11. SubSeq(row, n + 1, n + m) = Spoken(name, b)
  <2>1. ASSUME NEW k \in 1 .. m PROVE row[n + k] = [by |-> name, at |-> b[k]]
    <3>1. n + k \in 1 .. n + m
      OBVIOUS
    <3>2. row[n + k] = [by |-> name, at |-> ab[n + k]] /\ ab[n + k] = b[k]
      BY <1>2, <1>7, <3>1
    <3>. QED  BY <3>2
  <2>. QED  BY <1>6, <1>9, <2>1
<1>. QED  BY <1>8, <1>10, <1>11 DEF row, ab, CutAt

\* What is known of a request that was parsed.
Understood(req) ==
    /\ SomeAlphas(req.alphas)
    /\ VoicesOf(req.voices) \subseteq VOICES
    /\ Several(req.voices) =>
          /\ req.voices \in Seq(STRING) /\ Len(req.voices) > 1 /\ VoicesOf(req.voices) = ToSet(req.voices)
          /\ DOMAIN req.histories \subseteq VoicesOf(req.voices) \union {"blend"}
    /\ ~Several(req.voices) =>
          /\ VoicesOf(req.voices) = {"tabicl"}
          /\ "tabicl" \in DOMAIN req.histories <=> req.recorded
          /\ DOMAIN req.histories \subseteq {"tabicl"}
    /\ \A name \in DOMAIN req.histories : req.histories[name] \in CountsOf

AtAlphas(req) == [i \in DOMAIN req.alphas |-> Level(req.alphas[i])]

LEMMA AlphasLength ==
    ASSUME NEW alphas, SomeAlphas(alphas)
    PROVE  Len(alphas) \in Nat /\ DOMAIN alphas = 1 .. Len(alphas)
<1>. DEFINE S == 1 .. Dens - 1
<1>1. alphas \in Seq(S)
  BY DEF SomeAlphas
<1>. HIDE DEF S
<1>. QED  BY <1>1

LEMMA AlphasFacts ==
    ASSUME NEW alphas, Rising(alphas)
    PROVE  /\ Len(alphas) \in Nat /\ DOMAIN alphas = 1 .. Len(alphas)
           /\ \A j, k \in 1 .. Len(alphas) :
                 Fraction(Level(alphas[j])) /\ (j <= k => AtMost(Level(alphas[j]), Level(alphas[k])))
<1>. DEFINE S == 1 .. Dens - 1
<1>1. alphas \in Seq(S) /\ \A j, k \in DOMAIN alphas : j < k => alphas[j] <= alphas[k]
  BY DEF Rising, SomeAlphas, Rises
<1>. HIDE DEF S
<1>2. Len(alphas) \in Nat /\ DOMAIN alphas = 1 .. Len(alphas) /\ \A k \in 1 .. Len(alphas) : alphas[k] \in S
  BY <1>1
<1>3. ASSUME NEW j \in 1 .. Len(alphas), NEW k \in 1 .. Len(alphas), j <= k
      PROVE  alphas[j] \in 1 .. Dens - 1 /\ alphas[k] \in 1 .. Dens - 1 /\ alphas[j] <= alphas[k]
  <2>1. alphas[j] \in 1 .. Dens - 1 /\ alphas[k] \in 1 .. Dens - 1 /\ Dens \in Nat
    BY <1>2, CalibrationAssumption DEF S
  <2>2. CASE j = k
    BY <2>1, <2>2
  <2>3. CASE j < k
    BY <1>1, <1>2, <2>1, <2>3
  <2>. QED  BY <1>3, <2>1, <2>2, <2>3
<1>4. ASSUME NEW j \in 1 .. Len(alphas) PROVE Fraction(Level(alphas[j]))
  <2>1. j <= j
    BY <1>2
  <2>2. alphas[j] \in 1 .. Dens - 1 /\ alphas[j] <= alphas[j]
    BY <1>3, <2>1
  <2>. QED  BY <2>2, LevelFacts
<1>5. ASSUME NEW j \in 1 .. Len(alphas), NEW k \in 1 .. Len(alphas), j <= k
      PROVE  AtMost(Level(alphas[j]), Level(alphas[k]))
  BY <1>3, <1>5, LevelFacts
<1>. QED  BY <1>2, <1>4, <1>5

LEMMA ClippedRise ==
    ASSUME NEW alphas, Rising(alphas), NEW h \in CountsOf, NEW d \in CountsOf
    PROVE  \A j, k \in 1 .. Len(alphas) :
              /\ Fraction(Clipped(levels(alphas[j], h, d)))
              /\ j <= k => AtMost(Clipped(levels(alphas[j], h, d)), Clipped(levels(alphas[k], h, d)))
<1>. DEFINE low  == [num |-> 1, den |-> Clip]
            high == [num |-> Clip - 1, den |-> Clip]
            lv(k) == levels(alphas[k], h, d)
<1>1. Fraction(low) /\ Fraction(high) /\ AtMost(low, high)
  <2>1. Clip \in Nat \ {0, 1}
    BY ServedAssumption
  <2>2. Clip - 1 \in Nat /\ 1 * Clip <= (Clip - 1) * Clip
    BY <2>1
  <2>. QED  BY <2>1, <2>2 DEF Fraction, AtMost
<1>2. \A j, k \in 1 .. Len(alphas) : Fraction(lv(j)) /\ (j <= k => AtMost(lv(j), lv(k)))
  BY AlphasFacts, ReadingsRise
<1>3. \A k \in 1 .. Len(alphas) : Clipped(lv(k)) = Between(low, lv(k), high)
  BY DEF Clipped
<1>. HIDE DEF low, high, lv
<1>4. ASSUME NEW j \in 1 .. Len(alphas), NEW k \in 1 .. Len(alphas), j <= k
      PROVE  AtMost(Clipped(lv(j)), Clipped(lv(k)))
  <2>1. Fraction(lv(j)) /\ Fraction(lv(k)) /\ AtMost(lv(j), lv(k))
    BY <1>2, <1>4
  <2>2. AtMost(Between(low, lv(j), high), Between(low, lv(k), high))
    BY <1>1, <2>1, BetweenRises
  <2>. QED  BY <1>3, <2>2
<1>5. ASSUME NEW j \in 1 .. Len(alphas) PROVE Fraction(Clipped(lv(j)))
  <2>1. Fraction(lv(j)) /\ Fraction(low) /\ Fraction(high)
    BY <1>1, <1>2
  <2>2. Fraction(Between(low, lv(j), high))
    BY <2>1 DEF Between
  <2>. QED  BY <1>3, <2>2
<1>. QED  BY <1>4, <1>5 DEF lv

\* A voice among several: its bands, and beside them the percentiles.
LEMMA SpokeApart ==
    ASSUME NEW req, Understood(req), Several(req.voices), NEW name
    PROVE  LET row == Spoken(name, Levels(req))
           IN  Bands(req, row) = Spoken(name, AtAlphas(req)) /\ Beside(req, row) = OwnGrid(name)
<1>. DEFINE n == Len(req.alphas)
            N == Dens - 1
            a == AtAlphas(req)
            g == [k \in DOMAIN GRID |-> Level(GRID[k])]
            row == Spoken(name, Levels(req))
<1>1. n \in Nat /\ DOMAIN req.alphas = 1 .. n
  BY AlphasLength DEF Understood
<1>2. N \in Nat /\ DOMAIN GRID = 1 .. N /\ Len(GRID) = N /\ Rising(GRID)
  BY GridFacts
<1>3. DOMAIN g = 1 .. N /\ \A j, k \in 1 .. N : Fraction(g[j]) /\ (j <= k => AtMost(g[j], g[k]))
  <2>1. \A j, k \in 1 .. N : Fraction(Level(GRID[j])) /\ (j <= k => AtMost(Level(GRID[j]), Level(GRID[k])))
    BY <1>2, AlphasFacts
  <2>. HIDE DEF N
  <2>. QED  BY <1>2, <2>1
<1>4. Listed(a, n) /\ Listed(g, N)
  <2>. HIDE DEF n, N
  <2>. QED  BY <1>1, <1>2 DEF AtAlphas, Listed
<1>5. row = Spoken(name, a \o g)
  BY DEF Levels, AtAlphas
<1>. HIDE DEF n, N, a, g, row
<1>6. CutAt(row, n, Spoken(name, a), Spoken(name, g))
  BY <1>1, <1>2, <1>4, <1>5, CutApart
<1>7. Sorted(Spoken(name, g)) = Spoken(name, g)
  BY <1>2, <1>3, SpokenStays
<1>. QED  BY <1>6, <1>7 DEF CutAt, Bands, Beside, OwnGrid, n, a, g, row

\* TabICL alone: the levels of its record are asked beside the alphas.
LEMMA AskedApart ==
    ASSUME NEW req, Understood(req), ~Several(req.voices)
    PROVE  LET row == Spoken("tabicl", Levels(req))
               at  == [k \in DOMAIN req.alphas |->
                          Clipped(levels(req.alphas[k], req.histories["tabicl"], default_record("tabicl", req.window)))]
           IN  /\ Bands(req, row) = Spoken("tabicl", AtAlphas(req))
               /\ req.recorded /\ Rises(req.alphas) => Beside(req, row) = Spoken("tabicl", at)
<1>. DEFINE n == Len(req.alphas)
            a == AtAlphas(req)
            h == req.histories["tabicl"]
            d == default_record("tabicl", req.window)
            at == [k \in DOMAIN req.alphas |-> Clipped(levels(req.alphas[k], h, d))]
            row == Spoken("tabicl", Levels(req))
<1>1. n \in Nat /\ DOMAIN req.alphas = 1 .. n
  BY AlphasLength DEF Understood
<1>2. Listed(a, n) /\ Listed(at, n) /\ DOMAIN a = 1 .. n
  <2>. HIDE DEF n, h, d
  <2>. QED  BY <1>1 DEF AtAlphas, Listed
<1>3. CASE req.recorded
  <2>1. h \in CountsOf /\ d \in CountsOf
    BY <1>3, DefaultCounts DEF Understood
  <2>2. ASSUME Rises(req.alphas)
        PROVE  DOMAIN at = 1 .. n /\ \A j, k \in 1 .. n : Fraction(at[j]) /\ (j <= k => AtMost(at[j], at[k]))
    <3>3. Rising(req.alphas)
      BY <2>2 DEF Understood, Rising
    <3>. DEFINE c(k) == Clipped(levels(req.alphas[k], h, d))
    <3>1. \A j, k \in 1 .. n : Fraction(c(j)) /\ (j <= k => AtMost(c(j), c(k)))
      BY <2>1, <3>3, ClippedRise
    <3>2. at = [k \in 1 .. n |-> c(k)]
      BY <1>1
    <3>. HIDE DEF c, at, n
    <3>. QED  BY <3>1, <3>2
  <2>3. row = Spoken("tabicl", a \o at)
    BY <1>1, <1>2, <1>3 DEF Levels, AtAlphas
  <2>. HIDE DEF n, a, at, row
  <2>4. CutAt(row, n, Spoken("tabicl", a), Spoken("tabicl", at))
    BY <1>1, <1>2, <2>3, CutApart
  <2>5. Rises(req.alphas) => Sorted(Spoken("tabicl", at)) = Spoken("tabicl", at)
    BY <1>1, <2>2, SpokenStays
  <2>. QED  BY <2>4, <2>5 DEF CutAt, Bands, Beside, n, a, at, row
<1>4. CASE ~req.recorded
  <2>1. row = Spoken("tabicl", a)
    BY <1>4 DEF Levels, AtAlphas
  <2>2. a = a \o <<>>
    <3>. DEFINE S == {a[k] : k \in 1 .. n}
    <3>1. \A k \in 1 .. n : a[k] \in S
      OBVIOUS
    <3>. HIDE DEF S, a
    <3>2. a \in Seq(S)
      BY <1>1, <1>2, <3>1, ListOf
    <3>. QED  BY <3>2
  <2>3. Listed(<<>>, 0)
    BY DEF Listed
  <2>. HIDE DEF n, a, row
  <2>4. CutAt(row, n, Spoken("tabicl", a), Spoken("tabicl", <<>>))
    BY <1>1, <1>2, <2>1, <2>2, <2>3, CutApart
  <2>. QED  BY <1>4, <2>4 DEF CutAt, Bands, n, a, row
<1>. QED  BY <1>3, <1>4

\* One voice is answered as asked.
LEMMA OneAsAsked ==
    ASSUME NEW req, Understood(req), ~Several(req.voices)
    PROVE  AnsweredAsAsked(req, serve(req))
<1>. DEFINE got == serve(req)
            row == Spoken("tabicl", Levels(req))
            g == got["tabicl"]
            h == req.histories["tabicl"]
            d == default_record("tabicl", req.window)
            at == [k \in DOMAIN req.alphas |-> Clipped(levels(req.alphas[k], h, d))]
            own == Spoken("tabicl", AtAlphas(req))
<1>1. VoicesOf(req.voices) = {"tabicl"} /\ DOMAIN req.histories \subseteq {"tabicl"}
      /\ ("tabicl" \in DOMAIN req.histories <=> req.recorded)
  BY DEF Understood
<1>2. got = ofOne(req, row)
  <2>. HIDE DEF row
  <2>1. got = ofOne(req, [name \in VoicesOf(req.voices) |-> Spoken(name, Levels(req))]["tabicl"])
    BY DEF serve, answered
  <2>. QED  BY <1>1, <2>1 DEF row
<1>3. Bands(req, row) = own /\ (req.recorded /\ Rises(req.alphas) => Beside(req, row) = Spoken("tabicl", at))
  BY AskedApart
<1>. HIDE DEF row, own, at, got, h, d
<1>4. DOMAIN got = {"tabicl"}
  BY <1>2 DEF ofOne
<1>5. /\ g.quantiles = IF req.recorded THEN Beside(req, row) ELSE own
      /\ g.raw = IF req.recorded THEN <<own>> ELSE <<>>
      /\ g.pit = pits(req, OwnGrid("tabicl"))
  BY <1>2, <1>3 DEF ofOne, OwnGrid
<1>6. /\ g.pit # <<>> <=> req.read.actual # None
      /\ g.pit # <<>> => g.pit[1].grid = OwnGrid("tabicl")
  BY <1>5 DEF pits
<1>7. g.raw # <<>> <=> "tabicl" \in DOMAIN req.histories
  BY <1>1, <1>5
<1>8. RawOf(g) = own
  <2>1. CASE req.recorded
    <3>1. g.raw = <<own>> /\ <<own>> # <<>> /\ <<own>>[1] = own
      BY <1>5, <2>1
    <3>. QED  BY <3>1 DEF RawOf
  <2>2. CASE ~req.recorded
    BY <1>5, <2>2 DEF RawOf
  <2>. QED  BY <2>1, <2>2
<1>9. ASSUME Rises(req.alphas), g.raw # <<>>, NEW i \in DOMAIN req.alphas
      PROVE  g.quantiles[i] = [by |-> "tabicl", at |-> Clipped(levels(req.alphas[i], h, d))]
  <2>1. req.recorded
    BY <1>5, <1>9
  <2>2. g.quantiles = Spoken("tabicl", at)
    BY <1>3, <1>5, <1>9, <2>1
  <2>3. at = [k \in DOMAIN req.alphas |-> Clipped(levels(req.alphas[k], h, d))]
    BY DEF at
  <2>4. Spoken("tabicl", at)[i] = [by |-> "tabicl", at |-> at[i]]
    BY <2>3 DEF Spoken
  <2>. QED  BY <2>2, <2>3, <2>4
<1>10. Rises(req.alphas) => ReadAtTheirAlphas(req, got)
  <2>. HIDE DEF g
  <2>. QED  BY <1>9 DEF ReadAtTheirAlphas, ReadAt, g, h, d
<1>. HIDE DEF g
<1>. QED  BY <1>1, <1>4, <1>6, <1>7, <1>8, <1>10 DEF AnsweredAsAsked, got, g, own, AtAlphas

\* What any voice, or the blend, is answered with.
LEMMA RecordRead ==
    ASSUME NEW req, NEW name, NEW bands, NEW grid
    PROVE  LET g == through_its_record(req, name, bands, grid)
           IN  /\ g.raw # <<>> <=> name \in DOMAIN req.histories
               /\ g.pit # <<>> <=> req.read.actual # None
               /\ RawOf(g) = bands
               /\ g.pit # <<>> => g.pit[1].grid = grid
               /\ IF name \in DOMAIN req.histories
                  THEN g.quantiles = through(req, name, req.alphas, grid) /\ g.as_read = through(req, name, GRID, grid)
                  ELSE g.quantiles = bands /\ g.as_read = grid
<1>. DEFINE g == through_its_record(req, name, bands, grid)
<1>1. <<bands>> # <<>> /\ <<bands>>[1] = bands
  OBVIOUS
<1>2. g.pit = pits(req, grid)
  BY DEF through_its_record
<1>3. g.raw = IF name \in DOMAIN req.histories THEN <<bands>> ELSE <<>>
  BY DEF through_its_record
<1>4. IF name \in DOMAIN req.histories
      THEN g.quantiles = through(req, name, req.alphas, grid) /\ g.as_read = through(req, name, GRID, grid)
      ELSE g.quantiles = bands /\ g.as_read = grid
  BY DEF through_its_record
<1>5. /\ pits(req, grid) # <<>> <=> req.read.actual # None
      /\ pits(req, grid) # <<>> => pits(req, grid)[1].grid = grid
  BY DEF pits
<1>. HIDE DEF g
<1>6. RawOf(g) = bands
  BY <1>1, <1>3, <1>4 DEF RawOf
<1>. QED  BY <1>1, <1>2, <1>3, <1>4, <1>5, <1>6 DEF g

\* A voice's rows, read through its record or not, are in order and of the
\* levels asked.
LEMMA VoiceRises ==
    ASSUME NEW req, Understood(req), NEW name
    PROVE  LET g == through_its_record(req, name, Spoken(name, AtAlphas(req)), OwnGrid(name))
           IN  /\ Rising(req.alphas) =>
                     DOMAIN g.quantiles = DOMAIN req.alphas /\ Sorted(g.quantiles) = g.quantiles
               /\ DOMAIN g.as_read = DOMAIN GRID /\ Sorted(g.as_read) = g.as_read
<1>. DEFINE n == Len(req.alphas)
            N == Dens - 1
            g == through_its_record(req, name, Spoken(name, AtAlphas(req)), OwnGrid(name))
            gl == [k \in DOMAIN GRID |-> Level(GRID[k])]
<1>1. n \in Nat /\ DOMAIN req.alphas = 1 .. n
  BY AlphasLength DEF Understood
<1>2. N \in Nat /\ DOMAIN GRID = 1 .. N /\ Len(GRID) = N /\ Rising(GRID)
  BY GridFacts
<1>3. CASE name \in DOMAIN req.histories
  <2>. DEFINE h == req.histories[name]
              d == default_record(name, req.window)
  <2>1. h \in CountsOf /\ d \in CountsOf
    BY <1>3, DefaultCounts DEF Understood
  <2>2. /\ g.quantiles = re_read(req.alphas, GRID, OwnGrid(name), h, d)
        /\ g.as_read = re_read(GRID, GRID, OwnGrid(name), h, d)
    BY <1>3, RecordRead DEF through
  <2>. HIDE DEF g, h, d
  <2>3. \A as : DOMAIN re_read(as, GRID, OwnGrid(name), h, d) = DOMAIN as
    BY DEF re_read
  <2>4. (Rising(req.alphas) => Sorted(g.quantiles) = g.quantiles) /\ Sorted(g.as_read) = g.as_read
    BY <1>2, <2>1, <2>2, ReadStays
  <2>. QED  BY <2>2, <2>3, <2>4 DEF g
<1>4. CASE name \notin DOMAIN req.histories
  <2>1. g.quantiles = Spoken(name, AtAlphas(req)) /\ g.as_read = Spoken(name, gl)
    BY <1>4, RecordRead DEF OwnGrid
  <2>2. ASSUME Rising(req.alphas)
        PROVE  /\ DOMAIN AtAlphas(req) = 1 .. n
               /\ \A j, k \in 1 .. n : /\ Fraction(AtAlphas(req)[j])
                                       /\ j <= k => AtMost(AtAlphas(req)[j], AtAlphas(req)[k])
    <3>1. \A j, k \in 1 .. n : /\ Fraction(Level(req.alphas[j]))
                               /\ j <= k => AtMost(Level(req.alphas[j]), Level(req.alphas[k]))
      BY <2>2, AlphasFacts
    <3>. HIDE DEF n
    <3>. QED  BY <1>1, <3>1 DEF AtAlphas
  <2>3. DOMAIN gl = 1 .. N /\ \A j, k \in 1 .. N : Fraction(gl[j]) /\ (j <= k => AtMost(gl[j], gl[k]))
    <3>1. \A j, k \in 1 .. N : /\ Fraction(Level(GRID[j]))
                               /\ j <= k => AtMost(Level(GRID[j]), Level(GRID[k]))
      BY <1>2, AlphasFacts
    <3>. HIDE DEF N
    <3>. QED  BY <1>2, <3>1
  <2>. HIDE DEF g, gl, n, N
  <2>4. \A at : DOMAIN Spoken(name, at) = DOMAIN at
    BY DEF Spoken
  <2>5. Rising(req.alphas) => Sorted(g.quantiles) = g.quantiles
    BY <1>1, <2>1, <2>2, SpokenStays
  <2>6. Sorted(g.as_read) = g.as_read
    BY <1>2, <2>1, <2>3, SpokenStays
  <2>7. Rising(req.alphas) => DOMAIN g.quantiles = DOMAIN req.alphas
    BY <1>1, <2>1, <2>2, <2>4
  <2>. QED  BY <1>2, <2>1, <2>3, <2>4, <2>5, <2>6, <2>7 DEF g
<1>. QED  BY <1>3, <1>4

\* A mean of rows in order is of what stands at one place in each.
InStep(rows, m, D) == DOMAIN rows = 1 .. m /\ \A k \in 1 .. m : DOMAIN rows[k] = D /\ Sorted(rows[k]) = rows[k]

MeansOf(mean, rows, m, D) ==
    DOMAIN mean = D /\ \A l \in D : ToSet(mean[l].mean) = {rows[k][l] : k \in 1 .. m}

LEMMA MeanFacts ==
    ASSUME NEW m \in Nat \ {0}, NEW rows, NEW D, InStep(rows, m, D)
    PROVE  MeansOf(Mean(rows), rows, m, D)
<1>1. DOMAIN rows = 1 .. m /\ DOMAIN rows[1] = D
  BY DEF InStep
<1>2. Mean(rows) = [l \in D |-> [mean |-> [k \in 1 .. m |-> Sorted(rows[k])[l]]]]
  BY <1>1 DEF Mean
<1>3. ASSUME NEW l \in D PROVE ToSet(Mean(rows)[l].mean) = {rows[k][l] : k \in 1 .. m}
  <2>. DEFINE s == Mean(rows)[l].mean
  <2>1. s = [k \in 1 .. m |-> Sorted(rows[k])[l]]
    BY <1>2
  <2>2. \A k \in 1 .. m : Sorted(rows[k]) = rows[k]
    BY DEF InStep
  <2>. HIDE DEF s
  <2>3. DOMAIN s = 1 .. m /\ \A k \in 1 .. m : s[k] = rows[k][l]
    BY <2>1, <2>2
  <2>4. ToSet(s) = {s[k] : k \in 1 .. m}
    BY <2>3 DEF ToSet
  <2>5. ToSet(s) = {rows[k][l] : k \in 1 .. m}
    BY <2>3, <2>4
  <2>. QED  BY <2>5 DEF s
<1>4. DOMAIN Mean(rows) = D
  BY <1>2
<1>. QED  BY <1>3, <1>4 DEF MeansOf

\* And so are several, and their blend.
LEMMA SeveralAsAsked ==
    ASSUME NEW req, Understood(req), Several(req.voices)
    PROVE  AnsweredAsAsked(req, serve(req))
<1>. DEFINE V == VoicesOf(req.voices)
            m == Len(req.voices)
            v(k) == req.voices[k]
            own(name) == Spoken(name, AtAlphas(req))
            said(name) == through_its_record(req, name, own(name), OwnGrid(name))
            rows == [name \in V |-> Spoken(name, Levels(req))]
            spoke == [name \in V |-> said(name)]
            bands == [k \in 1 .. m |-> spoke[v(k)].quantiles]
            read  == [k \in 1 .. m |-> spoke[v(k)].as_read]
            mixed == through_its_record(req, "blend", Mean(bands), Mean(read))
            got == serve(req)
<1>1. /\ V = {v(k) : k \in 1 .. m} /\ m \in Nat \ {0} /\ DOMAIN req.voices = 1 .. m
      /\ \A k \in 1 .. m : v(k) \in V
      /\ DOMAIN req.histories \subseteq V \union {"blend"} /\ "blend" \notin V
  <2>1. req.voices \in Seq(STRING) /\ m > 1 /\ V = ToSet(req.voices)
    BY DEF Understood
  <2>2. m \in Nat \ {0} /\ DOMAIN req.voices = 1 .. m
    BY <2>1
  <2>3. V = {v(k) : k \in 1 .. m}
    BY <2>1, <2>2 DEF ToSet
  <2>4. "blend" \notin V
    BY ServedAssumption DEF Understood, VOICES
  <2>5. DOMAIN req.histories \subseteq V \union {"blend"}
    BY DEF Understood
  <2>. HIDE DEF V, m, v
  <2>. QED  BY <2>2, <2>3, <2>4, <2>5
<1>2. \A name \in V : Bands(req, rows[name]) = own(name) /\ Beside(req, rows[name]) = OwnGrid(name)
  BY SpokeApart
<1>. HIDE DEF V, m, own
<1>3. got = [name \in V \union {"blend"} |-> IF name \in V THEN spoke[name] ELSE mixed]
  <2>1. got = ofSeveral(req, [name \in V |-> through_its_record(req, name, Bands(req, rows[name]), Beside(req, rows[name]))])
    BY DEF serve, answered, V
  <2>. HIDE DEF rows
  <2>2. [name \in V |-> through_its_record(req, name, Bands(req, rows[name]), Beside(req, rows[name]))] = spoke
    BY <1>2
  <2>3. got = ofSeveral(req, spoke)
    BY <2>1, <2>2
  <2>4. DOMAIN spoke = V /\ DOMAIN req.voices = 1 .. m
    BY <1>1
  <2>. HIDE DEF spoke
  <2>. QED  BY <2>3, <2>4 DEF ofSeveral
<1>4. \A name \in V : spoke[name] = said(name)
  OBVIOUS
<1>. HIDE DEF spoke
<1>5. ASSUME Rises(req.alphas)
      PROVE  \A i \in DOMAIN req.alphas : ToSet(Mean(bands)[i].mean) = {bands[k][i] : k \in 1 .. m}
  <2>5. Rising(req.alphas)
    BY <1>5 DEF Understood, Rising
  <2>1. \A k \in 1 .. m : DOMAIN bands[k] = DOMAIN req.alphas /\ Sorted(bands[k]) = bands[k]
    <3>1. ASSUME NEW k \in 1 .. m PROVE DOMAIN bands[k] = DOMAIN req.alphas /\ Sorted(bands[k]) = bands[k]
      <4>1. bands[k] = said(v(k)).quantiles
        BY <1>1, <1>4
      <4>. QED  BY <2>5, <4>1, VoiceRises DEF own
    <3>. QED  BY <3>1
  <2>2. DOMAIN bands = 1 .. m
    OBVIOUS
  <2>. DEFINE D == DOMAIN req.alphas
  <2>. HIDE DEF bands
  <2>3. InStep(bands, m, D)
    BY <2>1, <2>2 DEF InStep
  <2>. HIDE DEF D
  <2>4. MeansOf(Mean(bands), bands, m, D)
    BY <1>1, <2>3, MeanFacts
  <2>. QED  BY <2>4 DEF MeansOf, D
<1>6. /\ DOMAIN Mean(read) = DOMAIN GRID
      /\ \A i \in DOMAIN GRID : ToSet(Mean(read)[i].mean) = {read[k][i] : k \in 1 .. m}
  <2>1. \A k \in 1 .. m : DOMAIN read[k] = DOMAIN GRID /\ Sorted(read[k]) = read[k]
    <3>1. ASSUME NEW k \in 1 .. m PROVE DOMAIN read[k] = DOMAIN GRID /\ Sorted(read[k]) = read[k]
      <4>1. read[k] = said(v(k)).as_read
        BY <1>1, <1>4
      <4>. QED  BY <4>1, VoiceRises DEF own
    <3>. QED  BY <3>1
  <2>2. DOMAIN read = 1 .. m
    OBVIOUS
  <2>. DEFINE D == DOMAIN GRID
  <2>. HIDE DEF read
  <2>3. InStep(read, m, D)
    BY <2>1, <2>2 DEF InStep
  <2>. HIDE DEF D
  <2>4. MeansOf(Mean(read), read, m, D)
    BY <1>1, <2>3, MeanFacts
  <2>. QED  BY <2>4 DEF MeansOf, D
<1>7. /\ \A i : {bands[k][i] : k \in 1 .. m} = {spoke[name].quantiles[i] : name \in V}
      /\ \A i : {read[k][i] : k \in 1 .. m} = {spoke[name].as_read[i] : name \in V}
  <2>. HIDE DEF v
  <2>1. \A k \in 1 .. m : bands[k] = spoke[v(k)].quantiles /\ read[k] = spoke[v(k)].as_read
    OBVIOUS
  <2>. HIDE DEF bands, read
  <2>2. ASSUME NEW i
        PROVE  {bands[k][i] : k \in 1 .. m} = {spoke[name].quantiles[i] : name \in V}
    <3>. DEFINE q(name) == spoke[name].quantiles[i]
    <3>1. {bands[k][i] : k \in 1 .. m} = {q(v(k)) : k \in 1 .. m}
      BY <2>1
    <3>. HIDE DEF q
    <3>2. {q(v(k)) : k \in 1 .. m} = {q(name) : name \in V}
      BY <1>1
    <3>. QED  BY <3>1, <3>2 DEF q
  <2>3. ASSUME NEW i
        PROVE  {read[k][i] : k \in 1 .. m} = {spoke[name].as_read[i] : name \in V}
    <3>. DEFINE q(name) == spoke[name].as_read[i]
    <3>1. {read[k][i] : k \in 1 .. m} = {q(v(k)) : k \in 1 .. m}
      BY <2>1
    <3>. HIDE DEF q
    <3>2. {q(v(k)) : k \in 1 .. m} = {q(name) : name \in V}
      BY <1>1
    <3>. QED  BY <3>1, <3>2 DEF q
  <2>. QED  BY <2>2, <2>3
<1>. HIDE DEF bands, read, v, rows, got
<1>8. /\ DOMAIN got = V \union {"blend"} /\ got["blend"] = mixed
      /\ \A name \in V : got[name] = said(name) /\ got[name] = spoke[name]
  BY <1>1, <1>3, <1>4
<1>9. \A name \in V \union {"blend"} :
         /\ got[name].raw # <<>> <=> name \in DOMAIN req.histories
         /\ got[name].pit # <<>> <=> req.read.actual # None
  BY <1>8, RecordRead
<1>10. ASSUME NEW name \in V
       PROVE  /\ RawOf(got[name]) = own(name)
              /\ got[name].pit # <<>> => got[name].pit[1].grid = OwnGrid(name)
              /\ got[name].raw # <<>> => \A i \in DOMAIN req.alphas :
                    got[name].quantiles[i] = interp(ReadAt(req, name, i), GRID, OwnGrid(name))
  <2>1. got[name] = said(name)
    BY <1>8
  <2>2. got[name].raw # <<>> => got[name].quantiles = through(req, name, req.alphas, OwnGrid(name))
    BY <2>1, RecordRead
  <2>3. \A i \in DOMAIN req.alphas :
           through(req, name, req.alphas, OwnGrid(name))[i] = interp(ReadAt(req, name, i), GRID, OwnGrid(name))
    BY DEF through, re_read, ReadAt
  <2>4. /\ RawOf(got[name]) = own(name)
        /\ got[name].pit # <<>> => got[name].pit[1].grid = OwnGrid(name)
    BY <2>1, RecordRead
  <2>. QED  BY <2>2, <2>3, <2>4
<1>11. /\ RawOf(got["blend"]) = Mean(bands)
       /\ got["blend"].pit # <<>> => got["blend"].pit[1].grid = Mean(read)
  BY <1>8, RecordRead
<1>12. ASSUME Rises(req.alphas), NEW i \in DOMAIN req.alphas
       PROVE  ToSet(RawOf(got["blend"])[i].mean) = {got[name].quantiles[i] : name \in V}
  <2>1. \A k : {got[name].quantiles[k] : name \in V} = {spoke[name].quantiles[k] : name \in V}
    BY <1>8
  <2>. HIDE DEF mixed
  <2>. QED  BY <1>5, <1>7, <1>11, <1>12, <2>1
<1>14. Rises(req.alphas) => ReadAtTheirAlphas(req, got)
  BY <1>12 DEF ReadAtTheirAlphas, V
<1>13. got["blend"].pit # <<>> => \A k \in DOMAIN GRID :
          ToSet(got["blend"].pit[1].grid[k].mean) = {got[name].as_read[k] : name \in V}
  <2>1. \A i : {got[name].as_read[i] : name \in V} = {spoke[name].as_read[i] : name \in V}
    BY <1>8
  <2>. HIDE DEF mixed
  <2>. QED  BY <1>6, <1>7, <1>11, <2>1
<1>. HIDE DEF said, mixed
<1>. QED  BY <1>1, <1>8, <1>9, <1>10, <1>13, <1>14
          DEF AnsweredAsAsked, got, V, own, AtAlphas

-----------------------------------------------------------------------------
(* A row of numbers in order, and the blend of several. *)

\* Sorted, a row holds what it held, and rises.
LEMMA SortRises ==
    ASSUME NEW n \in Nat, NEW V \in SUBSET Int, NEW s \in [1 .. n -> V]
    PROVE  LET t == InOrder(s, <)
           IN  t \in [1 .. n -> V] /\ \A l, m \in 1 .. n : l < m => t[l] <= t[m]
<1>. DEFINE ahead(k) == {j \in DOMAIN s : s[j] < s[k] \/ (~(s[k] < s[j]) /\ j < k)}
            place(k) == 1 + Cardinality(ahead(k))
            at(l) == CHOOSE k \in DOMAIN s : place(k) = l
            t == InOrder(s, <)
            P == [k \in 1 .. n |-> place(k)]
<1>1. DOMAIN s = 1 .. n /\ \A k \in 1 .. n : s[k] \in Int /\ s[k] \in V
  OBVIOUS
<1>2. IsFiniteSet(1 .. n) /\ Cardinality(1 .. n) = n
  BY UpToCount
<1>3. ASSUME NEW k \in 1 .. n
      PROVE  IsFiniteSet(ahead(k)) /\ place(k) \in 1 .. n
  <2>1. ahead(k) \subseteq (1 .. n) \ {k}
    BY <1>1
  <2>2. IsFiniteSet((1 .. n) \ {k}) /\ Cardinality((1 .. n) \ {k}) = n - 1
    <3>1. IsFiniteSet((1 .. n) \ {k}) /\ Cardinality((1 .. n) \ {k}) = Cardinality(1 .. n) - 1
      BY <1>2, FS_RemoveElement
    <3>. QED  BY <1>2, <3>1
  <2>3. IsFiniteSet(ahead(k)) /\ Cardinality(ahead(k)) <= n - 1
    <3>. HIDE DEF ahead
    <3>. QED  BY <2>1, <2>2, FS_Subset
  <2>4. Cardinality(ahead(k)) \in Nat
    BY <2>3, FS_CardinalityType
  <2>. HIDE DEF ahead
  <2>. QED  BY <2>3, <2>4
<1>4. ASSUME NEW j \in 1 .. n, NEW k \in 1 .. n, s[j] < s[k] \/ (s[j] = s[k] /\ j < k)
      PROVE  place(j) < place(k)
  <2>1. ahead(j) \subseteq ahead(k) /\ j \in ahead(k) /\ j \notin ahead(j)
    BY <1>1, <1>4
  <2>2. IsFiniteSet(ahead(j)) /\ IsFiniteSet(ahead(k))
    BY <1>3
  <2>. HIDE DEF ahead
  <2>3. Cardinality(ahead(j) \union {j}) = Cardinality(ahead(j)) + 1
    BY <2>1, <2>2, FS_AddElement
  <2>4. Cardinality(ahead(j) \union {j}) <= Cardinality(ahead(k))
    <3>1. ahead(j) \union {j} \subseteq ahead(k)
      BY <2>1
    <3>. QED  BY <2>2, <3>1, FS_Subset
  <2>5. Cardinality(ahead(j)) \in Nat /\ Cardinality(ahead(k)) \in Nat
    BY <2>2, FS_CardinalityType
  <2>. QED  BY <2>3, <2>4, <2>5
<1>. HIDE DEF ahead, place
<1>5. P \in Injection(1 .. n, 1 .. n)
  <2>1. P \in [1 .. n -> 1 .. n]
    BY <1>3
  <2>2. ASSUME NEW j \in 1 .. n, NEW k \in 1 .. n, P[j] = P[k] PROVE j = k
    <3>1. place(j) = place(k) /\ place(j) \in Int
      BY <1>3, <2>2
    <3>2. ~(place(j) < place(k)) /\ ~(place(k) < place(j))
      BY <3>1
    <3>3. ~(s[j] < s[k]) /\ ~(s[k] < s[j]) /\ ~(s[j] = s[k] /\ j < k) /\ ~(s[k] = s[j] /\ k < j)
      BY <1>4, <3>2
    <3>4. s[j] \in Int /\ s[k] \in Int
      BY <1>1
    <3>. QED  BY <3>3, <3>4
  <2>. HIDE DEF P
  <2>3. IsInjective(P)
    BY <2>1, <2>2 DEF IsInjective
  <2>. QED  BY <2>1, <2>3 DEF Injection
<1>6. P \in Surjection(1 .. n, 1 .. n)
  BY <1>2, <1>5, FS_Injection
<1>7. ASSUME NEW l \in 1 .. n PROVE at(l) \in 1 .. n /\ place(at(l)) = l
  <2>1. PICK k \in 1 .. n : P[k] = l
    BY <1>6 DEF Surjection
  <2>2. \E m \in DOMAIN s : place(m) = l
    BY <1>1, <2>1
  <2>. QED  BY <1>1, <2>2
<1>8. t = [l \in 1 .. n |-> s[at(l)]]
  BY <1>1 DEF InOrder, place, ahead
<1>. HIDE DEF t, at
<1>9. t \in [1 .. n -> V]
  BY <1>7, <1>8
<1>10. ASSUME NEW l \in 1 .. n, NEW m \in 1 .. n, l < m PROVE t[l] <= t[m]
  <2>1. at(l) \in 1 .. n /\ at(m) \in 1 .. n /\ place(at(l)) = l /\ place(at(m)) = m
    BY <1>7
  <2>2. ~(place(at(m)) < place(at(l)))
    BY <1>10, <2>1
  <2>3. ~(s[at(m)] < s[at(l)])
    BY <1>4, <2>1, <2>2
  <2>4. t[l] = s[at(l)] /\ t[m] = s[at(m)] /\ s[at(l)] \in Int /\ s[at(m)] \in Int
    BY <1>1, <1>8, <2>1
  <2>. QED  BY <2>3, <2>4
<1>. QED  BY <1>9, <1>10 DEF t

\* More in each is more in all; and all of one size are so many times that.
LEMMA AmountMore ==
    ASSUME NEW S, IsFiniteSet(S), NEW small, NEW large,
           \A e \in S : small[e] \in Nat /\ large[e] \in Nat /\ small[e] <= large[e]
    PROVE  Amount(S, small) <= Amount(S, large)
<1>1. IsFiniteSet(Units(S, large))
  BY AmountFinite
<1>2. Units(S, small) \subseteq Units(S, large)
  BY DEF Units
<1>3. Cardinality(Units(S, small)) <= Cardinality(Units(S, large))
  BY <1>1, <1>2, FS_Subset
<1>. QED  BY <1>3 DEF Amount

LEMMA AmountOfSame ==
    ASSUME NEW n \in Nat, NEW c \in Nat, NEW size, \A k \in 1 .. n : size[k] = c
    PROVE  Amount(1 .. n, size) = n * c
<1>1. Units(1 .. n, size) = (1 .. n) \X (1 .. c)
  BY DEF Units
<1>2. IsFiniteSet(1 .. n) /\ Cardinality(1 .. n) = n /\ IsFiniteSet(1 .. c) /\ Cardinality(1 .. c) = c
  BY UpToCount
<1>3. Cardinality((1 .. n) \X (1 .. c)) = Cardinality(1 .. n) * Cardinality(1 .. c)
  BY <1>2, FS_Product
<1>. QED  BY <1>1, <1>2, <1>3 DEF Amount

\* A blend of rows of any length and number.
LEMMA BlendHolds ==
    ASSUME NEW n \in Nat \ {0}, NEW w \in Nat, NEW G \in Nat, NEW answers \in [1 .. n -> [1 .. w -> 0 .. G]]
    PROVE  BlendIsABand(answers)
<1>. DEFINE sorted(k) == InOrder(answers[k], <)
            col(l) == [k \in 1 .. n |-> sorted(k)[l]]
            b == blend(answers)
<1>1. DOMAIN answers = 1 .. n /\ Len(answers) = n /\ DOMAIN answers[1] = 1 .. w
  OBVIOUS
<1>2. ASSUME NEW k \in 1 .. n
      PROVE  sorted(k) \in [1 .. w -> 0 .. G] /\ \A l, m \in 1 .. w : l < m => sorted(k)[l] <= sorted(k)[m]
  <2>1. answers[k] \in [1 .. w -> 0 .. G] /\ 0 .. G \in SUBSET Int
    OBVIOUS
  <2>. QED  BY <2>1, SortRises
<1>3. b = [l \in 1 .. w |-> FoldSeq(+, 0, col(l))]
  <2>1. \A l : [k \in DOMAIN answers |-> [j \in DOMAIN answers |-> InOrder(answers[j], <)][k][l]] = col(l)
    BY <1>1
  <2>. HIDE DEF col
  <2>. QED  BY <1>1, <2>1 DEF blend
<1>. HIDE DEF sorted, b
<1>4. ASSUME NEW l \in 1 .. w
      PROVE  /\ \A k \in 1 .. n : col(l)[k] = sorted(k)[l] /\ col(l)[k] \in 0 .. G
             /\ b[l] = Amount(1 .. n, col(l)) /\ b[l] \in Nat
  <2>1. \A k \in 1 .. n : col(l)[k] = sorted(k)[l] /\ col(l)[k] \in 0 .. G
    BY <1>2
  <2>2. col(l) \in Seq(Nat) /\ DOMAIN col(l) = 1 .. n
    <3>. DEFINE c == col(l)
    <3>1. c \in [1 .. n -> Nat]
      BY <2>1
    <3>. HIDE DEF c
    <3>2. c \in Seq(Nat) /\ DOMAIN c = 1 .. n
      BY <3>1
    <3>. QED  BY <3>2 DEF c
  <2>3. b[l] = FoldSeq(+, 0, col(l))
    BY <1>3
  <2>. HIDE DEF col
  <2>4. b[l] = Amount(1 .. n, col(l))
    BY <2>2, <2>3, FoldIsAmount
  <2>5. Amount(1 .. n, col(l)) \in Nat
    BY <2>1, UpToCount, AmountFinite
  <2>. QED  BY <2>1, <2>4, <2>5
<1>. HIDE DEF col
<1>5. ASSUME NEW l \in 1 .. w, NEW m \in 1 .. w, l < m PROVE b[l] <= b[m]
  <2>1. ASSUME NEW k \in 1 .. n
        PROVE  col(l)[k] \in Nat /\ col(m)[k] \in Nat /\ col(l)[k] <= col(m)[k]
    <3>1. sorted(k)[l] <= sorted(k)[m]
      BY <1>2, <1>5
    <3>2. col(l)[k] = sorted(k)[l] /\ col(l)[k] \in 0 .. G /\ col(m)[k] = sorted(k)[m] /\ col(m)[k] \in 0 .. G
      BY <1>4
    <3>. QED  BY <3>1, <3>2
  <2>2. Amount(1 .. n, col(l)) <= Amount(1 .. n, col(m))
    BY <2>1, UpToCount, AmountMore
  <2>. QED  BY <1>4, <2>2
<1>6. ASSUME NEW l \in 1 .. w
      PROVE  \E j, k \in 1 .. n : n * sorted(j)[l] <= b[l] /\ b[l] <= n * sorted(k)[l]
  <2>. DEFINE c(k) == col(l)[k]
  <2>1. \A k \in 1 .. n : c(k) \in 0 .. G /\ c(k) = sorted(k)[l]
    BY <1>4
  <2>. HIDE DEF c
  <2>2. PICK j \in 1 .. n : \A k \in 1 .. n : c(j) <= c(k)
    <3>. DEFINE T == {c(k) : k \in 1 .. n}
    <3>1. T \in SUBSET Nat /\ c(1) \in T
      BY <2>1
    <3>2. PICK x \in T : \A y \in T : x <= y
      BY <3>1, LeastOf
    <3>. QED  BY <3>2
  <2>3. PICK k \in 1 .. n : \A i \in 1 .. n : c(i) <= c(k)
    <3>. DEFINE T == {G - c(i) : i \in 1 .. n}
    <3>1. T \in SUBSET Nat /\ G - c(1) \in T
      <4>1. ASSUME NEW i \in 1 .. n PROVE G - c(i) \in Nat
        <5>1. c(i) \in 0 .. G
          BY <2>1
        <5>. QED  BY <5>1
      <4>. QED  BY <4>1
    <3>2. PICK x \in T : \A y \in T : x <= y
      BY <3>1, LeastOf
    <3>3. PICK k \in 1 .. n : x = G - c(k)
      BY <3>2
    <3>4. ASSUME NEW i \in 1 .. n PROVE c(i) <= c(k)
      <4>1. G - c(k) <= G - c(i)
        BY <3>2, <3>3
      <4>. QED  BY <2>1, <4>1
    <3>. QED  BY <3>4
  <2>4. n * c(j) <= b[l]
    <3>. DEFINE low == [i \in 1 .. n |-> c(j)]
    <3>1. \A i \in 1 .. n : low[i] = c(j) /\ low[i] \in Nat /\ col(l)[i] \in Nat /\ low[i] <= col(l)[i]
      BY <2>1, <2>2 DEF c
    <3>. HIDE DEF low
    <3>2. Amount(1 .. n, low) = n * c(j)
      BY <2>1, <3>1, AmountOfSame
    <3>3. Amount(1 .. n, low) <= Amount(1 .. n, col(l))
      BY <3>1, UpToCount, AmountMore
    <3>. QED  BY <1>4, <3>2, <3>3
  <2>5. b[l] <= n * c(k)
    <3>. DEFINE high == [i \in 1 .. n |-> c(k)]
    <3>1. \A i \in 1 .. n : high[i] = c(k) /\ high[i] \in Nat /\ col(l)[i] \in Nat /\ col(l)[i] <= high[i]
      BY <2>1, <2>3 DEF c
    <3>. HIDE DEF high
    <3>2. Amount(1 .. n, high) = n * c(k)
      BY <2>1, <3>1, AmountOfSame
    <3>3. Amount(1 .. n, col(l)) <= Amount(1 .. n, high)
      BY <3>1, UpToCount, AmountMore
    <3>. QED  BY <1>4, <3>2, <3>3
  <2>. QED  BY <2>1, <2>4, <2>5
<1>7. DOMAIN b = 1 .. w
  BY <1>3
<1>. QED  BY <1>1, <1>5, <1>6, <1>7 DEF BlendIsABand, b, sorted

-----------------------------------------------------------------------------
(* What a body is parsed into. *)

BodyIsReal(body) ==
    body.voices \in VoicesAsked /\ body.alphas \in AlphasAsked /\ body.pit_history \in PitHistories

LEMMA ParsedIsUnderstood ==
    ASSUME NEW body, BodyIsReal(body), parse(body) # Refusal
    PROVE  Understood(parse(body))
<1>. DEFINE req == parse(body)
            V == body.voices
            p == body.pit_history
<1>1. VoicesAccepted(V) /\ HistoriesAccepted(p, V)
  BY DEF parse
<1>2. /\ req.voices = V /\ req.alphas = body.alphas
      /\ req.histories = IF p = None THEN <<>> ELSE p.counts
      /\ req.recorded = (p # None)
  BY DEF parse
<1>. HIDE DEF req
<1>3. SomeAlphas(req.alphas)
  BY <1>2, ReadingsAssumption DEF BodyIsReal, SomeAlphas
<1>4. Several(V) => V \in Seq(STRING) /\ Len(V) > 1 /\ VoicesOf(V) = ToSet(V)
  BY ReadingsAssumption DEF BodyIsReal, Several, VoicesOf
<1>5. ~Several(V) => VoicesOf(V) = {"tabicl"}
  <2>1. CASE V = None
    BY <2>1 DEF VoicesOf
  <2>2. CASE V # None
    <3>1. V \in Seq(STRING) /\ "tabicl" \in ToSet(V)
      BY <1>1, <2>2, ReadingsAssumption DEF BodyIsReal, VoicesAccepted
    <3>2. PICK k \in 1 .. Len(V) : V[k] = "tabicl"
      BY <3>1 DEF ToSet
    <3>3. ~Several(V) => Len(V) = 1
      <4>. DEFINE m == Len(V)
      <4>1. m \in Nat /\ k \in 1 .. m /\ (~Several(V) => ~(m > 1))
        BY <2>2, <3>1 DEF Several
      <4>. HIDE DEF m
      <4>2. ~Several(V) => m = 1
        BY <4>1
      <4>. QED  BY <4>2 DEF m
    <3>4. Len(V) = 1 => ToSet(V) = {"tabicl"}
      BY <3>1, <3>2 DEF ToSet
    <3>. QED  BY <2>2, <3>3, <3>4 DEF VoicesOf
  <2>. QED  BY <2>1, <2>2
<1>6. VoicesOf(V) \subseteq VOICES
  BY <1>1 DEF VoicesAccepted, VoicesOf, VOICES
<1>7. CASE p = None
  <2>1. req.histories = <<>> /\ req.recorded = FALSE
    BY <1>2, <1>7
  <2>2. DOMAIN req.histories = {}
    BY <2>1
  <2>3. Understood(req)
    BY <1>2, <1>3, <1>4, <1>5, <1>6, <2>1, <2>2 DEF Understood
  <2>. QED  BY <2>3 DEF req
<1>8. CASE p # None
  <2>1. req.histories = p.counts /\ req.recorded = TRUE
    BY <1>2, <1>8
  <2>2. /\ p.by = IF Several(V) THEN "voice" ELSE "itself"
        /\ Several(V) => DOMAIN p.counts \subseteq VoicesOf(V) \union {"blend"}
        /\ \A v \in DOMAIN p.counts : DOMAIN p.counts[v] = 1 .. BINS
    BY <1>1, <1>8 DEF HistoriesAccepted
  <2>3. \/ \E c \in Pasts : p = [by |-> "itself", counts |-> [name \in {"tabicl"} |-> c]]
        \/ \E names \in SUBSET (VOICES \union {"blend"}) :
              \E c \in [names -> Pasts] : p = [by |-> "voice", counts |-> c]
    BY <1>8 DEF BodyIsReal, PitHistories
  <2>4. \A v \in DOMAIN p.counts : p.counts[v] \in Pasts
    <3>1. ASSUME NEW c \in Pasts, p = [by |-> "itself", counts |-> [name \in {"tabicl"} |-> c]]
          PROVE  \A v \in DOMAIN p.counts : p.counts[v] \in Pasts
      <4>1. p.counts = [name \in {"tabicl"} |-> c]
        BY <3>1
      <4>. QED  BY <4>1
    <3>2. ASSUME NEW names, NEW c \in [names -> Pasts], p = [by |-> "voice", counts |-> c]
          PROVE  \A v \in DOMAIN p.counts : p.counts[v] \in Pasts
      <4>1. p.counts = c
        BY <3>2
      <4>. QED  BY <4>1
    <3>. HIDE DEF p
    <3>. QED  BY <2>3, <3>1, <3>2
  <2>5. \A v \in DOMAIN p.counts : p.counts[v] \in CountsOf
    <3>1. ASSUME NEW c \in Pasts, DOMAIN c = 1 .. BINS PROVE c \in CountsOf
      <4>1. c \in Seq(Nat)
        BY ReadingsAssumption
      <4>2. \A k \in 1 .. BINS : c[k] \in Nat
        <5>1. \A k \in DOMAIN c : c[k] \in Nat
          BY <4>1
        <5>. QED  BY <3>1, <5>1
      <4>3. c = [k \in 1 .. BINS |-> c[k]]
        BY <3>1, <4>1
      <4>. QED  BY <4>2, <4>3 DEF CountsOf
    <3>. QED  BY <2>2, <2>4, <3>1
  <2>6. ~Several(V) => DOMAIN p.counts = {"tabicl"}
    <3>1. ASSUME NEW c, p = [by |-> "itself", counts |-> [name \in {"tabicl"} |-> c]]
          PROVE  DOMAIN p.counts = {"tabicl"}
      <4>1. p.counts = [name \in {"tabicl"} |-> c]
        BY <3>1
      <4>. QED  BY <4>1
    <3>2. ASSUME NEW c, p = [by |-> "voice", counts |-> c] PROVE Several(V)
      <4>1. p.by = "voice"
        BY <3>2
      <4>. QED  BY <4>1, <2>2
    <3>. HIDE DEF p
    <3>. QED  BY <2>3, <3>1, <3>2
  <2>7. Understood(req)
    BY <1>2, <1>3, <1>4, <1>5, <1>6, <2>1, <2>2, <2>5, <2>6 DEF Understood
  <2>. QED  BY <2>7 DEF req
<1>. QED  BY <1>7, <1>8

LEMMA ServedHolds ==
    ASSUME NEW body, BodyIsReal(body)
    PROVE  ServedAsAsked(body)
<1>. SUFFICES ASSUME parse(body) # Refusal PROVE AnsweredAsAsked(parse(body), serve(parse(body)))
  BY DEF ServedAsAsked, AcceptedIsAnswered
<1>1. Understood(parse(body))
  BY ParsedIsUnderstood
<1>. QED  BY <1>1, OneAsAsked, SeveralAsAsked

-----------------------------------------------------------------------------
(* What is asked. *)

OrderOfSomeRows(order) ==
    \E n \in Nat : order \in [1 .. n -> Nat] /\ \A j, k \in 1 .. n : order[j] = order[k] => j = k

\* The inputs the lemmas speak of are of the types they ask.
InputsAreReal ==
    /\ asked.of = "levels" => asked.history \in CountsOf /\ asked.default \in CountsOf
    /\ asked.of = "pit" => asked.grid \in Seq(Int)
    /\ asked.of = "seasonal_naive" =>
          asked.history \in Seq(BOOLEAN) /\ asked.horizon \in Nat \ {0} /\ asked.season \in Nat \ {0}
    /\ asked.of = "recipe" => asked.months \in Nat \ {0} /\ asked.horizon \in Nat \ {0}
    /\ asked.of = "blend" => \E n \in Nat \ {0}, w, G \in Nat : asked.answers \in [1 .. n -> [1 .. w -> 0 .. G]]
    /\ asked.of = "bands" => BodyIsReal(asked.body)
    /\ asked.of = "misfit" => asked.cols \in Nat /\ asked.fit \in SUBSET (1 .. asked.cols)
    /\ asked.of = "folds" => OrderOfSomeRows(asked.order) /\ asked.folds \in Nat \ {0, 1}

LEMMA InputsAlwaysReal == ReadingsSpec => []InputsAreReal
<1>1. Init => InputsAreReal
  BY DEF Init, InputsAreReal
<1>2. InputsAreReal /\ [Next]_asked => InputsAreReal'
  <2>. SUFFICES ASSUME InputsAreReal, [Next]_asked PROVE InputsAreReal'
    OBVIOUS
  <2>1. CASE AskNaive
    <3>1. PICK v \in Lists(MonthsUpTo, BOOLEAN), h \in Horizons, s \in Seasons :
             asked' = [of |-> "seasonal_naive", history |-> v, horizon |-> h, season |-> s]
      BY <2>1 DEF AskNaive
    <3>2. PICK n \in 1 .. MonthsUpTo : v \in [1 .. n -> BOOLEAN]
      BY DEF Lists
    <3>3. n \in Nat
      BY ReadingsAssumption
    <3>4. v \in Seq(BOOLEAN)
      BY <3>2, <3>3
    <3>. QED  BY <3>1, <3>4, ReadingsAssumption DEF InputsAreReal
  <2>2. CASE AskRecipe
    BY <2>2, ReadingsAssumption DEF AskRecipe, InputsAreReal
  <2>3. CASE AskFolds
    <3>1. PICK n \in 2 .. RowsUpTo :
             \E order \in Injection(1 .. n, 1 .. n), f \in 2 .. FoldsUpTo :
                asked' = [of |-> "folds", order |-> order, folds |-> f]
      BY <2>3 DEF AskFolds
    <3>2. PICK order \in Injection(1 .. n, 1 .. n), f \in 2 .. FoldsUpTo :
             asked' = [of |-> "folds", order |-> order, folds |-> f]
      BY <3>1
    <3>3. n \in Nat /\ f \in Nat \ {0, 1}
      BY ReadingsAssumption
    <3>4. order \in [1 .. n -> Nat] /\ \A j, k \in 1 .. n : order[j] = order[k] => j = k
      BY <3>3 DEF Injection, IsInjective
    <3>5. OrderOfSomeRows(order)
      BY <3>3, <3>4 DEF OrderOfSomeRows
    <3>. QED  BY <3>2, <3>3, <3>5 DEF InputsAreReal
  <2>6. CASE AskMisfit
    <3>1. PICK c \in 2 .. ColumnsUpTo :
             \E fit \in SUBSET (1 .. c) : asked' = [of |-> "misfit", cols |-> c, fit |-> fit]
      BY <2>6 DEF AskMisfit
    <3>2. PICK fit \in SUBSET (1 .. c) : asked' = [of |-> "misfit", cols |-> c, fit |-> fit]
      BY <3>1
    <3>3. c \in Nat
      BY ReadingsAssumption
    <3>. QED  BY <3>2, <3>3 DEF InputsAreReal
  <2>7. CASE AskLevels
    <3>1. PICK h \in Histograms, d \in Histograms : asked' = [of |-> "levels", history |-> h, default |-> d]
      BY <2>7 DEF AskLevels
    <3>2. Histograms \subseteq CountsOf
      BY ReadingsAssumption, CalibrationAssumption DEF Histograms, CountsOf
    <3>. QED  BY <3>1, <3>2 DEF InputsAreReal
  <2>8. CASE AskPit
    <3>1. PICK g \in Lists(GridUpTo, Values) : asked' = [of |-> "pit", grid |-> g]
      BY <2>8 DEF AskPit
    <3>2. PICK n \in 1 .. GridUpTo : g \in [1 .. n -> Values]
      BY DEF Lists
    <3>3. n \in Nat /\ Values \subseteq Int
      BY ReadingsAssumption DEF Values
    <3>4. g \in [1 .. n -> Int]
      BY <3>2, <3>3
    <3>5. g \in Seq(Int)
      BY <3>3, <3>4
    <3>. QED  BY <3>1, <3>5 DEF InputsAreReal
  <2>9. CASE AskBlend
    <3>1. PICK a \in Lists(VoicesUpTo, [1 .. GridUpTo -> Values]) : asked' = [of |-> "blend", answers |-> a]
      BY <2>9 DEF AskBlend
    <3>2. PICK n \in 1 .. VoicesUpTo : a \in [1 .. n -> [1 .. GridUpTo -> Values]]
      BY DEF Lists
    <3>3. n \in Nat \ {0} /\ GridUpTo \in Nat
      BY ReadingsAssumption
    <3>. QED  BY <3>1, <3>2, <3>3 DEF InputsAreReal, Values
  <2>10. CASE AskServed
    <3>1. PICK v \in VoicesAsked, p \in PitHistories, a \in AlphasAsked, w \in Windows, r \in ReadBodies :
             asked' = [of |-> "bands",
                       body |-> [voices |-> v, pit_history |-> p, alphas |-> a, window |-> w, read |-> r]]
      BY <2>10 DEF AskServed
    <3>. DEFINE body == [voices |-> v, pit_history |-> p, alphas |-> a, window |-> w, read |-> r]
    <3>2. BodyIsReal(body)
      BY <3>1 DEF BodyIsReal
    <3>. HIDE DEF body
    <3>3. asked' = [of |-> "bands", body |-> body]
      BY <3>1 DEF body
    <3>. QED  BY <3>2, <3>3 DEF InputsAreReal
  <2>4. CASE asked' = [of |-> "nothing"]
    BY <2>4 DEF InputsAreReal
  <2>5. CASE UNCHANGED asked
    BY <2>5 DEF InputsAreReal
  <2>. QED  BY <2>1, <2>2, <2>3, <2>4, <2>5, <2>6, <2>7, <2>8, <2>9, <2>10 DEF Next
<1>. QED  BY <1>1, <1>2, PTL DEF ReadingsSpec

-----------------------------------------------------------------------------
(* Nothing looks ahead: the place a seasonal naive band is read at, and the *)
(* months a feature row is made of, are known when the band or the row is  *)
(* about a month the horizon later; and the months of one season are the   *)
(* last two known (voices.py's seasonal_naive, the harness's recipes), for *)
(* histories, horizons, seasons and years of every length.                 *)
THEOREM NothingEverLooksAhead == ReadingsSpec => []NothingLooksAhead
<1>1. InputsAreReal => NothingLooksAhead
  BY NaiveBack, LookBack, LastKnown DEF InputsAreReal, NothingLooksAhead
<1>. QED  BY <1>1, InputsAlwaysReal, PTL

(* Every row of a misfit read is scored once, by a context it is not in,   *)
(* and no fold and no rest is smaller than two rows (kernels.py's folds),  *)
(* for any number of rows, in any order, and of folds.                     *)
THEOREM FoldsAlwaysHoldOut == ReadingsSpec => []NoRowScoresItself
<1>1. InputsAreReal => NoRowScoresItself
  BY FoldsHold DEF InputsAreReal, OrderOfSomeRows, NoRowScoresItself
<1>. QED  BY <1>1, InputsAlwaysReal, PTL

(* Over the two default orderings of any number of columns, every fitted   *)
(* column is conditioned on every other exactly once and never on itself,  *)
(* noise is drawn once an ordering at most, and the shares of a score are  *)
(* its conditionals, a column's one an ordering or none (kernels.py's      *)
(* misfit), whichever columns have too few values to be fitted.            *)
THEOREM ChainAlwaysCovered == ReadingsSpec => []MisfitCoversTheChain
<1>1. InputsAreReal => MisfitCoversTheChain
  BY ChainCovers DEF InputsAreReal, MisfitCoversTheChain
<1>. QED  BY <1>1, InputsAlwaysReal, PTL

(* The level read for an alpha has that share of the record under it, and  *)
(* levels rise and stay inside the record; re-reading a grid, every row of *)
(* it is at its level or at the end the grid reaches; larger actuals have  *)
(* PITs as large, each in a bin (calibration.py), for records of any       *)
(* counts, and for grids of any length, with ties and in any order.        *)
THEOREM RecordsAlwaysReadRight == ReadingsSpec => []RecordsAreReadRight
<1>1. InputsAreReal => RecordsAreReadRight
  <2>1. asked.of = "levels" /\ InputsAreReal
          => LevelsAreTheRecords(asked.history, asked.default) /\ RecalibratesEveryLevel(asked.history, asked.default)
    BY LevelsHold, RereadHolds DEF InputsAreReal
  <2>2. asked.of = "pit" /\ InputsAreReal => PitsFollowActuals(asked.grid, -1 .. GridUpTo + 1)
    <3>1. -1 .. GridUpTo + 1 \in SUBSET Int
      BY ReadingsAssumption
    <3>. QED  BY <3>1, PitsHold DEF InputsAreReal
  <2>. QED  BY <2>1, <2>2 DEF RecordsAreReadRight
<1>. QED  BY <1>1, InputsAlwaysReal, PTL

(* Every accepted body is answered as asked: each voice's raw bands are    *)
(* its own at the alphas, in the order asked; read through a record        *)
(* exactly where one was sent, and then at the levels that has; a PIT      *)
(* always of the raw percentiles, and the blend's of the voices' as read;  *)
(* and, for alphas that rise, one voice's bands through its record and the *)
(* blend's stand by their alphas.  And a blend is a band: it rises with    *)
(* the level and lies between the lowest and the highest voice (app.py's   *)
(* Bands, voices.py's blend), for alphas in any number, any voices and     *)
(* rows, and records of any counts, shipped or sent.                       *)
THEOREM AnswersAlwaysAsRead == ReadingsSpec => []AnswersAreAsRead
<1>1. InputsAreReal => AnswersAreAsRead
  <2>1. asked.of = "blend" /\ InputsAreReal => BlendIsABand(asked.answers)
    <3>. SUFFICES ASSUME asked.of = "blend", InputsAreReal PROVE BlendIsABand(asked.answers)
      OBVIOUS
    <3>1. PICK n \in Nat \ {0}, w \in Nat, G \in Nat : asked.answers \in [1 .. n -> [1 .. w -> 0 .. G]]
      BY DEF InputsAreReal
    <3>. QED  BY <3>1, BlendHolds
  <2>2. asked.of = "bands" /\ InputsAreReal => ServedAsAsked(asked.body)
    BY ServedHolds DEF InputsAreReal
  <2>. QED  BY <2>1, <2>2 DEF AnswersAreAsRead
<1>. QED  BY <1>1, InputsAlwaysReal, PTL

=============================================================================
