------------------------------ MODULE DataFacts ------------------------------
(***************************************************************************)
(* Facts about the data the models are built from, cited by the proofs:    *)
(* induction over the naturals; sequences without duplicates under the     *)
(* operations of an OrderedDict and a deque; sequences joined into one;    *)
(* and the amount a finite set holds.                                      *)
(***************************************************************************)
EXTENDS Amounts, SequencesExt, SequenceTheorems, FiniteSetTheorems, WellFoundedInduction, TLAPS

\* A nonempty set of naturals has a least one.
LEMMA LeastOf ==
    ASSUME NEW T \in SUBSET Nat, T # {}
    PROVE  \E x \in T : \A y \in T : x <= y
<1>1. PICK x \in T : \A y \in T : <<y, x>> \notin OpToRel(<, Nat)
  BY WFMin, NatLessThanWellFounded, Zenon
<1>2. ASSUME NEW y \in T PROVE x <= y
  <2>1. <<y, x>> \notin {ss \in Nat \X Nat : ss[1] < ss[2]}
    BY <1>1 DEF OpToRel
  <2>. QED  BY <2>1
<1>. QED  BY <1>2

\* The elements of a sequence are of its type.
LEMMA ToSetType ==
    ASSUME NEW S, NEW s \in Seq(S)
    PROVE  ToSet(s) \subseteq S /\ (s # <<>> => Head(s) \in ToSet(s))
BY DEF ToSet

LEMMA ToSetEmpty == ASSUME NEW S, NEW s \in Seq(S) PROVE ToSet(s) = {} <=> s = <<>>
BY DEF ToSet

\* An element put in front of a sequence.
LEMMA InFront ==
    ASSUME NEW S, NEW x \in S, NEW s \in Seq(S)
    PROVE  /\ <<x>> \o s \in Seq(S) /\ <<x>> \o s # <<>>
           /\ Head(<<x>> \o s) = x /\ Tail(<<x>> \o s) = s
<1>. DEFINE t == <<x>> \o s
<1>1. /\ t \in Seq(S) /\ Len(t) = Len(s) + 1 /\ Len(s) \in Nat
      /\ t[1] = x /\ \A k \in 1 .. Len(s) : t[k + 1] = s[k]
  OBVIOUS
<1>. HIDE DEF t
<1>2. t # <<>> /\ Head(t) = x
  BY <1>1
<1>3. Tail(t) \in Seq(S) /\ Len(Tail(t)) = Len(s) /\ \A k \in 1 .. Len(s) : Tail(t)[k] = s[k]
  BY <1>1, <1>2
<1>4. Tail(t) = s
  BY <1>3
<1>. QED  BY <1>1, <1>2, <1>4 DEF t

\* append: one element more, last.
LEMMA AppendFacts ==
    ASSUME NEW S, NEW s \in Seq(S), NEW e \in S
    PROVE  /\ Append(s, e) \in Seq(S) /\ Append(s, e) # <<>>
           /\ ToSet(Append(s, e)) = ToSet(s) \union {e}
           /\ IsInjective(s) /\ e \notin ToSet(s) => IsInjective(Append(s, e))
<1>1. /\ Append(s, e) \in Seq(S) /\ Append(s, e) # <<>> /\ Len(Append(s, e)) = Len(s) + 1
      /\ \A i \in 1 .. Len(s) : Append(s, e)[i] = s[i]
      /\ Append(s, e)[Len(s) + 1] = e
  OBVIOUS
<1>2. ToSet(Append(s, e)) = ToSet(s) \union {e}
  <2>1. ToSet(Append(s, e)) \subseteq ToSet(s) \union {e}
    BY <1>1 DEF ToSet
  <2>2. ToSet(s) \subseteq ToSet(Append(s, e))
    BY <1>1 DEF ToSet
  <2>3. e \in ToSet(Append(s, e))
    <3>1. Len(s) + 1 \in DOMAIN Append(s, e)
      BY <1>1
    <3>. QED  BY <1>1, <3>1 DEF ToSet
  <2>. QED  BY <2>1, <2>2, <2>3
<1>3. ASSUME IsInjective(s), e \notin ToSet(s) PROVE IsInjective(Append(s, e))
  BY <1>1, <1>3 DEF ToSet, IsInjective
<1>. QED  BY <1>1, <1>2, <1>3

\* popleft: the first element gone.
LEMMA TailFacts ==
    ASSUME NEW S, NEW s \in Seq(S), s # <<>>
    PROVE  /\ Tail(s) \in Seq(S) /\ Head(s) \in S
           /\ ToSet(Tail(s)) \subseteq ToSet(s)
           /\ IsInjective(s) => /\ IsInjective(Tail(s))
                                /\ ToSet(Tail(s)) = ToSet(s) \ {Head(s)}
<1>1. /\ Tail(s) \in Seq(S) /\ Len(Tail(s)) = Len(s) - 1 /\ Len(s) \in Nat \ {0}
      /\ \A i \in 1 .. Len(s) - 1 : Tail(s)[i] = s[i + 1]
      /\ Head(s) = s[1] /\ Head(s) \in S
  OBVIOUS
<1>2. ToSet(Tail(s)) \subseteq ToSet(s)
  BY <1>1 DEF ToSet
<1>3. ASSUME IsInjective(s)
      PROVE  IsInjective(Tail(s)) /\ ToSet(Tail(s)) = ToSet(s) \ {Head(s)}
  <2>1. IsInjective(Tail(s))
    BY <1>1, <1>3 DEF IsInjective
  <2>2. Head(s) \notin ToSet(Tail(s))
    BY <1>1, <1>3 DEF ToSet, IsInjective
  <2>3. ASSUME NEW x \in ToSet(s), x # Head(s) PROVE x \in ToSet(Tail(s))
    <3>1. PICK i \in DOMAIN s : s[i] = x
      BY DEF ToSet
    <3>2. i - 1 \in 1 .. Len(s) - 1 /\ Tail(s)[i - 1] = x
      BY <1>1, <2>3, <3>1
    <3>. QED  BY <1>1, <3>2 DEF ToSet
  <2>. QED  BY <1>2, <2>1, <2>2, <2>3
<1>. QED  BY <1>1, <1>2, <1>3

\* del: the element at i gone, the others in their order.
LEMMA RemoveAtPlaces ==
    ASSUME NEW S, NEW s \in Seq(S), NEW i \in DOMAIN s
    PROVE  /\ RemoveAt(s, i) \in Seq(S) /\ Len(RemoveAt(s, i)) = Len(s) - 1
           /\ \A k \in 1 .. Len(s) - 1 : RemoveAt(s, i)[k] = IF k < i THEN s[k] ELSE s[k + 1]
<1>. DEFINE r == RemoveAt(s, i)
<1>. DEFINE a == SubSeq(s, 1, i - 1)
            b == SubSeq(s, i + 1, Len(s))
<1>1. i \in 1 .. Len(s) /\ Len(s) \in Nat
  OBVIOUS
<1>2. a \in Seq(S) /\ Len(a) = i - 1 /\ \A k \in 1 .. i - 1 : a[k] = s[k]
  BY <1>1
<1>3. b \in Seq(S) /\ Len(b) = Len(s) - i /\ \A k \in 1 .. Len(s) - i : b[k] = s[k + i]
  BY <1>1
<1>. HIDE DEF a, b
<1>4. /\ a \o b \in Seq(S) /\ Len(a \o b) = Len(a) + Len(b)
      /\ \A k \in 1 .. Len(a) + Len(b) : (a \o b)[k] = IF k <= Len(a) THEN a[k] ELSE b[k - Len(a)]
  BY <1>2, <1>3, ConcatProperties
<1>5. /\ a \o b \in Seq(S) /\ Len(a \o b) = Len(s) - 1
      /\ \A k \in 1 .. Len(s) - 1 : (a \o b)[k] = IF k < i THEN a[k] ELSE b[k - (i - 1)]
  BY <1>1, <1>2, <1>3, <1>4
<1>6. r = a \o b
  BY DEF a, b, RemoveAt
<1>. HIDE DEF r
<1>7. ASSUME NEW k \in 1 .. Len(s) - 1 PROVE r[k] = IF k < i THEN s[k] ELSE s[k + 1]
  <2>1. CASE k < i
    BY <1>1, <1>2, <1>5, <1>6, <2>1
  <2>2. CASE ~(k < i)
    <3>1. k - (i - 1) \in 1 .. Len(s) - i /\ (k - (i - 1)) + i = k + 1
      BY <1>1, <2>2
    <3>2. b[k - (i - 1)] = s[k + 1]
      BY <1>3, <3>1
    <3>. QED  BY <1>5, <1>6, <2>2, <3>2
  <2>. QED  BY <2>1, <2>2
<1>. QED  BY <1>5, <1>6, <1>7 DEF r

\* del, by its elements.
LEMMA RemoveAtFacts ==
    ASSUME NEW S, NEW s \in Seq(S), NEW i \in DOMAIN s, IsInjective(s)
    PROVE  /\ RemoveAt(s, i) \in Seq(S)
           /\ IsInjective(RemoveAt(s, i))
           /\ ToSet(RemoveAt(s, i)) = ToSet(s) \ {s[i]}
<1>. DEFINE r == RemoveAt(s, i)
<1>1. /\ r \in Seq(S) /\ Len(r) = Len(s) - 1
      /\ \A k \in 1 .. Len(s) - 1 : r[k] = IF k < i THEN s[k] ELSE s[k + 1]
  BY RemoveAtPlaces
<1>. HIDE DEF r
<1>. DEFINE up(k) == IF k < i THEN k ELSE k + 1
<1>2. /\ DOMAIN r = 1 .. Len(s) - 1 /\ DOMAIN s = 1 .. Len(s) /\ Len(s) \in Nat /\ i \in Int
      /\ \A k \in DOMAIN r : up(k) \in DOMAIN s /\ up(k) # i /\ r[k] = s[up(k)]
  BY <1>1
<1>3. IsInjective(r)
  <2>. SUFFICES ASSUME NEW a \in DOMAIN r, NEW b \in DOMAIN r, r[a] = r[b] PROVE a = b
    BY DEF IsInjective
  <2>1. s[up(a)] = s[up(b)] /\ up(a) \in DOMAIN s /\ up(b) \in DOMAIN s
    BY <1>2
  <2>2. up(a) = up(b)
    <3>. HIDE DEF up
    <3>. QED  BY <2>1 DEF IsInjective
  <2>. QED  BY <1>2, <2>2
<1>4. ToSet(r) \subseteq ToSet(s) \ {s[i]}
  <2>. SUFFICES ASSUME NEW k \in DOMAIN r PROVE r[k] \in ToSet(s) /\ r[k] # s[i]
    BY DEF ToSet
  <2>. HIDE DEF up
  <2>1. up(k) \in DOMAIN s /\ up(k) # i /\ r[k] = s[up(k)]
    BY <1>2
  <2>. QED  BY <2>1 DEF ToSet, IsInjective
<1>. HIDE DEF up
<1>5. ASSUME NEW x \in ToSet(s), x # s[i] PROVE x \in ToSet(r)
  <2>1. PICK k \in DOMAIN s : s[k] = x
    BY DEF ToSet
  <2>2. CASE k < i
    <3>1. k \in 1 .. Len(s) - 1 /\ r[k] = x
      BY <1>1, <2>1, <2>2
    <3>. QED  BY <1>1, <3>1 DEF ToSet
  <2>3. CASE k > i
    <3>1. k - 1 \in 1 .. Len(s) - 1 /\ r[k - 1] = x
      BY <1>1, <2>1, <2>3
    <3>. QED  BY <1>1, <3>1 DEF ToSet
  <2>. QED  BY <1>5, <2>1, <2>2, <2>3
<1>. QED  BY <1>1, <1>3, <1>4, <1>5 DEF r

-----------------------------------------------------------------------------
(* Who stands before whom. *)

Before(s, x, y) == \E i, k \in DOMAIN s : s[i] = x /\ s[k] = y /\ i < k

\* Whoever is appended stands behind everybody, and the others as they did.
LEMMA AppendOrder ==
    ASSUME NEW S, NEW s \in Seq(S), NEW e \in S, e \notin ToSet(s)
    PROVE  /\ \A x, y : Before(s, x, y) => Before(Append(s, e), x, y)
           /\ \A x \in ToSet(s) : Before(Append(s, e), x, e)
           /\ \A x, y : Before(Append(s, e), x, y) /\ y # e => Before(s, x, y)
<1>. DEFINE t == Append(s, e)
<1>1. /\ Len(s) \in Nat /\ DOMAIN s = 1 .. Len(s) /\ DOMAIN t = 1 .. Len(s) + 1
      /\ \A i \in 1 .. Len(s) : t[i] = s[i]
      /\ t[Len(s) + 1] = e
  OBVIOUS
<1>. HIDE DEF t
<1>2. ASSUME NEW x, NEW y, Before(s, x, y) PROVE Before(t, x, y)
  <2>1. PICK i \in DOMAIN s, k \in DOMAIN s : s[i] = x /\ s[k] = y /\ i < k
    BY <1>2 DEF Before
  <2>2. i \in DOMAIN t /\ k \in DOMAIN t /\ t[i] = x /\ t[k] = y
    BY <1>1, <2>1
  <2>. QED  BY <2>1, <2>2 DEF Before
<1>3. ASSUME NEW x \in ToSet(s) PROVE Before(t, x, e)
  <2>1. PICK i \in DOMAIN s : s[i] = x
    BY DEF ToSet
  <2>2. i \in DOMAIN t /\ t[i] = x /\ Len(s) + 1 \in DOMAIN t /\ i < Len(s) + 1
    BY <1>1, <2>1
  <2>. QED  BY <1>1, <2>2 DEF Before
<1>4. ASSUME NEW x, NEW y, Before(t, x, y), y # e PROVE Before(s, x, y)
  <2>1. PICK i \in DOMAIN t, k \in DOMAIN t : t[i] = x /\ t[k] = y /\ i < k
    BY <1>4 DEF Before
  <2>2. k # Len(s) + 1
    BY <1>1, <1>4, <2>1
  <2>3. i \in DOMAIN s /\ k \in DOMAIN s /\ s[i] = x /\ s[k] = y
    BY <1>1, <2>1, <2>2
  <2>. QED  BY <2>1, <2>3 DEF Before
<1>. QED  BY <1>2, <1>3, <1>4 DEF t

\* Whoever stays stands as it stood.
LEMMA RemoveAtOrder ==
    ASSUME NEW S, NEW s \in Seq(S), NEW i \in DOMAIN s, IsInjective(s)
    PROVE  /\ \A x, y : Before(RemoveAt(s, i), x, y) => Before(s, x, y)
           /\ \A x, y : Before(s, x, y) /\ x # s[i] /\ y # s[i] => Before(RemoveAt(s, i), x, y)
<1>. DEFINE r == RemoveAt(s, i)
<1>1. /\ Len(r) = Len(s) - 1 /\ r \in Seq(S)
      /\ \A k \in 1 .. Len(s) - 1 : r[k] = IF k < i THEN s[k] ELSE s[k + 1]
  BY RemoveAtPlaces
<1>2. /\ i \in 1 .. Len(s) /\ Len(s) \in Nat /\ DOMAIN s = 1 .. Len(s)
  OBVIOUS
<1>. HIDE DEF r
<1>3. DOMAIN r = 1 .. Len(s) - 1
  BY <1>1, <1>2
<1>4. ASSUME NEW x, NEW y, Before(r, x, y) PROVE Before(s, x, y)
  <2>1. PICK a \in DOMAIN r, b \in DOMAIN r : r[a] = x /\ r[b] = y /\ a < b
    BY <1>4 DEF Before
  <2>. DEFINE up(k) == IF k < i THEN k ELSE k + 1
  <2>2. up(a) \in DOMAIN s /\ up(b) \in DOMAIN s /\ up(a) < up(b) /\ s[up(a)] = x /\ s[up(b)] = y
    BY <1>1, <1>2, <1>3, <2>1
  <2>. QED  BY <2>2 DEF Before
<1>5. ASSUME NEW x, NEW y, Before(s, x, y), x # s[i], y # s[i] PROVE Before(r, x, y)
  <2>1. PICK a \in DOMAIN s, b \in DOMAIN s : s[a] = x /\ s[b] = y /\ a < b
    BY <1>5 DEF Before
  <2>2. a # i /\ b # i
    BY <1>5, <2>1
  <2>. DEFINE down(k) == IF k < i THEN k ELSE k - 1
  <2>3. down(a) \in DOMAIN r /\ down(b) \in DOMAIN r /\ down(a) < down(b)
        /\ r[down(a)] = x /\ r[down(b)] = y
    BY <1>1, <1>2, <1>3, <2>1, <2>2
  <2>. QED  BY <2>3 DEF Before
<1>. QED  BY <1>4, <1>5 DEF r

-----------------------------------------------------------------------------
(* Sequences joined into one: FlattenSeq, whose recursive function the      *)
(* provers see as a CHOOSE.  Where each part ends tells it all.             *)

\* What holds at 0 and is passed on holds of every natural: induction, over
\* the set of those of which it holds.
LEMMA Inductive ==
    ASSUME NEW T \in SUBSET Nat, 0 \in T, \A n \in T : n + 1 \in T
    PROVE  T = Nat
<1>1. SUFFICES ASSUME Nat \ T # {} PROVE FALSE
  OBVIOUS
<1>2. PICK x \in Nat \ T : \A y \in Nat \ T : x <= y
  BY <1>1, LeastOf
<1>3. x - 1 \in T
  <2>1. x # 0 /\ x - 1 \in Nat /\ ~(x <= x - 1)
    BY <1>2
  <2>. QED  BY <1>2, <2>1
<1>4. (x - 1) + 1 = x
  BY <1>2
<1>. QED  BY <1>2, <1>3, <1>4

PartsOf(S) == Seq(Seq(S))

LEMMA PartsType ==
    ASSUME NEW S, NEW parts \in PartsOf(S)
    PROVE  /\ Len(parts) \in Nat /\ DOMAIN parts = 1 .. Len(parts)
           /\ \A k \in 1 .. Len(parts) : parts[k] \in Seq(S) /\ Len(parts[k]) \in Nat
<1>1. parts \in Seq(Seq(S))
  BY DEF PartsOf
<1>2. \A k \in 1 .. Len(parts) : parts[k] \in Seq(S)
  BY <1>1
<1>3. \A s \in Seq(S) : Len(s) \in Nat
  OBVIOUS
<1>. QED  BY <1>1, <1>2, <1>3

\* Its first n parts, joined.
Joins(parts, n, flat) ==
    \A i \in 1 .. n : flat[i] = IF i = 1 THEN parts[i] ELSE flat[i - 1] \o parts[i]

LEMMA JoinExists ==
    ASSUME NEW S, NEW parts \in PartsOf(S)
    PROVE  \E flat \in [1 .. Len(parts) -> Seq(S)] : Joins(parts, Len(parts), flat)
<1>. DEFINE T == {n \in Nat : n <= Len(parts) => \E flat \in [1 .. n -> Seq(S)] : Joins(parts, n, flat)}
<1>1. 0 \in T
  <2>1. [i \in 1 .. 0 |-> <<>>] \in [1 .. 0 -> Seq(S)] /\ Joins(parts, 0, [i \in 1 .. 0 |-> <<>>])
    BY DEF Joins
  <2>. QED  BY <2>1
<1>2. ASSUME NEW n \in T PROVE n + 1 \in T
  <2>. SUFFICES ASSUME n + 1 <= Len(parts)
                PROVE  \E flat \in [1 .. n + 1 -> Seq(S)] : Joins(parts, n + 1, flat)
    OBVIOUS
  <2>1. PICK f \in [1 .. n -> Seq(S)] : Joins(parts, n, f)
    <3>1. n <= Len(parts)
      OBVIOUS
    <3>. QED  BY <3>1
  <2>. DEFINE last == IF n + 1 = 1 THEN parts[n + 1] ELSE f[n] \o parts[n + 1]
              g == [i \in 1 .. n + 1 |-> IF i = n + 1 THEN last ELSE f[i]]
  <2>2. n \in Nat /\ n + 1 \in 1 .. Len(parts) /\ parts[n + 1] \in Seq(S)
    BY PartsType
  <2>3. last \in Seq(S)
    <3>1. CASE n = 0
      BY <2>2, <3>1
    <3>2. CASE n # 0
      <4>1. n \in 1 .. n /\ f[n] \in Seq(S)
        BY <2>2, <3>2
      <4>. QED  BY <2>2, <3>2, <4>1
    <3>. QED  BY <3>1, <3>2
  <2>4. g \in [1 .. n + 1 -> Seq(S)]
    <3>. HIDE DEF last
    <3>. QED  BY <2>2, <2>3
  <2>5. ASSUME NEW i \in 1 .. n + 1
        PROVE  g[i] = IF i = 1 THEN parts[i] ELSE g[i - 1] \o parts[i]
    <3>1. CASE i = n + 1
      <4>1. i # 1 => i - 1 \in 1 .. n + 1 /\ i - 1 # n + 1 /\ i - 1 = n
        BY <2>2, <3>1
      <4>2. i # 1 => g[i - 1] = f[n]
        BY <4>1
      <4>3. g[i] = last
        BY <3>1
      <4>. HIDE DEF g
      <4>. QED  BY <3>1, <4>2, <4>3
    <3>2. CASE i # n + 1
      <4>1. i \in 1 .. n /\ (i # 1 => i - 1 \in 1 .. n /\ i - 1 # n + 1)
        BY <2>2, <3>2
      <4>2. g[i] = f[i] /\ (i # 1 => g[i - 1] = f[i - 1])
        BY <2>2, <3>2, <4>1
      <4>3. f[i] = IF i = 1 THEN parts[i] ELSE f[i - 1] \o parts[i]
        BY <2>1, <4>1 DEF Joins
      <4>. HIDE DEF g
      <4>. QED  BY <4>2, <4>3
    <3>. QED  BY <3>1, <3>2
  <2>. HIDE DEF g
  <2>6. Joins(parts, n + 1, g)
    BY <2>5 DEF Joins
  <2>. QED  BY <2>4, <2>6
<1>3. Len(parts) \in T
  <2>1. T \in SUBSET Nat
    OBVIOUS
  <2>. HIDE DEF T
  <2>2. T = Nat
    BY <1>1, <1>2, <2>1, Inductive
  <2>. QED  BY <2>2
<1>. QED  BY <1>3

\* The function FlattenSeq is taken from is one.
LEMMA FlattenJoins ==
    ASSUME NEW S, NEW parts \in PartsOf(S), Len(parts) # 0
    PROVE  \E flat \in [1 .. Len(parts) -> Seq(S)] :
              Joins(parts, Len(parts), flat) /\ FlattenSeq(parts) = flat[Len(parts)]
<1>. DEFINE isJoin(f) == f = [i \in 1 .. Len(parts) |-> IF i = 1 THEN parts[i] ELSE f[i - 1] \o parts[i]]
            flat == CHOOSE f : isJoin(f)
<1>1. PICK f \in [1 .. Len(parts) -> Seq(S)] : Joins(parts, Len(parts), f)
  BY JoinExists
<1>2. isJoin(f)
  BY <1>1 DEF Joins
<1>3. isJoin(flat)
  <2>. HIDE DEF isJoin
  <2>. QED  BY <1>2
<1>4. FlattenSeq(parts) = flat[Len(parts)]
  BY DEF FlattenSeq
<1>5. Joins(parts, Len(parts), flat)
  <2>. HIDE DEF flat
  <2>. QED  BY <1>3 DEF Joins
<1>6. flat \in [1 .. Len(parts) -> Seq(S)]
  <2>1. DOMAIN flat = 1 .. Len(parts) /\ flat = [i \in 1 .. Len(parts) |-> flat[i]]
    <3>. HIDE DEF flat
    <3>. QED  BY <1>3
  <2>. HIDE DEF flat
  <2>. DEFINE T == {n \in Nat : n + 1 \in 1 .. Len(parts) => flat[n + 1] \in Seq(S)}
  <2>2. 0 \in T
    BY PartsType, <1>5 DEF Joins
  <2>3. ASSUME NEW n \in T PROVE n + 1 \in T
    <3>. SUFFICES ASSUME n + 2 \in 1 .. Len(parts) PROVE flat[n + 2] \in Seq(S)
      OBVIOUS
    <3>1. n + 1 \in 1 .. Len(parts) /\ (n + 2) - 1 = n + 1 /\ n + 2 # 1
      OBVIOUS
    <3>2. flat[n + 1] \in Seq(S) /\ parts[n + 2] \in Seq(S)
      BY PartsType, <3>1
    <3>3. flat[n + 2] = flat[n + 1] \o parts[n + 2]
      BY <1>5, <3>1 DEF Joins
    <3>. QED  BY <3>2, <3>3
  <2>4. T = Nat
    <3>1. T \in SUBSET Nat
      OBVIOUS
    <3>. HIDE DEF T
    <3>. QED  BY <2>2, <2>3, <3>1, Inductive
  <2>5. ASSUME NEW i \in 1 .. Len(parts) PROVE flat[i] \in Seq(S)
    <3>1. i - 1 \in Nat /\ (i - 1) + 1 = i
      OBVIOUS
    <3>2. i - 1 \in T
      <4>. HIDE DEF T
      <4>. QED  BY <2>4, <3>1
    <3>. QED  BY <3>1, <3>2
  <2>. QED  BY <2>1, <2>5
<1>. HIDE DEF flat
<1>. QED  BY <1>4, <1>5, <1>6

\* Where each part ends, the first of them at 0.
EndsOf(parts, ends) ==
    /\ ends \in [0 .. Len(parts) -> Nat]
    /\ ends[0] = 0
    /\ \A k \in 1 .. Len(parts) : ends[k] = ends[k - 1] + Len(parts[k])

\* s is made of the parts, one after another.
MadeOf(s, parts, ends) ==
    /\ Len(s) = ends[Len(parts)]
    /\ \A k \in 1 .. Len(parts) : \A v \in 1 .. Len(parts[k]) : s[ends[k - 1] + v] = parts[k][v]

LEMMA EndsRise ==
    ASSUME NEW S, NEW parts \in PartsOf(S), NEW ends, EndsOf(parts, ends)
    PROVE  \A l \in 0 .. Len(parts) : \A k \in 0 .. l : ends[k] <= ends[l]
<1>. DEFINE T == {l \in Nat : l <= Len(parts) => \A k \in 0 .. l : ends[k] <= ends[l]}
<1>1. 0 \in T
  BY DEF EndsOf
<1>2. ASSUME NEW l \in T PROVE l + 1 \in T
  <2>. SUFFICES ASSUME l + 1 <= Len(parts), NEW k \in 0 .. l + 1 PROVE ends[k] <= ends[l + 1]
    OBVIOUS
  <2>1. l + 1 \in 1 .. Len(parts) /\ (l + 1) - 1 = l /\ l \in 0 .. Len(parts) /\ l + 1 \in 0 .. Len(parts)
    OBVIOUS
  <2>2. ends[l + 1] = ends[l] + Len(parts[l + 1]) /\ ends[l] \in Nat /\ ends[l + 1] \in Nat
    BY <2>1 DEF EndsOf
  <2>3. parts[l + 1] \in Seq(S)
    BY PartsType, <2>1
  <2>4. Len(parts[l + 1]) \in Nat
    BY <2>3
  <2>5. CASE k = l + 1
    BY <2>2, <2>5
  <2>6. CASE k # l + 1
    <3>1. k \in 0 .. l /\ k \in 0 .. Len(parts)
      BY <2>6
    <3>2. ends[k] <= ends[l]
      BY <2>1, <3>1
    <3>3. ends[k] \in Nat
      BY <3>1 DEF EndsOf
    <3>. QED  BY <2>2, <2>4, <3>2, <3>3
  <2>. QED  BY <2>5, <2>6
<1>3. T = Nat
  <2>1. T \in SUBSET Nat
    OBVIOUS
  <2>. HIDE DEF T
  <2>. QED  BY <1>1, <1>2, <2>1, Inductive
<1>. QED  BY <1>3

\* Every place is in one of the parts.
LEMMA PlaceOf ==
    ASSUME NEW S, NEW parts \in PartsOf(S), NEW ends, EndsOf(parts, ends)
    PROVE  \A p \in 1 .. ends[Len(parts)] :
              \E k \in 1 .. Len(parts) : \E v \in 1 .. Len(parts[k]) : p = ends[k - 1] + v
<1>. SUFFICES ASSUME NEW p \in 1 .. ends[Len(parts)]
             PROVE  \E k \in 1 .. Len(parts) : \E v \in 1 .. Len(parts[k]) : p = ends[k - 1] + v
  OBVIOUS
<1>. DEFINE T == {k \in 0 .. Len(parts) : p <= ends[k]}
<1>1. T \in SUBSET Nat /\ Len(parts) \in T
  BY DEF EndsOf
<1>2. PICK k \in T : \A l \in T : k <= l
  BY <1>1, LeastOf
<1>3. k \in 1 .. Len(parts) /\ k - 1 \in 0 .. Len(parts)
  <2>1. k # 0
    BY DEF EndsOf
  <2>. QED  BY <2>1
<1>4. ~(p <= ends[k - 1])
  <2>1. ~(k <= k - 1)
    BY <1>3
  <2>. QED  BY <1>2, <1>3, <2>1
<1>5. ends[k - 1] \in Nat /\ ends[k] \in Nat /\ ends[k] = ends[k - 1] + Len(parts[k]) /\ p <= ends[k]
  BY <1>3 DEF EndsOf
<1>6. Len(parts[k]) \in Nat
  BY <1>3
<1>7. p - ends[k - 1] \in 1 .. Len(parts[k]) /\ p = ends[k - 1] + (p - ends[k - 1])
  BY <1>4, <1>5, <1>6
<1>. QED  BY <1>3, <1>7

\* Where the parts end is determined, and so is what is made of them.
LEMMA MadeOnce ==
    ASSUME NEW S, NEW parts \in PartsOf(S), NEW d, NEW e, EndsOf(parts, d), EndsOf(parts, e),
           NEW s \in Seq(S), NEW t \in Seq(S), MadeOf(s, parts, d), MadeOf(t, parts, e)
    PROVE  d = e /\ s = t
<1>. DEFINE T == {k \in Nat : k <= Len(parts) => d[k] = e[k]}
<1>1. 0 \in T
  BY DEF EndsOf
<1>2. ASSUME NEW k \in T PROVE k + 1 \in T
  <2>. SUFFICES ASSUME k + 1 <= Len(parts) PROVE d[k + 1] = e[k + 1]
    OBVIOUS
  <2>1. k + 1 \in 1 .. Len(parts) /\ (k + 1) - 1 = k /\ d[k] = e[k]
    OBVIOUS
  <2>. QED  BY <2>1 DEF EndsOf
<1>3. T = Nat
  <2>1. T \in SUBSET Nat
    OBVIOUS
  <2>. HIDE DEF T
  <2>. QED  BY <1>1, <1>2, <2>1, Inductive
<1>4. d = e
  <2>1. \A k \in 0 .. Len(parts) : d[k] = e[k]
    BY <1>3
  <2>. QED  BY <2>1 DEF EndsOf
<1>5. Len(s) = Len(t)
  BY <1>4 DEF MadeOf
<1>6. ASSUME NEW p \in 1 .. Len(s) PROVE s[p] = t[p]
  <2>1. p \in 1 .. d[Len(parts)]
    BY DEF MadeOf
  <2>2. PICK k \in 1 .. Len(parts) : \E v \in 1 .. Len(parts[k]) : p = d[k - 1] + v
    BY <2>1, PlaceOf
  <2>3. PICK v \in 1 .. Len(parts[k]) : p = d[k - 1] + v
    BY <2>2
  <2>. QED  BY <1>4, <2>3 DEF MadeOf
<1>. QED  BY <1>4, <1>5, <1>6, SeqEqual

\* FlattenSeq is made of its parts.
LEMMA FlattenFacts ==
    ASSUME NEW S, NEW parts \in PartsOf(S)
    PROVE  /\ FlattenSeq(parts) \in Seq(S)
           /\ \E ends : EndsOf(parts, ends) /\ MadeOf(FlattenSeq(parts), parts, ends)
<1>1. CASE Len(parts) = 0
  <2>1. parts = <<>> /\ FlattenSeq(parts) = <<>>
    BY <1>1 DEF FlattenSeq
  <2>. DEFINE e == [k \in 0 .. 0 |-> 0]
  <2>2. EndsOf(parts, e) /\ MadeOf(FlattenSeq(parts), parts, e)
    BY <1>1, <2>1 DEF EndsOf, MadeOf
  <2>. HIDE DEF e
  <2>3. FlattenSeq(parts) \in Seq(S)
    <3>1. <<>> \in Seq(S)
      OBVIOUS
    <3>. QED  BY <2>1, <3>1
  <2>. QED  BY <2>2, <2>3
<1>2. CASE Len(parts) # 0
  <2>1. PICK flat \in [1 .. Len(parts) -> Seq(S)] :
           Joins(parts, Len(parts), flat) /\ FlattenSeq(parts) = flat[Len(parts)]
    BY <1>2, FlattenJoins
  <2>. DEFINE e == [k \in 0 .. Len(parts) |-> IF k = 0 THEN 0 ELSE Len(flat[k])]
  <2>2. ASSUME NEW k \in 1 .. Len(parts) PROVE flat[k] \in Seq(S) /\ parts[k] \in Seq(S)
    BY PartsType
  <2>3. EndsOf(parts, e)
    <3>1. e \in [0 .. Len(parts) -> Nat] /\ e[0] = 0
      BY <2>2
    <3>2. ASSUME NEW k \in 1 .. Len(parts) PROVE e[k] = e[k - 1] + Len(parts[k])
      <4>1. flat[k] = IF k = 1 THEN parts[k] ELSE flat[k - 1] \o parts[k]
        BY <2>1 DEF Joins
      <4>2. e[k] = Len(flat[k]) /\ (k # 1 => e[k - 1] = Len(flat[k - 1])) /\ (k = 1 => e[k - 1] = 0)
        OBVIOUS
      <4>3. CASE k = 1
        BY <2>2, <4>1, <4>2, <4>3
      <4>4. CASE k # 1
        <5>1. k - 1 \in 1 .. Len(parts)
          BY <4>4
        <5>2. Len(flat[k]) = Len(flat[k - 1]) + Len(parts[k])
          BY <2>2, <4>1, <4>4, <5>1
        <5>. QED  BY <4>2, <4>4, <5>2
      <4>. QED  BY <4>3, <4>4
    <3>. HIDE DEF e
    <3>. QED  BY <3>1, <3>2 DEF EndsOf
  <2>4. \A n \in 1 .. Len(parts) : e[n] = Len(flat[n])
    OBVIOUS
  <2>. HIDE DEF e
  <2>. DEFINE placed(n) == \A k \in 1 .. n : \A v \in 1 .. Len(parts[k]) : flat[n][e[k - 1] + v] = parts[k][v]
              T == {n \in Nat : n \in 1 .. Len(parts) => placed(n)}
  <2>5. 0 \in T
    OBVIOUS
  <2>6. ASSUME NEW n \in T PROVE n + 1 \in T
    <3>. SUFFICES ASSUME n + 1 \in 1 .. Len(parts), NEW k \in 1 .. n + 1, NEW v \in 1 .. Len(parts[k])
                  PROVE  flat[n + 1][e[k - 1] + v] = parts[k][v]
      OBVIOUS
    <3>1. parts[n + 1] \in Seq(S) /\ parts[k] \in Seq(S) /\ k \in 1 .. Len(parts)
      BY PartsType
    <3>2. flat[n + 1] = IF n + 1 = 1 THEN parts[n + 1] ELSE flat[n] \o parts[n + 1]
      <4>1. (n + 1) - 1 = n
        OBVIOUS
      <4>. QED  BY <2>1, <4>1 DEF Joins
    <3>3. CASE n = 0
      <4>1. k = 1 /\ e[k - 1] = 0
        BY <2>3, <3>3 DEF EndsOf
      <4>. QED  BY <3>1, <3>2, <3>3, <4>1
    <3>4. CASE n # 0
      <4>0. n \in 1 .. Len(parts) /\ n \in 0 .. Len(parts)
        BY <3>4
      <4>1. n \in 1 .. Len(parts) /\ flat[n] \in Seq(S) /\ e[n] = Len(flat[n]) /\ n \in 0 .. Len(parts)
        BY <2>2, <2>4, <4>0
      <4>2. e[k - 1] \in Nat /\ e[k] \in Nat /\ e[k] = e[k - 1] + Len(parts[k]) /\ Len(parts[k]) \in Nat
        <5>1. k - 1 \in 0 .. Len(parts) /\ k \in 0 .. Len(parts)
          BY <3>1
        <5>2. e[k] = e[k - 1] + Len(parts[k])
          BY <2>3, <3>1 DEF EndsOf
        <5>3. e[k - 1] \in Nat /\ e[k] \in Nat
          <6>. HIDE DEF T
          <6>. QED  BY <2>3, <5>1 DEF EndsOf
        <5>. QED  BY <3>1, <5>2, <5>3
      <4>3. CASE k = n + 1
        <5>1. e[k - 1] = Len(flat[n])
          BY <4>1, <4>3
        <5>. QED  BY <3>1, <3>2, <3>4, <4>1, <4>3, <5>1
      <4>4. CASE k # n + 1
        <5>1. k \in 1 .. n /\ k \in 0 .. n
          BY <4>4
        <5>2. e[k] <= e[n]
          BY <2>3, <4>1, <5>1, EndsRise
        <5>4. e[k - 1] + v \in 1 .. Len(flat[n])
          BY <4>1, <4>2, <5>2
        <5>5. flat[n][e[k - 1] + v] = parts[k][v]
          BY <4>1, <5>1
        <5>. HIDE DEF placed, T
        <5>. QED  BY <3>1, <3>2, <3>4, <4>1, <5>4, <5>5
      <4>. QED  BY <4>3, <4>4
    <3>. QED  BY <3>3, <3>4
  <2>7. T = Nat
    <3>1. T \in SUBSET Nat
      OBVIOUS
    <3>. HIDE DEF T
    <3>. QED  BY <2>5, <2>6, <3>1, Inductive
  <2>8. placed(Len(parts))
    <3>1. Len(parts) \in Nat /\ Len(parts) \in 1 .. Len(parts)
      BY <1>2
    <3>2. Len(parts) \in T
      <4>. HIDE DEF T
      <4>. QED  BY <2>7, <3>1
    <3>. QED  BY <3>1, <3>2
  <2>9. MadeOf(FlattenSeq(parts), parts, e)
    <3>1. Len(parts) \in 1 .. Len(parts)
      BY <1>2
    <3>. QED  BY <2>1, <2>4, <2>8, <3>1 DEF MadeOf
  <2>10. FlattenSeq(parts) \in Seq(S)
    <3>1. Len(parts) \in 1 .. Len(parts)
      BY <1>2
    <3>. QED  BY <2>1, <3>1
  <2>. QED  BY <2>3, <2>9, <2>10
<1>. QED  BY <1>1, <1>2

\* What is made of the parts is FlattenSeq of them.
LEMMA FlattenIs ==
    ASSUME NEW S, NEW parts \in PartsOf(S), NEW s \in Seq(S), NEW ends, EndsOf(parts, ends), MadeOf(s, parts, ends)
    PROVE  FlattenSeq(parts) = s
<1>1. FlattenSeq(parts) \in Seq(S)
  BY FlattenFacts
<1>2. PICK e : EndsOf(parts, e) /\ MadeOf(FlattenSeq(parts), parts, e)
  BY FlattenFacts
<1>. QED  BY <1>1, <1>2, MadeOnce

\* What is joined holds what its parts do, and nothing else.
LEMMA FlattenHolds ==
    ASSUME NEW S, NEW parts \in PartsOf(S)
    PROVE  ToSet(FlattenSeq(parts)) = UNION {ToSet(parts[k]) : k \in DOMAIN parts}
<1>. DEFINE s == FlattenSeq(parts)
            n == Len(parts)
<1>1. n \in Nat /\ DOMAIN parts = 1 .. n /\ s \in Seq(S)
      /\ \A k \in 1 .. n : parts[k] \in Seq(S) /\ Len(parts[k]) \in Nat
  BY PartsType, FlattenFacts
<1>2. PICK ends : EndsOf(parts, ends) /\ MadeOf(s, parts, ends)
  BY FlattenFacts
<1>. HIDE DEF s, n
<1>3. DOMAIN s = 1 .. Len(s) /\ \A k \in 1 .. n : DOMAIN parts[k] = 1 .. Len(parts[k])
  BY <1>1
<1>4. ASSUME NEW p \in DOMAIN s PROVE \E k \in DOMAIN parts : s[p] \in ToSet(parts[k])
  <2>1. p \in 1 .. ends[Len(parts)]
    BY <1>2, <1>3 DEF MadeOf
  <2>2. PICK k \in 1 .. n : \E v \in 1 .. Len(parts[k]) : p = ends[k - 1] + v
    BY <1>2, <2>1, PlaceOf DEF n
  <2>3. PICK v \in 1 .. Len(parts[k]) : p = ends[k - 1] + v
    BY <2>2
  <2>4. s[p] = parts[k][v]
    BY <1>2, <2>3 DEF MadeOf, n
  <2>. QED  BY <1>1, <1>3, <2>3, <2>4 DEF ToSet
<1>5. ASSUME NEW k \in DOMAIN parts, NEW v \in DOMAIN parts[k] PROVE parts[k][v] \in ToSet(s)
  <2>1. k \in 1 .. n /\ v \in 1 .. Len(parts[k])
    BY <1>1, <1>3
  <2>2. k \in 0 .. Len(parts) /\ k - 1 \in 0 .. Len(parts) /\ Len(parts) \in 0 .. Len(parts)
    BY <1>1, <2>1 DEF n
  <2>3. ends[k - 1] \in Nat /\ ends[k] \in Nat /\ ends[Len(parts)] \in Nat /\ ends[k] = ends[k - 1] + Len(parts[k])
    BY <1>2, <2>1, <2>2 DEF EndsOf, n
  <2>4. ends[k] <= ends[Len(parts)]
    BY <1>2, <2>2, EndsRise
  <2>5. s[ends[k - 1] + v] = parts[k][v] /\ Len(s) = ends[Len(parts)]
    BY <1>2, <2>1 DEF MadeOf, n
  <2>6. ends[k - 1] + v \in 1 .. Len(s)
    BY <1>1, <2>1, <2>3, <2>4, <2>5
  <2>. QED  BY <1>3, <2>5, <2>6 DEF ToSet
<1>6. \A x : x \in ToSet(s) <=> \E p \in DOMAIN s : s[p] = x
  BY DEF ToSet
<1>7. \A k : \A x : x \in ToSet(parts[k]) <=> \E v \in DOMAIN parts[k] : parts[k][v] = x
  BY DEF ToSet
<1>8. ToSet(s) \subseteq UNION {ToSet(parts[k]) : k \in DOMAIN parts}
  BY <1>4, <1>6
<1>9. UNION {ToSet(parts[k]) : k \in DOMAIN parts} \subseteq ToSet(s)
  BY <1>5, <1>7
<1>10. ToSet(s) = UNION {ToSet(parts[k]) : k \in DOMAIN parts}
  BY <1>8, <1>9
<1>. QED  BY <1>10 DEF s

\* Parts that say nothing twice, nor what another says, say nothing twice joined.
LEMMA FlattenOnce ==
    ASSUME NEW S, NEW parts \in PartsOf(S),
           \A k \in DOMAIN parts : IsInjective(parts[k]),
           \A k, l \in DOMAIN parts : ToSet(parts[k]) \intersect ToSet(parts[l]) # {} => k = l
    PROVE  IsInjective(FlattenSeq(parts))
<1>. DEFINE s == FlattenSeq(parts)
            n == Len(parts)
<1>1. n \in Nat /\ DOMAIN parts = 1 .. n /\ s \in Seq(S)
      /\ \A k \in 1 .. n : parts[k] \in Seq(S) /\ Len(parts[k]) \in Nat
  BY PartsType, FlattenFacts
<1>2. PICK ends : EndsOf(parts, ends) /\ MadeOf(s, parts, ends)
  BY FlattenFacts
<1>. HIDE DEF s, n
<1>3. DOMAIN s = 1 .. Len(s) /\ \A k \in 1 .. n : DOMAIN parts[k] = 1 .. Len(parts[k])
  BY <1>1
<1>4. ASSUME NEW p \in DOMAIN s
      PROVE  \E k \in 1 .. n : \E v \in DOMAIN parts[k] : p = ends[k - 1] + v /\ s[p] = parts[k][v]
  <2>1. p \in 1 .. ends[Len(parts)]
    BY <1>2, <1>3 DEF MadeOf
  <2>2. PICK k \in 1 .. n : \E v \in 1 .. Len(parts[k]) : p = ends[k - 1] + v
    BY <1>2, <2>1, PlaceOf DEF n
  <2>3. PICK v \in 1 .. Len(parts[k]) : p = ends[k - 1] + v
    BY <2>2
  <2>4. s[p] = parts[k][v]
    BY <1>2, <2>3 DEF MadeOf, n
  <2>. QED  BY <1>3, <2>3, <2>4
<1>5. ASSUME NEW p \in DOMAIN s, NEW q \in DOMAIN s, s[p] = s[q] PROVE p = q
  <2>1. PICK k \in 1 .. n : \E v \in DOMAIN parts[k] : p = ends[k - 1] + v /\ s[p] = parts[k][v]
    BY <1>4
  <2>2. PICK v \in DOMAIN parts[k] : p = ends[k - 1] + v /\ s[p] = parts[k][v]
    BY <2>1
  <2>3. PICK l \in 1 .. n : \E w \in DOMAIN parts[l] : q = ends[l - 1] + w /\ s[q] = parts[l][w]
    BY <1>4
  <2>4. PICK w \in DOMAIN parts[l] : q = ends[l - 1] + w /\ s[q] = parts[l][w]
    BY <2>3
  <2>5. k = l
    <3>1. s[p] \in ToSet(parts[k]) /\ s[p] \in ToSet(parts[l])
      BY <1>5, <2>2, <2>4 DEF ToSet
    <3>. QED  BY <1>1, <3>1
  <2>6. v = w
    BY <1>1, <1>5, <2>2, <2>4, <2>5 DEF IsInjective
  <2>. QED  BY <2>2, <2>4, <2>5, <2>6
<1>. QED  BY <1>5 DEF IsInjective, s

\* Parts that are others' parts element by element are so when joined too.
LEMMA FlattenMapped ==
    ASSUME NEW S, NEW T, NEW f \in [S -> T], NEW parts \in PartsOf(S), NEW others \in PartsOf(T),
           Len(others) = Len(parts),
           \A k \in 1 .. Len(parts) : /\ Len(others[k]) = Len(parts[k])
                                      /\ \A v \in 1 .. Len(parts[k]) : others[k][v] = f[parts[k][v]]
    PROVE  /\ Len(FlattenSeq(others)) = Len(FlattenSeq(parts))
           /\ \A r \in 1 .. Len(FlattenSeq(parts)) : FlattenSeq(others)[r] = f[FlattenSeq(parts)[r]]
<1>. DEFINE s == FlattenSeq(parts)
            t == [r \in 1 .. Len(s) |-> f[s[r]]]
<1>1. s \in Seq(S) /\ Len(s) \in Nat
  <2>1. s \in Seq(S)
    BY FlattenFacts
  <2>. QED  BY <2>1
<1>2. PICK ends : EndsOf(parts, ends) /\ MadeOf(s, parts, ends)
  BY FlattenFacts
<1>. HIDE DEF s
<1>3. t \in Seq(T) /\ Len(t) = Len(s)
  <2>1. \A r \in 1 .. Len(s) : s[r] \in S
    BY <1>1
  <2>2. \A r \in 1 .. Len(s) : f[s[r]] \in T
    BY <2>1
  <2>. QED  BY <1>1, <2>2
<1>4. EndsOf(others, ends)
  BY <1>2 DEF EndsOf
<1>5. ASSUME NEW k \in 1 .. Len(parts), NEW v \in 1 .. Len(parts[k])
      PROVE  t[ends[k - 1] + v] = others[k][v]
  <2>1. /\ k \in 1 .. Len(parts) /\ Len(parts) \in Nat /\ Len(parts[k]) \in Nat
        /\ k - 1 \in 0 .. Len(parts) /\ k \in 0 .. Len(parts) /\ Len(parts) \in 0 .. Len(parts)
    BY PartsType
  <2>2. /\ ends[k - 1] \in Nat /\ ends[k] \in Nat /\ ends[Len(parts)] \in Nat
        /\ ends[k] = ends[k - 1] + Len(parts[k])
    BY <1>2, <2>1 DEF EndsOf
  <2>3. ends[k] <= ends[Len(parts)]
    BY <1>2, <2>1, EndsRise
  <2>4. Len(s) = ends[Len(parts)] /\ s[ends[k - 1] + v] = parts[k][v]
    BY <1>2 DEF MadeOf
  <2>5. ends[k - 1] + v \in 1 .. Len(s)
    BY <2>1, <2>2, <2>3, <2>4
  <2>. QED  BY <2>4, <2>5
<1>6. MadeOf(t, others, ends)
  <2>1. Len(t) = ends[Len(others)]
    BY <1>2, <1>3 DEF MadeOf
  <2>. HIDE DEF t
  <2>2. \A k \in 1 .. Len(others) : \A v \in 1 .. Len(others[k]) : t[ends[k - 1] + v] = others[k][v]
    BY <1>5
  <2>. QED  BY <2>1, <2>2 DEF MadeOf
<1>7. FlattenSeq(others) = t
  <2>. HIDE DEF t
  <2>. QED  BY <1>3, <1>4, <1>6, FlattenIs
<1>. QED  BY <1>3, <1>7 DEF s

LEMMA FlattenEmpty == FlattenSeq(<<>>) = <<>>
BY DEF FlattenSeq

\* The parts up to the n-th end where the n-th does.
LEMMA FlattenFirst ==
    ASSUME NEW S, NEW parts \in PartsOf(S), NEW n \in 0 .. Len(parts), NEW ends,
           EndsOf(parts, ends), MadeOf(FlattenSeq(parts), parts, ends)
    PROVE  LET first == SubSeq(parts, 1, n)
           IN  first \in PartsOf(S) /\ Len(first) = n /\ Len(FlattenSeq(first)) = ends[n]
<1>. DEFINE first == SubSeq(parts, 1, n)
<1>1. first \in PartsOf(S) /\ Len(first) = n /\ \A k \in 1 .. n : first[k] = parts[k]
  <2>1. n \in 0 .. Len(parts) /\ Len(parts) \in Nat
    BY PartsType
  <2>. QED  BY <2>1 DEF PartsOf
<1>. HIDE DEF first
<1>2. PICK e : EndsOf(first, e) /\ MadeOf(FlattenSeq(first), first, e)
  BY <1>1, FlattenFacts
<1>. DEFINE T == {k \in Nat : k <= n => e[k] = ends[k]}
<1>3. 0 \in T
  BY <1>2 DEF EndsOf
<1>4. ASSUME NEW k \in T PROVE k + 1 \in T
  <2>. SUFFICES ASSUME k + 1 <= n PROVE e[k + 1] = ends[k + 1]
    OBVIOUS
  <2>1. k + 1 \in 1 .. n /\ k + 1 \in 1 .. Len(parts) /\ (k + 1) - 1 = k /\ e[k] = ends[k]
    BY PartsType
  <2>2. e[k + 1] = e[k] + Len(first[k + 1])
    BY <1>1, <1>2, <2>1 DEF EndsOf
  <2>3. ends[k + 1] = ends[k] + Len(parts[k + 1])
    BY <2>1 DEF EndsOf
  <2>. QED  BY <1>1, <2>1, <2>2, <2>3
<1>5. T = Nat
  <2>1. T \in SUBSET Nat
    OBVIOUS
  <2>. HIDE DEF T
  <2>. QED  BY <1>3, <1>4, <2>1, Inductive
<1>6. e[n] = ends[n]
  BY <1>5
<1>. QED  BY <1>1, <1>2, <1>6 DEF first, MadeOf

\* A part more, at the end.
LEMMA FlattenAppend ==
    ASSUME NEW S, NEW parts \in PartsOf(S), NEW x \in Seq(S)
    PROVE  /\ Append(parts, x) \in PartsOf(S)
           /\ FlattenSeq(Append(parts, x)) = FlattenSeq(parts) \o x
<1>. DEFINE n == Len(parts)
            more == Append(parts, x)
            s == FlattenSeq(parts) \o x
<1>1. /\ n \in Nat /\ \A k \in 1 .. n : parts[k] \in Seq(S) /\ Len(parts[k]) \in Nat
      /\ FlattenSeq(parts) \in Seq(S)
  BY PartsType, FlattenFacts
<1>2. /\ more \in PartsOf(S) /\ Len(more) = n + 1
      /\ \A k \in 1 .. n : more[k] = parts[k]
      /\ more[n + 1] = x
  BY DEF PartsOf
<1>3. PICK d : EndsOf(parts, d) /\ MadeOf(FlattenSeq(parts), parts, d)
  BY FlattenFacts
<1>. DEFINE e == [k \in 0 .. n + 1 |-> IF k = n + 1 THEN d[n] + Len(x) ELSE d[k]]
<1>4. /\ s \in Seq(S) /\ Len(s) = Len(FlattenSeq(parts)) + Len(x)
      /\ \A p \in 1 .. Len(FlattenSeq(parts)) : s[p] = FlattenSeq(parts)[p]
      /\ \A v \in 1 .. Len(x) : s[Len(FlattenSeq(parts)) + v] = x[v]
  BY <1>1
<1>5. d[n] = Len(FlattenSeq(parts)) /\ d[n] \in Nat /\ Len(x) \in Nat
  BY <1>1, <1>3 DEF MadeOf
<1>. HIDE DEF more, s
<1>6. EndsOf(more, e)
  <2>1. e \in [0 .. n + 1 -> Nat] /\ e[0] = 0
    BY <1>1, <1>3, <1>5 DEF EndsOf
  <2>2. ASSUME NEW k \in 1 .. n + 1 PROVE e[k] = e[k - 1] + Len(more[k])
    <3>1. CASE k = n + 1
      BY <1>1, <1>2, <3>1
    <3>2. CASE k # n + 1
      <4>1. k \in 1 .. n /\ k - 1 # n + 1
        BY <1>1, <3>2
      <4>2. d[k] = d[k - 1] + Len(parts[k])
        BY <1>3, <4>1 DEF EndsOf
      <4>3. e[k] = d[k] /\ e[k - 1] = d[k - 1]
        BY <1>1, <3>2, <4>1
      <4>. HIDE DEF e
      <4>. QED  BY <1>2, <4>1, <4>2, <4>3
    <3>. QED  BY <3>1, <3>2
  <2>. HIDE DEF e
  <2>. QED  BY <1>2, <2>1, <2>2 DEF EndsOf
<1>7. MadeOf(s, more, e)
  <2>1. Len(s) = e[n + 1]
    BY <1>1, <1>4, <1>5
  <2>2. ASSUME NEW k \in 1 .. n + 1, NEW v \in 1 .. Len(more[k]) PROVE s[e[k - 1] + v] = more[k][v]
    <3>1. CASE k = n + 1
      <4>1. e[k - 1] = d[n]
        BY <1>1, <3>1
      <4>. HIDE DEF e
      <4>. QED  BY <1>2, <1>4, <1>5, <3>1, <4>1
    <3>2. CASE k # n + 1
      <4>1. k \in 1 .. n /\ k - 1 # n + 1 /\ v \in 1 .. Len(parts[k])
        BY <1>1, <1>2, <3>2
      <4>2. e[k - 1] = d[k - 1]
        BY <1>1, <4>1
      <4>. HIDE DEF e
      <4>3. FlattenSeq(parts)[d[k - 1] + v] = parts[k][v]
        BY <1>3, <4>1 DEF MadeOf
      <4>4. d[k] <= d[n]
        <5>1. n \in 0 .. n /\ k \in 0 .. n
          BY <1>1, <4>1
        <5>. QED  BY <1>3, <5>1, EndsRise
      <4>5. d[k] = d[k - 1] + Len(parts[k]) /\ d[k - 1] \in Nat /\ d[k] \in Nat
        <5>1. k \in 0 .. n /\ k - 1 \in 0 .. n
          BY <4>1
        <5>. QED  BY <1>3, <4>1, <5>1 DEF EndsOf
      <4>6. d[k - 1] + v \in 1 .. Len(FlattenSeq(parts))
        BY <1>1, <1>5, <4>1, <4>4, <4>5
      <4>. QED  BY <1>2, <1>4, <4>1, <4>2, <4>3, <4>6
    <3>. QED  BY <3>1, <3>2
  <2>. HIDE DEF e
  <2>. QED  BY <1>2, <2>1, <2>2 DEF MadeOf
<1>. HIDE DEF e
<1>8. FlattenSeq(more) = s
  BY <1>2, <1>4, <1>6, <1>7, FlattenIs
<1>. QED  BY <1>2, <1>8 DEF more, s

\* The first part, and the others behind it.
LEMMA FlattenCons ==
    ASSUME NEW S, NEW parts \in PartsOf(S), parts # <<>>
    PROVE  /\ Tail(parts) \in PartsOf(S) /\ Head(parts) \in Seq(S)
           /\ FlattenSeq(parts) = Head(parts) \o FlattenSeq(Tail(parts))
<1>. DEFINE n == Len(parts)
            x == Head(parts)
            rest == Tail(parts)
            s == x \o FlattenSeq(rest)
<1>1. /\ n \in Nat \ {0} /\ \A k \in 1 .. n : parts[k] \in Seq(S) /\ Len(parts[k]) \in Nat
  <2>1. n # 0
    BY DEF PartsOf
  <2>. QED  BY <2>1, PartsType
<1>2. /\ rest \in PartsOf(S) /\ Len(rest) = n - 1
      /\ \A k \in 1 .. n - 1 : rest[k] = parts[k + 1]
      /\ x = parts[1] /\ x \in Seq(S)
  BY DEF PartsOf
<1>. HIDE DEF x, rest
<1>3. PICK d : EndsOf(rest, d) /\ MadeOf(FlattenSeq(rest), rest, d)
  BY <1>2, FlattenFacts
<1>4. FlattenSeq(rest) \in Seq(S)
  BY <1>2, FlattenFacts
<1>. DEFINE e == [k \in 0 .. n |-> IF k = 0 THEN 0 ELSE Len(x) + d[k - 1]]
<1>5. /\ s \in Seq(S) /\ Len(s) = Len(x) + Len(FlattenSeq(rest)) /\ Len(x) \in Nat
      /\ \A p \in 1 .. Len(x) : s[p] = x[p]
      /\ \A p \in 1 .. Len(FlattenSeq(rest)) : s[Len(x) + p] = FlattenSeq(rest)[p]
  BY <1>2, <1>4
<1>. HIDE DEF s
<1>6. \A k \in 0 .. n - 1 : d[k] \in Nat
  BY <1>2, <1>3 DEF EndsOf
<1>7. EndsOf(parts, e)
  <2>1. e \in [0 .. n -> Nat] /\ e[0] = 0
    BY <1>1, <1>5, <1>6
  <2>2. ASSUME NEW k \in 1 .. n PROVE e[k] = e[k - 1] + Len(parts[k])
    <3>1. CASE k = 1
      <4>1. d[0] = 0
        BY <1>3 DEF EndsOf
      <4>. QED  BY <1>1, <1>2, <1>5, <3>1, <4>1
    <3>2. CASE k # 1
      <4>1. k - 1 \in 1 .. n - 1 /\ (k - 1) + 1 = k /\ k - 1 # 0 /\ k # 0 /\ k - 2 \in 0 .. n - 1
            /\ (k - 1) - 1 = k - 2
        BY <1>1, <3>2
      <4>2. d[k - 1] = d[k - 2] + Len(rest[k - 1])
        BY <1>2, <1>3, <4>1 DEF EndsOf
      <4>3. e[k] = Len(x) + d[k - 1] /\ e[k - 1] = Len(x) + d[k - 2]
        BY <4>1
      <4>4. Len(rest[k - 1]) = Len(parts[k]) /\ Len(parts[k]) \in Nat
        BY <1>1, <1>2, <4>1
      <4>5. d[k - 2] \in Nat
        BY <1>6, <4>1
      <4>. HIDE DEF e
      <4>. QED  BY <1>5, <4>2, <4>3, <4>4, <4>5
    <3>. QED  BY <3>1, <3>2
  <2>. HIDE DEF e
  <2>. QED  BY <2>1, <2>2 DEF EndsOf
<1>8. MadeOf(s, parts, e)
  <2>1. Len(s) = e[n]
    BY <1>1, <1>2, <1>3, <1>5 DEF MadeOf
  <2>2. ASSUME NEW k \in 1 .. n, NEW v \in 1 .. Len(parts[k]) PROVE s[e[k - 1] + v] = parts[k][v]
    <3>1. CASE k = 1
      <4>1. e[k - 1] = 0 /\ v \in 1 .. Len(x)
        BY <1>2, <3>1
      <4>. HIDE DEF e
      <4>. QED  BY <1>2, <1>5, <3>1, <4>1
    <3>2. CASE k # 1
      <4>1. k - 1 \in 1 .. n - 1 /\ (k - 1) + 1 = k /\ k - 1 # 0 /\ k - 2 \in 0 .. n - 1
            /\ (k - 1) - 1 = k - 2
        BY <1>1, <3>2
      <4>2. e[k - 1] = Len(x) + d[k - 2]
        BY <1>1, <4>1
      <4>. HIDE DEF e
      <4>3. rest[k - 1] = parts[k]
        BY <1>2, <4>1
      <4>4. FlattenSeq(rest)[d[k - 2] + v] = parts[k][v]
        BY <1>2, <1>3, <4>1, <4>3 DEF MadeOf
      <4>5. d[k - 1] <= d[n - 1]
        <5>1. n - 1 \in 0 .. Len(rest) /\ k - 1 \in 0 .. n - 1
          BY <1>1, <1>2, <4>1
        <5>. QED  BY <1>2, <1>3, <5>1, EndsRise
      <4>6. d[k - 1] = d[k - 2] + Len(parts[k]) /\ d[k - 2] \in Nat
        BY <1>2, <1>3, <1>6, <4>1, <4>3 DEF EndsOf
      <4>7. Len(FlattenSeq(rest)) = d[n - 1] /\ d[n - 1] \in Nat
        BY <1>1, <1>2, <1>3, <1>6 DEF MadeOf
      <4>8. d[k - 2] + v \in 1 .. Len(FlattenSeq(rest))
        BY <1>1, <4>5, <4>6, <4>7
      <4>9. s[Len(x) + (d[k - 2] + v)] = parts[k][v]
        BY <1>5, <4>4, <4>8
      <4>10. Len(x) + (d[k - 2] + v) = e[k - 1] + v
        BY <1>5, <4>2, <4>6
      <4>. QED  BY <4>9, <4>10
    <3>. QED  BY <3>1, <3>2
  <2>. HIDE DEF e
  <2>. QED  BY <2>1, <2>2 DEF MadeOf
<1>. HIDE DEF e
<1>9. FlattenSeq(parts) = s
  BY <1>5, <1>7, <1>8, FlattenIs
<1>. QED  BY <1>2, <1>9 DEF x, rest, s

-----------------------------------------------------------------------------
(* What adding to a set, and taking from it, does to its amount. *)

\* One thing's units are as many as it holds.
LEMMA UnitsOfOne ==
    ASSUME NEW e, NEW n \in Nat
    PROVE  IsFiniteSet({e} \X (1 .. n)) /\ Cardinality({e} \X (1 .. n)) = n
<1>1. IsFiniteSet({e}) /\ Cardinality({e}) = 1
  BY FS_Singleton
<1>2. IsFiniteSet(1 .. n) /\ Cardinality(1 .. n) = n
  BY FS_Interval
<1>3. IsFiniteSet({e} \X (1 .. n)) /\ Cardinality({e} \X (1 .. n)) = Cardinality({e}) * Cardinality(1 .. n)
  BY <1>1, <1>2, FS_Product
<1>4. 1 * n = n
  OBVIOUS
<1>. QED  BY <1>1, <1>2, <1>3, <1>4

\* Nothing holds nothing.
LEMMA AmountEmpty ==
    ASSUME NEW size PROVE IsFiniteSet(Units({}, size)) /\ Amount({}, size) = 0
BY FS_EmptySet DEF Amount, Units

\* A finite set holds a finite amount.
LEMMA AmountFinite ==
    ASSUME NEW S, IsFiniteSet(S), NEW size, \A e \in S : size[e] \in Nat
    PROVE  IsFiniteSet(Units(S, size)) /\ Amount(S, size) \in Nat
<1>. DEFINE Part  == [e \in S |-> {e} \X (1 .. size[e])]
            Parts == {{e} \X (1 .. size[e]) : e \in S}
<1>1. \A U \in Parts : IsFiniteSet(U)
  <2>1. SUFFICES ASSUME NEW e \in S PROVE IsFiniteSet({e} \X (1 .. size[e]))
    OBVIOUS
  <2>2. size[e] \in Nat
    OBVIOUS
  <2>. QED  BY <2>2, UnitsOfOne
<1>2. Part \in Surjection(S, Parts)
  BY DEF Surjection
<1>3. IsFiniteSet(Parts)
  BY <1>2, FS_Surjection
<1>4. IsFiniteSet(UNION Parts)
  BY <1>1, <1>3, FS_UNION
<1>. QED  BY <1>4, FS_CardinalityType DEF Amount, Units

\* A thing that is not there yet adds what it holds.
LEMMA AmountAdd ==
    ASSUME NEW S, IsFiniteSet(S), NEW size, \A e \in S : size[e] \in Nat,
           NEW x, x \notin S, size[x] \in Nat
    PROVE  Amount(S \union {x}, size) = Amount(S, size) + size[x]
<1>. DEFINE Own == {x} \X (1 .. size[x])
<1>1. IsFiniteSet(Own) /\ Cardinality(Own) = size[x]
  BY UnitsOfOne
<1>2. IsFiniteSet(Units(S, size))
  BY AmountFinite
<1>3. Units(S \union {x}, size) = Units(S, size) \union Own
  BY DEF Units
<1>4. Units(S, size) \intersect Own = {}
  BY DEF Units
<1>5. Cardinality(Units(S, size) \union Own)
        = Cardinality(Units(S, size)) + Cardinality(Own) - Cardinality(Units(S, size) \intersect Own)
  BY <1>1, <1>2, FS_Union
<1>6. Cardinality(Units(S, size) \intersect Own) = 0
  BY <1>4, FS_EmptySet
<1>7. Cardinality(Units(S, size)) \in Nat
  BY <1>2, FS_CardinalityType
<1>8. Cardinality(Own) \in Nat
  BY <1>1
<1>. HIDE DEF Own
<1>9. Cardinality(Units(S, size) \union Own) = Cardinality(Units(S, size)) + Cardinality(Own)
  BY <1>5, <1>6, <1>7, <1>8
<1>10. Cardinality(Units(S \union {x}, size)) = Cardinality(Units(S, size)) + size[x]
  BY <1>1, <1>3, <1>9
<1>. QED  BY <1>10 DEF Amount

\* A thing that leaves takes what it holds with it.
LEMMA AmountRemove ==
    ASSUME NEW S, IsFiniteSet(S), NEW size, \A e \in S : size[e] \in Nat, NEW x \in S
    PROVE  Amount(S \ {x}, size) = Amount(S, size) - size[x]
<1>. DEFINE R == S \ {x}
<1>1. IsFiniteSet(R) /\ x \notin R /\ S = R \union {x}
  BY FS_Subset
<1>2. Amount(R \union {x}, size) = Amount(R, size) + size[x]
  BY <1>1, AmountAdd
<1>3. Amount(R, size) \in Nat
  BY <1>1, AmountFinite
<1>. HIDE DEF R
<1>4. Amount(S, size) = Amount(R, size) + size[x]
  BY <1>1, <1>2
<1>5. size[x] \in Nat
  OBVIOUS
<1>6. Amount(R, size) = Amount(S, size) - size[x]
  BY <1>3, <1>4, <1>5
<1>. QED  BY <1>6 DEF R

\* The fold that sums a list, whatever order it takes, is the amount its places hold.
LEMMA FoldIsAmount ==
    ASSUME NEW s \in Seq(Nat)
    PROVE  FoldSeq(+, 0, s) = Amount(DOMAIN s, s)
<1>. DEFINE D == DOMAIN s
            first(T) == CHOOSE x \in T : TRUE
            Sums(f) == f = [T \in SUBSET D |-> IF T = {} THEN 0 ELSE s[first(T)] + f[T \ {first(T)}]]
            iter == CHOOSE f : Sums(f)
            held == [T \in SUBSET D |-> Amount(T, s)]
<1>1. FoldSeq(+, 0, s) = iter[D]
  BY DEF FoldSeq, FoldFunction, FoldFunctionOnSet, MapThenFoldSet
<1>2. IsFiniteSet(D) /\ \A x \in D : s[x] \in Nat
  <2>1. Len(s) \in Nat /\ D = 1 .. Len(s) /\ \A x \in D : s[x] \in Nat
    OBVIOUS
  <2>2. IsFiniteSet(1 .. Len(s))
    BY <2>1, FS_Interval
  <2>. QED  BY <2>1, <2>2
<1>. HIDE DEF D
<1>3. ASSUME NEW T \in SUBSET D, T # {}
      PROVE  /\ first(T) \in T /\ T \ {first(T)} \in SUBSET D
             /\ Amount(T, s) = s[first(T)] + Amount(T \ {first(T)}, s)
  <2>. DEFINE x == first(T)
  <2>1. x \in T
    BY <1>3
  <2>2. IsFiniteSet(T) /\ IsFiniteSet(T \ {x}) /\ \A y \in T : s[y] \in Nat
    BY <1>2, FS_Subset
  <2>. HIDE DEF x
  <2>3. Amount(T \ {x}, s) = Amount(T, s) - s[x]
    BY <2>1, <2>2, AmountRemove
  <2>4. Amount(T, s) \in Nat /\ s[x] \in Nat
    BY <2>1, <2>2, AmountFinite
  <2>5. Amount(T, s) = s[x] + Amount(T \ {x}, s)
    BY <2>3, <2>4
  <2>. QED  BY <2>1, <2>5 DEF x
<1>. HIDE DEF first
<1>4. Sums(held)
  <2>1. Amount({}, s) = 0
    BY AmountEmpty
  <2>. QED  BY <1>3, <2>1
<1>5. Sums(iter)
  <2>. HIDE DEF Sums
  <2>. QED  BY <1>4
<1>. HIDE DEF iter
<1>6. \A T \in SUBSET D : iter[T] = IF T = {} THEN 0 ELSE s[first(T)] + iter[T \ {first(T)}]
  BY <1>5
<1>. HIDE DEF Sums, held
<1>7. \A T \in SUBSET D : iter[T] = Amount(T, s)
  <2>. DEFINE N == {n \in Nat : \A T \in SUBSET D : Cardinality(T) = n => iter[T] = Amount(T, s)}
  <2>1. 0 \in N
    <3>. SUFFICES ASSUME NEW T \in SUBSET D, Cardinality(T) = 0 PROVE iter[T] = Amount(T, s)
      OBVIOUS
    <3>1. T = {}
      BY <1>2, FS_Subset, FS_EmptySet
    <3>. QED  BY <1>6, <3>1, AmountEmpty
  <2>2. ASSUME NEW n \in N PROVE n + 1 \in N
    <3>. SUFFICES ASSUME NEW T \in SUBSET D, Cardinality(T) = n + 1 PROVE iter[T] = Amount(T, s)
      OBVIOUS
    <3>1. T # {}
      <4>1. n + 1 # 0 /\ Cardinality({}) = 0
        BY FS_EmptySet
      <4>. QED  BY <4>1
    <3>2. IsFiniteSet(T)
      BY <1>2, FS_Subset
    <3>3. first(T) \in T /\ T \ {first(T)} \in SUBSET D
      BY <1>3, <3>1
    <3>4. Cardinality(T \ {first(T)}) = Cardinality(T) - 1
      BY <3>2, <3>3, FS_RemoveElement
    <3>5. Cardinality(T \ {first(T)}) = n
      BY <3>4
    <3>6. iter[T \ {first(T)}] = Amount(T \ {first(T)}, s)
      BY <3>3, <3>5
    <3>. QED  BY <1>3, <1>6, <3>1, <3>6
  <2>3. N = Nat
    <3>1. N \in SUBSET Nat
      OBVIOUS
    <3>. HIDE DEF N
    <3>. QED  BY <2>1, <2>2, <3>1, Inductive
  <2>. SUFFICES ASSUME NEW T \in SUBSET D PROVE iter[T] = Amount(T, s)
    OBVIOUS
  <2>4. Cardinality(T) \in Nat
    BY <1>2, FS_Subset, FS_CardinalityType
  <2>5. Cardinality(T) \in N
    <3>. HIDE DEF N
    <3>. QED  BY <2>3, <2>4
  <2>. QED  BY <2>5
<1>. QED  BY <1>1, <1>7 DEF D

=============================================================================
