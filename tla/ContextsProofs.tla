--------------------------- MODULE ContextsProofs ---------------------------
(***************************************************************************)
(* Theorems about the cache, for every set of callers, ids and sizes, and  *)
(* every budget of at least two shares.                                    *)
(***************************************************************************)
EXTENDS Contexts, DataFacts

\* What an OrderedDict is: entries in an order, each key once.
Dictionary(h) ==
    /\ h \in Seq(Entry) /\ IsInjective(h)
    /\ \A e, f \in ToSet(h) : e.caller = f.caller /\ e.id = f.id => e = f

Shape ==
    /\ Dictionary(held)
    /\ putting \in Entry \union {None} /\ dropping \in Callers \union {None}
    /\ putting = None \/ dropping = None

LEMMA ShapeIsType == CacheTypeOK <=> Shape
<1>1. ASSUME held \in Seq(Entry),
             \A k, m \in DOMAIN held :
                held[k].caller = held[m].caller /\ held[k].id = held[m].id => k = m
      PROVE  Dictionary(held)
  <2>1. IsInjective(held)
    BY <1>1 DEF IsInjective
  <2>. QED  BY <1>1, <2>1 DEF Dictionary, ToSet
<1>2. ASSUME Dictionary(held), NEW k \in DOMAIN held, NEW m \in DOMAIN held,
             held[k].caller = held[m].caller, held[k].id = held[m].id
      PROVE  k = m
  <2>1. held[k] \in ToSet(held) /\ held[m] \in ToSet(held)
    BY DEF ToSet
  <2>2. held[k] = held[m]
    BY <1>2, <2>1 DEF Dictionary
  <2>. QED  BY <1>2, <2>2 DEF Dictionary, IsInjective
<1>. QED  BY <1>1, <1>2 DEF CacheTypeOK, Shape, Dictionary

-----------------------------------------------------------------------------
(* What evicting and putting do to the entries. *)

LEMMA EvictedFacts ==
    ASSUME Dictionary(held), NEW k \in DOMAIN held
    PROVE  /\ Dictionary(Evicted(k))
           /\ ToSet(Evicted(k)) = Held \ {held[k]}
           /\ held[k] \in Held /\ held[k] \in Entry
<1>1. /\ RemoveAt(held, k) \in Seq(Entry) /\ IsInjective(RemoveAt(held, k))
      /\ ToSet(RemoveAt(held, k)) = ToSet(held) \ {held[k]}
  BY RemoveAtFacts DEF Dictionary
<1>2. held[k] \in ToSet(held) /\ held[k] \in Entry
  BY DEF ToSet, Dictionary
<1>. QED  BY <1>1, <1>2 DEF Dictionary, Evicted, Without, Held

\* An entry that is last stays last, unless it is the one evicted.
LEMMA LastStays ==
    ASSUME Dictionary(held), NEW k \in DOMAIN held, k # Len(held)
    PROVE  Evicted(k) # <<>> /\ Evicted(k)[Len(Evicted(k))] = held[Len(held)]
<1>1. /\ RemoveAt(held, k) \in Seq(Entry) /\ Len(RemoveAt(held, k)) = Len(held) - 1
      /\ \A m \in 1 .. Len(held) - 1 :
            RemoveAt(held, k)[m] = IF m < k THEN held[m] ELSE held[m + 1]
  BY RemoveAtPlaces DEF Dictionary
<1>2. Len(held) \in Nat /\ k \in 1 .. Len(held)
  BY DEF Dictionary
<1>3. Len(held) - 1 \in 1 .. Len(held) - 1 /\ ~(Len(held) - 1 < k)
  BY <1>2
<1>4. RemoveAt(held, k)[Len(held) - 1] = held[Len(held) - 1 + 1]
  BY <1>1, <1>3
<1>5. Len(held) - 1 + 1 = Len(held) /\ RemoveAt(held, k) # <<>>
  BY <1>1, <1>2, <1>3
<1>. QED  BY <1>1, <1>4, <1>5 DEF Evicted, Without

\* An entry of a new key, put last.
LEMMA AppendedFacts ==
    ASSUME NEW h, Dictionary(h), NEW e \in Entry,
           \A f \in ToSet(h) : f.caller # e.caller \/ f.id # e.id
    PROVE  /\ Dictionary(Append(h, e)) /\ ToSet(Append(h, e)) = ToSet(h) \union {e}
           /\ Append(h, e) # <<>> /\ Append(h, e)[Len(Append(h, e))] = e
<1>1. e \notin ToSet(h)
  OBVIOUS
<1>2. /\ Append(h, e) \in Seq(Entry) /\ Append(h, e) # <<>>
      /\ ToSet(Append(h, e)) = ToSet(h) \union {e} /\ IsInjective(Append(h, e))
  BY <1>1, AppendFacts DEF Dictionary
<1>3. Append(h, e)[Len(Append(h, e))] = e
  BY DEF Dictionary
<1>. QED  BY <1>2, <1>3 DEF Dictionary

\* What has the key of `e`.
Namesakes(e) == {f \in Held : f.caller = e.caller /\ f.id = e.id}

LEMMA PutLastFacts ==
    ASSUME Dictionary(held), NEW e \in Entry
    PROVE  /\ Dictionary(PutLast(e)) /\ ToSet(PutLast(e)) = (Held \ Namesakes(e)) \union {e}
           /\ PutLast(e) # <<>> /\ PutLast(e)[Len(PutLast(e))] = e
<1>. DEFINE there == At(e.caller, e.id)
            h == IF there = {} THEN held ELSE Without(CHOOSE k \in there : TRUE)
<1>1. Dictionary(h) /\ ToSet(h) = Held \ Namesakes(e)
  <2>1. CASE there = {}
    BY <2>1 DEF At, Held, ToSet, Namesakes
  <2>2. CASE there # {}
    <3>1. PICK k : k = (CHOOSE i \in there : TRUE)
      OBVIOUS
    <3>2. k \in there /\ h = Evicted(k)
      BY <2>2, <3>1 DEF Evicted
    <3>3. k \in DOMAIN held /\ held[k].caller = e.caller /\ held[k].id = e.id
      BY <3>2 DEF At
    <3>4. Dictionary(h) /\ ToSet(h) = Held \ {held[k]} /\ held[k] \in Held
      BY <3>2, <3>3, EvictedFacts
    <3>5. Namesakes(e) = {held[k]}
      BY <3>3, <3>4 DEF Namesakes, Dictionary, Held
    <3>. QED  BY <3>4, <3>5
  <2>. QED  BY <2>1, <2>2
<1>2. \A f \in ToSet(h) : f.caller # e.caller \/ f.id # e.id
  BY <1>1 DEF Namesakes
<1>3. PutLast(e) = Append(h, e)
  BY DEF PutLast
<1>. HIDE DEF h
<1>. QED  BY <1>1, <1>2, <1>3, AppendedFacts

\* A caller that has entries has an oldest one.
LEMMA OldestFacts ==
    ASSUME Dictionary(held), NEW c, HeldBy(c) # {}
    PROVE  /\ OldestOf(c) \in DOMAIN held /\ held[OldestOf(c)] \in HeldBy(c)
           /\ \A m \in DOMAIN held : held[m].caller = c => OldestOf(c) <= m
<1>. DEFINE T == {k \in DOMAIN held : held[k].caller = c}
<1>1. T \in SUBSET Nat /\ T # {}
  BY DEF HeldBy, Held, ToSet, Dictionary
<1>2. \E k \in T : \A m \in T : k <= m
  BY <1>1, LeastOf
<1>3. /\ OldestOf(c) \in DOMAIN held /\ held[OldestOf(c)].caller = c
      /\ \A m \in DOMAIN held : held[m].caller = c => OldestOf(c) <= m
  BY <1>2 DEF OldestOf
<1>. QED  BY <1>3 DEF HeldBy, Held, ToSet

-----------------------------------------------------------------------------
(* What the entries weigh. *)

LEMMA HeldIsFinite == ASSUME Dictionary(held) PROVE IsFiniteSet(Held) /\ Held \subseteq Entry
<1>1. IsFiniteSet(1 .. Len(held))
  BY FS_Interval DEF Dictionary
<1>2. held \in [1 .. Len(held) -> Entry] /\ held \in Surjection(1 .. Len(held), Held)
  BY DEF Dictionary, Held, ToSet, Surjection
<1>3. IsFiniteSet(Held)
  BY <1>1, <1>2, FS_Surjection, Zenon
<1>. QED  BY <1>2, <1>3 DEF Held, ToSet, Dictionary

\* A set's weight is its total by any table of the entries' sizes.
LEMMA WeightIsAmount ==
    ASSUME NEW S \in SUBSET Entry PROVE Weight(S) = Amount(S, [e \in Entry |-> e.nbytes])
<1>. DEFINE own == [e \in S |-> e.nbytes]
            all == [e \in Entry |-> e.nbytes]
<1>1. \A e \in S : own[e] = all[e]
  OBVIOUS
<1>. HIDE DEF own, all
<1>2. {{e} \X (1 .. own[e]) : e \in S} = {{e} \X (1 .. all[e]) : e \in S}
  BY <1>1
<1>3. Units(S, own) = Units(S, all)
  BY <1>2 DEF Units
<1>4. Weight(S) = Amount(S, own)
  BY DEF Weight, own
<1>. QED  BY <1>3, <1>4 DEF Amount, all

LEMMA WeightFacts ==
    ASSUME NEW S \in SUBSET Entry, IsFiniteSet(S)
    PROVE  /\ Weight(S) \in Nat
           /\ \A e \in S : Weight(S \ {e}) = Weight(S) - e.nbytes /\ e.nbytes \in Nat \ {0}
           /\ \A e \in Entry \ S : Weight(S \union {e}) = Weight(S) + e.nbytes
<1>. DEFINE size == [e \in Entry |-> e.nbytes]
<1>1. \A e \in Entry : size[e] = e.nbytes /\ e.nbytes \in Nat \ {0}
  BY ContextsAssumption DEF Entry
<1>2. \A e \in S : size[e] \in Nat
  BY <1>1
<1>. HIDE DEF size
<1>3. Amount(S, size) \in Nat
  BY <1>2, AmountFinite
<1>4. \A e \in S : Amount(S \ {e}, size) = Amount(S, size) - size[e]
  BY <1>2, AmountRemove
<1>5. \A e \in Entry \ S : Amount(S \union {e}, size) = Amount(S, size) + size[e]
  BY <1>1, <1>2, AmountAdd
<1>6. \A X \in SUBSET Entry : Weight(X) = Amount(X, size)
  BY WeightIsAmount DEF size
<1>. QED  BY <1>1, <1>3, <1>4, <1>5, <1>6

\* Parts that share nothing weigh together what each weighs.
LEMMA WeightOfParts ==
    ASSUME NEW A \in SUBSET Entry, NEW B \in SUBSET Entry,
           IsFiniteSet(A), IsFiniteSet(B), A \intersect B = {}
    PROVE  Weight(A \union B) = Weight(A) + Weight(B)
<1>. DEFINE size == [e \in Entry |-> e.nbytes]
<1>1. \A e \in Entry : size[e] \in Nat
  BY ContextsAssumption DEF Entry
<1>. HIDE DEF size
<1>2. /\ IsFiniteSet(Units(A, size)) /\ Amount(A, size) \in Nat
      /\ IsFiniteSet(Units(B, size)) /\ Amount(B, size) \in Nat
  BY <1>1, AmountFinite
<1>3. Units(A \union B, size) = Units(A, size) \union Units(B, size)
  BY DEF Units
<1>4. Units(A, size) \intersect Units(B, size) = {}
  BY DEF Units
<1>5. Cardinality(Units(A, size) \union Units(B, size))
        = Cardinality(Units(A, size)) + Cardinality(Units(B, size))
  <2>1. Cardinality(Units(A, size) \union Units(B, size))
          = Cardinality(Units(A, size)) + Cardinality(Units(B, size))
            - Cardinality(Units(A, size) \intersect Units(B, size))
    BY <1>2, FS_Union
  <2>2. Cardinality(Units(A, size) \intersect Units(B, size)) = 0
    BY <1>4, FS_EmptySet
  <2>. QED  BY <1>2, <2>1, <2>2 DEF Amount
<1>6. \A X \in SUBSET Entry : Weight(X) = Amount(X, size)
  BY WeightIsAmount DEF size
<1>. QED  BY <1>3, <1>5, <1>6 DEF Amount

\* Less weighs no more.
LEMMA WeightOfLess ==
    ASSUME NEW S \in SUBSET Entry, IsFiniteSet(S), NEW A \in SUBSET S
    PROVE  Weight(A) <= Weight(S) /\ Weight(A) \in Nat /\ Weight(S) \in Nat
<1>1. IsFiniteSet(A) /\ IsFiniteSet(S \ A)
  BY FS_Subset
<1>2. A \union (S \ A) = S /\ A \intersect (S \ A) = {}
  OBVIOUS
<1>3. Weight(S) = Weight(A) + Weight(S \ A)
  BY <1>1, <1>2, WeightOfParts
<1>4. Weight(A) \in Nat /\ Weight(S \ A) \in Nat
  BY <1>1, WeightFacts
<1>. QED  BY <1>3, <1>4

LEMMA WeightOfFew ==
    Weight({}) = 0 /\ \A e \in Entry : Weight({e}) = e.nbytes
<1>1. Weight({}) = 0
  BY AmountEmpty DEF Weight
<1>2. ASSUME NEW e \in Entry PROVE Weight({e}) = e.nbytes
  <2>1. IsFiniteSet({}) /\ {} \in SUBSET Entry /\ {} \union {e} = {e} /\ e \in Entry \ {}
    BY FS_EmptySet
  <2>2. Weight({} \union {e}) = Weight({}) + e.nbytes
    BY <2>1, WeightFacts
  <2>. QED  BY <1>1, <2>1, <2>2, ContextsAssumption DEF Entry
<1>. QED  BY <1>1, <1>2

\* A caller past its share has an entry; so has a cache past its budget.
LEMMA OverIsNotEmpty ==
    ASSUME Dictionary(held)
    PROVE  (\A c : OverShare(c) => HeldBy(c) # {}) /\ (OverBudget => held # <<>>)
<1>1. ~(0 > Share) /\ ~(0 > Budget)
  BY ContextsAssumption
<1>2. \A c : HeldBy(c) = {} => of(c) = 0
  BY WeightOfFew DEF of
<1>3. held = <<>> => nbytes = 0
  <2>1. held = <<>> => Held = {}
    BY DEF Held, ToSet
  <2>. QED  BY <2>1, WeightOfFew DEF nbytes
<1>. QED  BY <1>1, <1>2, <1>3 DEF OverShare, OverBudget

-----------------------------------------------------------------------------
(* The invariants. *)

\* What a step that evicts takes.
LEMMA EvictionFacts ==
    ASSUME Shape, EvictOwn \/ EvictOldest \/ DropOne
    PROVE  \E k \in DOMAIN held :
              /\ held' = Evicted(k)
              /\ EvictOwn => k = OldestOf(putting.caller) /\ held[k] \in HeldBy(putting.caller)
              /\ DropOne => held[k] \in HeldBy(dropping)
              /\ EvictOldest /\ ~EvictOwn => k = 1
<1>1. Dictionary(held)
  BY DEF Shape
<1>2. CASE EvictOwn
  <2>1. HeldBy(putting.caller) # {} /\ held' = Evicted(OldestOf(putting.caller))
    BY <1>1, <1>2, OverIsNotEmpty DEF EvictOwn
  <2>2. OldestOf(putting.caller) \in DOMAIN held /\ held[OldestOf(putting.caller)] \in HeldBy(putting.caller)
    BY <1>1, <2>1, OldestFacts
  <2>3. ~DropOne
    BY <1>2 DEF EvictOwn, DropOne, Shape
  <2>. QED  BY <1>2, <2>1, <2>2, <2>3
<1>3. CASE DropOne
  <2>1. HeldBy(dropping) # {} /\ held' = Evicted(OldestOf(dropping))
    BY <1>3 DEF DropOne
  <2>2. OldestOf(dropping) \in DOMAIN held /\ held[OldestOf(dropping)] \in HeldBy(dropping)
    BY <1>1, <2>1, OldestFacts
  <2>3. ~EvictOwn /\ ~EvictOldest
    BY <1>3 DEF EvictOwn, EvictOldest, DropOne, Shape
  <2>. QED  BY <2>1, <2>2, <2>3
<1>4. CASE EvictOldest
  <2>1. held # <<>> /\ held' = Evicted(1)
    BY <1>1, <1>4, OverIsNotEmpty DEF EvictOldest
  <2>2. 1 \in DOMAIN held
    BY <1>1, <2>1 DEF Dictionary
  <2>3. ~EvictOwn /\ ~DropOne
    BY <1>4 DEF EvictOwn, EvictOldest, DropOne, Shape
  <2>. QED  BY <2>1, <2>2, <2>3
<1>. QED  BY <1>2, <1>3, <1>4

LEMMA ShapeInit == Init => Shape
BY DEF Init, Shape, Dictionary, IsInjective, ToSet

\* What a read does to the order: the entry goes last, none goes.
LEMMA GetFacts ==
    ASSUME Dictionary(held), NEW c, NEW i, Get(c, i)
    PROVE  Dictionary(held') /\ Held' = Held
<1>1. PICK k \in At(c, i) : held' = Append(Without(k), held[k])
  BY DEF Get
<1>2. k \in DOMAIN held
  BY DEF At
<1>3. /\ Dictionary(Without(k)) /\ ToSet(Without(k)) = Held \ {held[k]}
      /\ held[k] \in Held /\ held[k] \in Entry
  BY <1>2, EvictedFacts DEF Evicted
<1>4. \A f \in ToSet(Without(k)) : f.caller # held[k].caller \/ f.id # held[k].id
  BY <1>3 DEF Dictionary, Held
<1>5. Dictionary(held') /\ ToSet(held') = (Held \ {held[k]}) \union {held[k]}
  BY <1>1, <1>3, <1>4, AppendedFacts
<1>. QED  BY <1>3, <1>5 DEF Held

LEMMA ShapeStep == Shape /\ [Next]_vars => Shape'
<1>. SUFFICES ASSUME Shape, [Next]_vars PROVE Shape'
  OBVIOUS
<1>0. Dictionary(held)
  BY DEF Shape
<1>1. ASSUME NEW c \in Callers, NEW i \in Ids, Get(c, i) PROVE Shape'
  <2>1. Dictionary(held')
    BY <1>0, <1>1, GetFacts
  <2>. QED  BY <1>1, <2>1 DEF Shape, Get, Dictionary
<1>2. ASSUME NEW e \in Entry, Put(e) PROVE Shape'
  <2>1. Dictionary(held')
    BY <1>0, <1>2, PutLastFacts DEF Put
  <2>. QED  BY <1>2, <2>1 DEF Shape, Put, Free, Dictionary
<1>3. ASSUME NEW c \in Callers, Drop(c) PROVE Shape'
  BY <1>3 DEF Shape, Drop, Free, Dictionary
<1>4. CASE EvictOwn \/ EvictOldest \/ DropOne
  <2>1. PICK k \in DOMAIN held : held' = Evicted(k)
    BY <1>4, EvictionFacts
  <2>2. Dictionary(held')
    BY <1>0, <2>1, EvictedFacts
  <2>. QED  BY <1>4, <2>2 DEF Shape, EvictOwn, EvictOldest, DropOne, Dictionary
<1>5. CASE PutDone
  BY <1>5 DEF Shape, PutDone, Dictionary
<1>6. CASE DropDone
  BY <1>6 DEF Shape, DropDone, Dictionary
<1>7. CASE UNCHANGED vars
  BY <1>7 DEF Shape, vars, Dictionary
<1>. QED  BY <1>1, <1>2, <1>3, <1>4, <1>5, <1>6, <1>7 DEF Next, LoopStep

\* Between calls and within them, who may be past its share, and when the
\* whole may be past its budget: `WithinShares` is inductive over `Shape`.
LEMMA SharesInit == Init => WithinShares
<1>. SUFFICES ASSUME Init PROVE WithinShares
  OBVIOUS
<1>1. Held = {} /\ \A c : HeldBy(c) = {}
  BY DEF Init, Held, HeldBy, ToSet
<1>2. nbytes = 0 /\ \A c : of(c) = 0
  BY <1>1, WeightOfFew DEF nbytes, of
<1>. QED  BY <1>2, ContextsAssumption DEF WithinShares

LEMMA SharesStep == Shape /\ WithinShares /\ [Next]_vars => WithinShares'
<1>. SUFFICES ASSUME Shape, WithinShares, [Next]_vars PROVE WithinShares'
  OBVIOUS
<1>0. Dictionary(held) /\ IsFiniteSet(Held) /\ Held \subseteq Entry
  BY HeldIsFinite DEF Shape
<1>1. ASSUME NEW c \in Callers, NEW i \in Ids, Get(c, i) PROVE WithinShares'
  <2>1. Held' = Held
    BY <1>0, <1>1, GetFacts
  <2>. QED  BY <1>1, <2>1 DEF WithinShares, Get, of, HeldBy, nbytes
<1>2. ASSUME NEW e \in Entry, Put(e) PROVE WithinShares'
  <2>1. putting' = e /\ putting = None /\ e # None
    BY <1>2, ContextsAssumption DEF Put, Free, Entry
  <2>2. Held' = (Held \ Namesakes(e)) \union {e}
    BY <1>0, <1>2, PutLastFacts DEF Put, Held
  <2>3. ASSUME NEW d \in Callers, d # e.caller PROVE of(d)' = of(d)
    <3>1. HeldBy(d)' = HeldBy(d)
      BY <2>2, <2>3 DEF HeldBy, Namesakes
    <3>. QED  BY <3>1 DEF of
  <2>. QED  BY <2>1, <2>3 DEF WithinShares
<1>3. ASSUME NEW c \in Callers, Drop(c) PROVE WithinShares'
  BY <1>3 DEF WithinShares, Drop, of, HeldBy, Held, nbytes
<1>4. CASE EvictOwn \/ EvictOldest \/ DropOne
  <2>1. PICK k \in DOMAIN held : held' = Evicted(k)
    BY <1>4, EvictionFacts
  <2>2. Held' \subseteq Held /\ putting' = putting
    BY <1>0, <1>4, <2>1, EvictedFacts DEF Held, EvictOwn, EvictOldest, DropOne
  <2>3. ASSUME NEW d \in Callers PROVE of(d)' <= of(d) /\ of(d)' \in Nat /\ of(d) \in Nat
    <3>1. HeldBy(d)' \in SUBSET HeldBy(d) /\ HeldBy(d) \in SUBSET Entry
      BY <1>0, <2>2 DEF HeldBy
    <3>2. IsFiniteSet(HeldBy(d))
      BY <1>0, FS_Subset DEF HeldBy
    <3>. QED  BY <3>1, <3>2, WeightOfLess DEF of
  <2>4. nbytes' <= nbytes /\ nbytes' \in Nat /\ nbytes \in Nat
    BY <1>0, <2>2, WeightOfLess DEF nbytes
  <2>. QED  BY <2>2, <2>3, <2>4, ContextsAssumption DEF WithinShares
<1>5. CASE PutDone
  <2>1. /\ putting # None /\ putting' = None /\ held' = held
        /\ ~(of(putting.caller) > Share) /\ ~(nbytes > Budget)
    BY <1>5 DEF PutDone, OverShare, OverBudget
  <2>2. nbytes' = nbytes /\ \A c : of(c)' = of(c)
    BY <2>1 DEF nbytes, of, HeldBy, Held
  <2>3. nbytes \in Nat
    BY <1>0, WeightFacts DEF nbytes
  <2>. QED  BY <2>1, <2>2, <2>3, ContextsAssumption DEF WithinShares
<1>6. CASE DropDone
  BY <1>6 DEF WithinShares, DropDone, of, HeldBy, Held, nbytes
<1>7. CASE UNCHANGED vars
  BY <1>7 DEF WithinShares, vars, of, HeldBy, Held, nbytes
<1>. QED  BY <1>1, <1>2, <1>3, <1>4, <1>5, <1>6, <1>7 DEF Next, LoopStep

\* The entry being put is evicted by its own put only if no share could hold it.
LEMMA JustPutStep == Shape /\ JustPutStays /\ [Next]_vars => JustPutStays'
<1>. SUFFICES ASSUME Shape, JustPutStays, [Next]_vars, putting' # None, putting'.nbytes <= Share
              PROVE  held' # <<>> /\ held'[Len(held')] = putting'
  BY DEF JustPutStays
<1>0. Dictionary(held) /\ IsFiniteSet(Held) /\ Held \subseteq Entry
  BY HeldIsFinite DEF Shape
<1>1. ASSUME NEW e \in Entry, Put(e) PROVE held' # <<>> /\ held'[Len(held')] = putting'
  BY <1>0, <1>1, PutLastFacts DEF Put
<1>2. CASE EvictOwn \/ EvictOldest
  <2>1. /\ putting' = putting /\ putting # None
        /\ held # <<>> /\ held[Len(held)] = putting
    BY <1>2 DEF JustPutStays, EvictOwn, EvictOldest
  <2>2. putting \in Held /\ putting \in Entry /\ Len(held) \in DOMAIN held
    BY <1>0, <2>1 DEF Held, ToSet, Dictionary
  <2>3. PICK k \in DOMAIN held :
           /\ held' = Evicted(k)
           /\ EvictOwn => k = OldestOf(putting.caller) /\ held[k] \in HeldBy(putting.caller)
           /\ EvictOldest /\ ~EvictOwn => k = 1
    BY <1>2, EvictionFacts
  <2>4. Weight({putting}) = putting.nbytes /\ putting.nbytes \in Nat
    BY <2>2, WeightOfFew, ContextsAssumption DEF Entry
  <2>5. k # Len(held)
    <3>1. CASE EvictOwn
      <4>1. SUFFICES ASSUME k = Len(held) PROVE FALSE
        OBVIOUS
      <4>2. \A m \in DOMAIN held : held[m].caller = putting.caller => Len(held) <= m
        BY <1>0, <2>3, <3>1, <4>1, OldestFacts
      <4>3. \A m \in DOMAIN held : m \in Nat /\ m <= Len(held)
        BY <1>0 DEF Dictionary
      <4>4. \A m \in DOMAIN held : held[m].caller = putting.caller => m = Len(held)
        BY <2>2, <4>2, <4>3
      <4>5. HeldBy(putting.caller) = {putting}
        BY <2>1, <2>2, <4>4 DEF HeldBy, Held, ToSet
      <4>6. of(putting.caller) = putting.nbytes
        BY <2>4, <4>5 DEF of
      <4>. QED  BY <2>1, <2>4, <3>1, <4>6, ContextsAssumption DEF EvictOwn, OverShare
    <3>2. CASE EvictOldest /\ ~EvictOwn
      <4>1. SUFFICES ASSUME k = Len(held) PROVE FALSE
        OBVIOUS
      <4>2. Len(held) = 1 /\ DOMAIN held = {1}
        BY <1>0, <2>3, <3>2, <4>1 DEF Dictionary
      <4>3. Held = {putting}
        BY <2>1, <4>2 DEF Held, ToSet
      <4>4. nbytes = putting.nbytes
        BY <2>4, <4>3 DEF nbytes
      <4>. QED  BY <2>1, <2>4, <3>2, <4>4, ContextsAssumption DEF EvictOldest, OverBudget
    <3>. QED  BY <1>2, <3>1, <3>2
  <2>. QED  BY <1>0, <2>1, <2>3, <2>5, LastStays
<1>3. CASE PutDone
  BY <1>3 DEF PutDone
<1>4. CASE UNCHANGED <<held, putting>>
  BY <1>4 DEF JustPutStays
<1>5. ASSUME NEW c \in Callers, NEW i \in Ids, Get(c, i) PROVE FALSE
  BY <1>5 DEF Get, Free
<1>6. CASE DropOne
  BY <1>6 DEF DropOne, Shape
<1>. QED  BY <1>1, <1>2, <1>3, <1>4, <1>5, <1>6 DEF Next, LoopStep, Drop, DropDone, vars

\* While a put evicts, another caller's entry goes only if a third has one:
\* two callers within their shares fit the budget together.
LEMMA OthersStep ==
    Shape /\ WithinShares /\ [Next]_vars
        => \A e \in Held \ Held' :
              (putting # None /\ e.caller # putting.caller)
                  => \E f \in Held : f.caller \notin {e.caller, putting.caller}
<1>. SUFFICES ASSUME Shape, WithinShares, [Next]_vars, NEW e \in Held, e \notin Held',
                     putting # None, e.caller # putting.caller,
                     \A f \in Held : f.caller \in {e.caller, putting.caller}
              PROVE  FALSE
  OBVIOUS
<1>0. Dictionary(held) /\ IsFiniteSet(Held) /\ Held \subseteq Entry
  BY HeldIsFinite DEF Shape
<1>1. EvictOwn \/ EvictOldest
  <2>1. ~Free /\ dropping = None
    BY DEF Free, Shape
  <2>2. held' # held
    BY DEF Held
  <2>. QED  BY <2>1, <2>2 DEF Next, LoopStep, Get, Put, Drop, DropOne, DropDone, PutDone, vars
<1>2. PICK k \in DOMAIN held :
         /\ held' = Evicted(k)
         /\ EvictOwn => held[k] \in HeldBy(putting.caller)
  BY <1>1, EvictionFacts
<1>3. Held' = Held \ {held[k]}
  BY <1>0, <1>2, EvictedFacts DEF Held
<1>4. e = held[k] /\ ~EvictOwn
  BY <1>2, <1>3 DEF HeldBy
<1>5. ~(of(putting.caller) > Share) /\ nbytes > Budget
  BY <1>1, <1>4 DEF EvictOldest, OverShare, OverBudget
<1>6. e.caller \in Callers /\ ~(of(e.caller) > Share)
  BY <1>0 DEF WithinShares, Entry
<1>7. /\ Held = HeldBy(e.caller) \union HeldBy(putting.caller)
      /\ HeldBy(e.caller) \intersect HeldBy(putting.caller) = {}
  BY DEF HeldBy
<1>8. \A c : IsFiniteSet(HeldBy(c)) /\ HeldBy(c) \in SUBSET Entry
  BY <1>0, FS_Subset DEF HeldBy
<1>9. nbytes = of(e.caller) + of(putting.caller)
  BY <1>7, <1>8, WeightOfParts DEF nbytes, of
<1>10. of(e.caller) \in Nat /\ of(putting.caller) \in Nat
  BY <1>8, WeightFacts DEF of
<1>. QED  BY <1>5, <1>6, <1>9, <1>10, ContextsAssumption

-----------------------------------------------------------------------------
(* Theorems. *)

\* The cache is a dictionary of well-typed entries, each key once.
THEOREM CacheIsTyped == CacheSpec => []CacheTypeOK
<1>1. CacheSpec => []Shape
  BY ShapeInit, ShapeStep, PTL DEF CacheSpec
<1>2. Shape => CacheTypeOK
  BY ShapeIsType
<1>. QED  BY <1>1, <1>2, PTL

\* No caller is past its share, nor the cache past its budget, but in a put.
THEOREM SharesAreKept == CacheSpec => []WithinShares
<1>1. CacheSpec => [](Shape /\ WithinShares)
  BY ShapeInit, ShapeStep, SharesInit, SharesStep, PTL DEF CacheSpec
<1>. QED  BY <1>1, PTL

\* The read that built a context finds it, whatever its put evicted.
THEOREM WhatIsPutStays == CacheSpec => []JustPutStays
<1>1. Init => JustPutStays
  BY DEF Init, JustPutStays
<1>. QED  BY <1>1, ShapeInit, ShapeStep, JustPutStep, PTL DEF CacheSpec

\* Two callers never push one another's contexts out.
THEOREM OthersGoOnlyForThree == CacheSpec => EvictsAnotherOnlyForThree
<1>1. CacheSpec => [](Shape /\ WithinShares)
  BY ShapeInit, ShapeStep, SharesInit, SharesStep, PTL DEF CacheSpec
<1>. QED  BY <1>1, OthersStep, PTL DEF CacheSpec, EvictsAnotherOnlyForThree

=============================================================================
