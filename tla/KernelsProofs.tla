--------------------------- MODULE KernelsProofs ---------------------------
(***************************************************************************)
(* Answers are a read's own, for every set of callers, tables and          *)
(* requests and cycles of every length; and a cycle uses the cache only as *)
(* Contexts says, whose theorems so hold of it.                            *)
(***************************************************************************)
EXTENDS Kernels, TLAPS

Kept == INSTANCE ContextsProofs

Outcome == [is : {"open", "answered", "kernel error", "context unknown"},
            from : Estimators \union {None}, context : Ids \union {None},
            voices : SUBSET {"seasonal_naive", "chronos2"}]

\* What AnswersAreOwn says of one read's outcome.
OwnAnswer(i, o) ==
    o.is = "answered" =>
        IF reads[i].context = None
        THEN o.from = Fitted(i)
        ELSE o.from.by = reads[i].caller /\ reads[i].context = <<o.from.rows, o.from.members>>

\* A kept context was fitted to its own caller's rows, and its id says which.
OwnEntry(e) == e.fitted.by = e.caller /\ e.id = <<e.fitted.rows, e.fitted.members>>

Shelf == Kept!Shape /\ \A e \in Kept!Held : OwnEntry(e)

Cycle ==
    /\ pc \in {"idle", "batch", "kept", "room", "get", "chronos", "done"}
    /\ reads \in Seq(Requests) /\ members \in Ensembles /\ spent \in BOOLEAN
    /\ at \in 1 .. Len(reads) + 1 /\ (pc \in {"room", "get"} => at <= Len(reads))

Outcomes ==
    /\ out \in Seq(Outcome) /\ Len(out) = Len(reads)
    /\ \A i \in 1 .. Len(reads) : OwnAnswer(i, out[i])

Answering == Shelf /\ Cycle /\ Outcomes

-----------------------------------------------------------------------------
(* The cache of Kernels and that of the proofs are one. *)

LEMMA CacheBounds == Kept!ContextsAssumption
  BY KernelsAssumption DEF Sizes

LEMMA SameGet == ASSUME NEW c, NEW i PROVE Cache!Get(c, i) <=> Kept!Get(c, i)
  BY DEF Cache!Get, Kept!Get, Cache!Free, Kept!Free, Cache!At, Kept!At, Cache!Without, Kept!Without,
         Cache!RemoveAt, Kept!RemoveAt

LEMMA SamePut == ASSUME NEW e PROVE Cache!Put(e) <=> Kept!Put(e)
  BY DEF Cache!Put, Kept!Put, Cache!Free, Kept!Free, Cache!PutLast, Kept!PutLast, Cache!At, Kept!At,
         Cache!Without, Kept!Without, Cache!RemoveAt, Kept!RemoveAt

LEMMA SameLoop ==
    /\ Cache!EvictOwn <=> Kept!EvictOwn
    /\ Cache!EvictOldest <=> Kept!EvictOldest
    /\ Cache!PutDone <=> Kept!PutDone
  BY DEF Cache!EvictOwn, Kept!EvictOwn, Cache!EvictOldest, Kept!EvictOldest, Cache!PutDone, Kept!PutDone,
         Cache!OverShare, Kept!OverShare, Cache!OverBudget, Kept!OverBudget, Cache!Evicted, Kept!Evicted,
         Cache!Without, Kept!Without, Cache!RemoveAt, Kept!RemoveAt, Cache!of, Kept!of, Cache!nbytes,
         Kept!nbytes, Cache!Weight, Kept!Weight, Cache!HeldBy, Kept!HeldBy, Cache!Held, Kept!Held,
         Cache!OldestOf, Kept!OldestOf, Cache!ToSet, Kept!ToSet, Cache!Amount, Kept!Amount, Cache!Units,
         Kept!Units, Cache!Cardinality, Kept!Cardinality

LEMMA SameType == Cache!CacheTypeOK <=> Kept!Shape
  <1>1. Cache!CacheTypeOK <=> Kept!CacheTypeOK
    BY DEF Cache!CacheTypeOK, Kept!CacheTypeOK, Cache!Entry, Kept!Entry
  <1> QED
    BY <1>1, CacheBounds, Kept!ShapeIsType

-----------------------------------------------------------------------------
(* What a step of the cache does to whose its entries are. *)

LEMMA ShelfKeeps ==
  ASSUME Shelf, Kept!Shape', \A e \in Kept!Held' : e \in Kept!Held \/ OwnEntry(e)
  PROVE  Shelf'
  BY DEF Shelf, OwnEntry

\* `get` moves an entry to the end, which is the one asked for.
LEMMA ShelfGet ==
  ASSUME Shelf, NEW c \in Callers, NEW i \in Ids, Kept!Get(c, i)
  PROVE  /\ Shelf'
         /\ LET e == held'[Len(held')]
            IN  e \in Kept!Entry /\ OwnEntry(e) /\ e.caller = c /\ e.id = i
  <1>1. Kept!Dictionary(held)
    BY DEF Shelf, Kept!Shape
  <1>2. Kept!Shape'
    BY CacheBounds, Kept!ShapeStep DEF Shelf, Kept!Next
  <1>3. Kept!Held' = Kept!Held
    BY <1>1, CacheBounds, Kept!GetFacts
  <1>4. PICK k \in Kept!At(c, i) : held' = Append(Kept!Without(k), held[k])
    BY DEF Kept!Get
  <1>5. k \in DOMAIN held /\ held[k].caller = c /\ held[k].id = i
    BY <1>4 DEF Kept!At
  <1>6. Kept!Dictionary(Kept!Without(k)) /\ held[k] \in Kept!Held /\ held[k] \in Kept!Entry
    BY <1>1, <1>5, CacheBounds, Kept!EvictedFacts DEF Kept!Evicted
  <1>7. held'[Len(held')] = held[k]
    BY <1>4, <1>6 DEF Kept!Dictionary
  <1>8. Shelf'
    BY <1>2, <1>3, ShelfKeeps
  <1> QED
    BY <1>5, <1>6, <1>7, <1>8 DEF Shelf

LEMMA ShelfPut ==
  ASSUME Shelf, NEW e \in Kept!Entry, OwnEntry(e), Kept!Put(e)
  PROVE  Shelf'
  <1>1. Kept!Shape'
    BY CacheBounds, Kept!ShapeStep DEF Shelf, Kept!Next
  <1>2. Kept!ToSet(Kept!PutLast(e)) = (Kept!Held \ Kept!Namesakes(e)) \union {e}
    BY CacheBounds, Kept!PutLastFacts DEF Shelf, Kept!Shape
  <1>3. Kept!Held' = (Kept!Held \ Kept!Namesakes(e)) \union {e}
    BY <1>2 DEF Kept!Put, Kept!Held
  <1> QED
    BY <1>1, <1>3, ShelfKeeps

LEMMA ShelfLoop ==
  ASSUME Shelf, Kept!EvictOwn \/ Kept!EvictOldest \/ Kept!PutDone
  PROVE  Shelf'
  <1>1. Kept!Shape'
    BY CacheBounds, Kept!ShapeStep DEF Shelf, Kept!Next, Kept!LoopStep
  <1>2. CASE Kept!EvictOwn \/ Kept!EvictOldest
    <2>1. PICK k \in DOMAIN held : held' = Kept!Evicted(k)
      BY <1>2, CacheBounds, Kept!EvictionFacts DEF Shelf
    <2>2. Kept!ToSet(Kept!Evicted(k)) = Kept!Held \ {held[k]}
      BY CacheBounds, Kept!EvictedFacts DEF Shelf, Kept!Shape
    <2>3. Kept!Held' = Kept!Held \ {held[k]}
      BY <2>1, <2>2 DEF Kept!Held
    <2> QED
      BY <1>1, <2>3, ShelfKeeps
  <1>3. CASE Kept!PutDone
    <2>1. Kept!Held' = Kept!Held
      BY <1>3 DEF Kept!PutDone, Kept!Held
    <2> QED
      BY <1>1, <2>1, ShelfKeeps
  <1> QED
    BY <1>2, <1>3

LEMMA ShelfStays == ASSUME Shelf, UNCHANGED cacheVars PROVE Shelf'
  <1>1. Kept!Shape'
    BY CacheBounds, Kept!ShapeStep DEF Shelf, Kept!vars, cacheVars
  <1>2. Kept!Held' = Kept!Held
    BY DEF Kept!Held, cacheVars
  <1> QED
    BY <1>1, <1>2, ShelfKeeps

-----------------------------------------------------------------------------
(* Outcomes. *)

LEMMA OutcomesAre ==
    /\ Open \in Outcome /\ KernelError \in Outcome /\ ContextUnknown \in Outcome
    /\ Open.is = "open" /\ KernelError.is = "kernel error" /\ ContextUnknown.is = "context unknown"
    /\ \A e \in Estimators, c \in Ids \union {None} :
          Answered(e, c) \in Outcome /\ Answered(e, c).from = e /\ Answered(e, c).is = "answered"
  BY DEF Open, KernelError, ContextUnknown, Answered, Outcome

LEMMA RefusalsAreOwn == \A i : OwnAnswer(i, Open) /\ OwnAnswer(i, KernelError) /\ OwnAnswer(i, ContextUnknown)
  BY OutcomesAre DEF OwnAnswer

LEMMA RequestFacts ==
  ASSUME NEW r \in Requests
  PROVE  /\ r.caller \in Callers /\ r.context \in Ids \union {None}
         /\ r.context = None => r.rows \in Tables
         /\ r.context # None => r.context \in Ids
  BY KernelsAssumption

LEMMA FittedFacts ==
  ASSUME Cycle, NEW i \in 1 .. Len(reads), reads[i].context = None
  PROVE  Fitted(i) \in Estimators /\ OwnAnswer(i, Answered(Fitted(i), None))
  <1>1. reads[i] \in Requests
    BY DEF Cycle
  <1>2. Fitted(i) \in Estimators
    BY <1>1, RequestFacts DEF Fitted, Estimators, Cycle
  <1> QED
    BY <1>2, OutcomesAre DEF OwnAnswer

LEMMA IdFacts ==
  ASSUME Cycle, NEW i \in 1 .. Len(reads)
  PROVE  /\ IdOf(i) \in Ids /\ reads[i].caller \in Callers
         /\ reads[i].context = None => IdOf(i) = <<reads[i].rows, members>>
         /\ reads[i].context # None => IdOf(i) = reads[i].context
  <1>1. reads[i] \in Requests /\ members \in Ensembles
    BY DEF Cycle
  <1> QED
    BY <1>1, RequestFacts DEF IdOf, contextId, Ids

\* One read settled, the others as they were.
LEMMA Settled ==
  ASSUME Cycle, Outcomes, NEW i \in 1 .. Len(reads), NEW o \in Outcome, OwnAnswer(i, o),
         Settle(i, o), UNCHANGED cycleVars
  PROVE  Outcomes'
  BY DEF Settle, Outcomes, OwnAnswer, Fitted, cycleVars

\* Every read given an outcome.
LEMMA Written ==
  ASSUME Cycle, out' \in [1 .. Len(reads) -> Outcome], UNCHANGED cycleVars,
         \A i \in 1 .. Len(reads) : OwnAnswer(i, out'[i])
  PROVE  Outcomes'
  <1>1. out' \in Seq(Outcome) /\ Len(out') = Len(reads)
    BY DEF Cycle
  <1> QED
    BY <1>1 DEF Outcomes, OwnAnswer, Fitted, cycleVars

LEMMA OutcomesStay == ASSUME Outcomes, UNCHANGED <<cycleVars, out>> PROVE Outcomes'
  BY DEF Outcomes, OwnAnswer, Fitted, cycleVars

\* A voice adds itself to an answer, and changes nothing else of it.
LEMMA Spoken ==
  ASSUME Outcomes, NEW i \in 1 .. Len(reads), NEW v \in {"seasonal_naive", "chronos2"}
  PROVE  Speak(i, v) \in Outcome /\ OwnAnswer(i, Speak(i, v))
  <1>1. out[i] \in Outcome /\ OwnAnswer(i, out[i])
    BY DEF Outcomes
  <1>2. Speak(i, v) \in Outcome /\ Speak(i, v).is = out[i].is /\ Speak(i, v).from = out[i].from
    BY <1>1 DEF Speak, Outcome
  <1> QED
    BY <1>1, <1>2 DEF OwnAnswer

-----------------------------------------------------------------------------
LEMMA AnsweringInit == Init => Answering
  <1> SUFFICES ASSUME Init PROVE Answering
    OBVIOUS
  <1>1. Kept!Shape /\ Kept!Held = {}
    BY CacheBounds, Kept!ShapeInit
       DEF Init, Cache!Init, Kept!Init, Kept!Held, Kept!ToSet
  <1>2. Cycle
    <2>1. pc = "idle" /\ members \in Ensembles /\ spent \in BOOLEAN
      BY DEF Init
    <2>2. reads \in Seq(Requests) /\ Len(reads) = 0 /\ at = 1
      BY DEF Init
    <2> QED
      BY <2>1, <2>2 DEF Cycle
  <1>3. Outcomes
    BY DEF Init, Outcomes
  <1> QED
    BY <1>1, <1>2, <1>3 DEF Answering, Shelf

\* What `_keep` puts: the read's rows, fitted, under their own id, of a size
\* within a share but for the slack.
LEMMA BuiltFacts ==
  ASSUME Cycle, MayBuild, NEW n \in Built(reads[at].rows, members)
  PROVE  LET e == [caller |-> reads[at].caller, id |-> IdOf(at), nbytes |-> n, fitted |-> Fitted(at)]
         IN  e \in Kept!Entry /\ OwnEntry(e)
  <1>1. at \in 1 .. Len(reads) /\ reads[at].context = None
    BY DEF MayBuild, Keeping, Turn, Cycle
  <1>2. Fitted(at) \in Estimators /\ IdOf(at) \in Ids /\ reads[at].caller \in Callers
    BY <1>1, FittedFacts, IdFacts
  <1>3. IdOf(at) = <<reads[at].rows, members>>
    BY <1>1, IdFacts
  <1>4. reads[at].rows \in Tables
    BY <1>1, RequestFacts DEF Cycle
  <1>5. TableOf[reads[at].rows].rows \in Nat \ {0} /\ members \in Nat \ {0}
    BY <1>4, KernelsAssumption DEF Cycle
  <1>6. \A x, y \in Nat \ {0} : x * y \in Nat \ {0}
    OBVIOUS
  <1>7. Estimate(reads[at].rows, members) \in Nat \ {0}
    BY <1>5, <1>6 DEF Estimate
  <1>8. Estimate(reads[at].rows, members) <= Share
    BY DEF MayBuild, Fits
  <1>9. n \in Sizes
    BY <1>7, <1>8, KernelsAssumption DEF Built, Sizes
  <1> QED
    BY <1>2, <1>3, <1>9 DEF Kept!Entry, OwnEntry, Fitted

LEMMA AnsweringStep == Answering /\ [Next]_vars => Answering'
  <1> SUFFICES ASSUME Answering, [Next]_vars PROVE Answering'
    OBVIOUS
  <1>0. Shelf /\ Cycle /\ Outcomes
    BY DEF Answering
  <1>1. CASE Begin
    <2>1. PICK n \in 1 .. MaxReads : reads' \in [1 .. n -> Requests]
      BY <1>1 DEF Begin
    <2>2. n \in Nat /\ reads' \in Seq(Requests) /\ Len(reads') = n
      BY <2>1, KernelsAssumption
    <2>3. out' = [i \in 1 .. n |-> Open]
      BY <1>1, <2>1 DEF Begin
    <2>4. out' \in Seq(Outcome) /\ Len(out') = n /\ \A i \in 1 .. n : out'[i] = Open
      <3>1. Open \in Outcome
        BY OutcomesAre
      <3>2. out' \in [1 .. n -> Outcome] /\ \A i \in 1 .. n : out'[i] = Open
        BY <2>3, <3>1
      <3> QED
        BY <2>2, <3>2
    <2>5. Outcomes'
      BY <2>2, <2>4, OutcomesAre DEF Outcomes, OwnAnswer
    <2>6. Cycle'
      BY <1>0, <1>1, <2>2 DEF Begin, Cycle
    <2> QED
      BY <1>0, <1>1, <2>5, <2>6, ShelfStays DEF Begin, Answering
  <1>2. CASE Batch
    <2>1. PICK ready \in SUBSET {i \in DOMAIN reads : Plain(i) /\ Sound(i)} :
            \E broken \in SUBSET {Shape(i) : i \in ready} :
               /\ out' = [i \in DOMAIN reads |->
                            IF ~Plain(i) THEN Open
                            ELSE IF i \in ready /\ Shape(i) \notin broken
                                 THEN Answered(Fitted(i), None)
                                 ELSE KernelError]
               /\ spent' \in {spent, spent \/ broken # {}}
      BY <1>2 DEF Batch
    <2>2. DOMAIN reads = 1 .. Len(reads)
      BY <1>0 DEF Cycle
    <2>3. \A i \in 1 .. Len(reads) :
            out'[i] \in {Open, KernelError} \/ (Plain(i) /\ out'[i] = Answered(Fitted(i), None))
      BY <2>1, <2>2
    <2>4. \A i \in 1 .. Len(reads) : out'[i] \in Outcome /\ OwnAnswer(i, out'[i])
      <3> SUFFICES ASSUME NEW i \in 1 .. Len(reads) PROVE out'[i] \in Outcome /\ OwnAnswer(i, out'[i])
        OBVIOUS
      <3>1. CASE out'[i] = Open \/ out'[i] = KernelError
        BY <3>1, OutcomesAre, RefusalsAreOwn
      <3>2. CASE Plain(i) /\ out'[i] = Answered(Fitted(i), None)
        <4>1. Fitted(i) \in Estimators /\ OwnAnswer(i, Answered(Fitted(i), None))
          BY <1>0, <3>2, FittedFacts DEF Plain
        <4> QED
          BY <3>2, <4>1, OutcomesAre
      <3> QED
        BY <2>3, <3>1, <3>2
    <2>5. out' \in [1 .. Len(reads) -> Outcome]
      BY <2>1, <2>2, <2>4
    <2>6. spent' \in BOOLEAN
      BY <1>0, <2>1 DEF Cycle
    <2>7. Cycle'
      BY <1>0, <1>2, <2>6 DEF Batch, cycleVars, Cycle
    <2>8. Outcomes'
      BY <1>0, <1>2, <2>4, <2>5, Written DEF Batch
    <2> QED
      BY <1>0, <1>2, <2>7, <2>8, ShelfStays DEF Batch, Answering
  <1>3. CASE PassBy \/ NameContext \/ KeepFinds
    <2>1. UNCHANGED <<cacheVars, cycleVars, out, spent>>
      BY <1>3 DEF PassBy, NameContext, KeepFinds, Keeping
    <2>2. Cycle'
      BY <1>0, <1>3, <2>1 DEF PassBy, NameContext, KeepFinds, Keeping, Turn, cycleVars, Cycle
    <2> QED
      BY <1>0, <2>1, <2>2, ShelfStays, OutcomesStay DEF Answering
  <1>4. CASE KeepRefuses \/ BuildFails \/ GetUnknown
    <2>1. PICK o \in {KernelError, ContextUnknown} : Settle(at, o)
      BY <1>4 DEF KeepRefuses, BuildFails, GetUnknown
    <2>2. at \in 1 .. Len(reads) /\ at' = at + 1 /\ UNCHANGED <<cacheVars, cycleVars>>
      BY <1>0, <1>4 DEF KeepRefuses, BuildFails, GetUnknown, MayBuild, Keeping, Turn, Cycle
    <2>3. pc' = "kept" /\ spent' \in BOOLEAN
      BY <1>0, <1>4 DEF KeepRefuses, BuildFails, GetUnknown, MayBuild, Keeping, Turn, Cycle
    <2>4. Cycle'
      BY <1>0, <2>2, <2>3 DEF Cycle, cycleVars
    <2>5. Outcomes'
      BY <1>0, <2>1, <2>2, OutcomesAre, RefusalsAreOwn, Settled
    <2> QED
      BY <1>0, <2>2, <2>4, <2>5, ShelfStays DEF Answering
  <1>5. CASE Build
    <2>1. PICK n \in Built(reads[at].rows, members) :
            Cache!Put([caller |-> reads[at].caller, id |-> IdOf(at), nbytes |-> n, fitted |-> Fitted(at)])
      BY <1>5 DEF Build
    <2>2. MayBuild /\ UNCHANGED <<cycleVars, out, at, spent>> /\ pc' = "room"
      BY <1>5 DEF Build, MayBuild, Keeping
    <2>3. Shelf'
      BY <1>0, <2>1, <2>2, BuiltFacts, SamePut, ShelfPut
    <2>4. Cycle'
      BY <1>0, <2>2 DEF MayBuild, Keeping, Turn, Cycle, cycleVars
    <2> QED
      BY <1>0, <2>2, <2>3, <2>4, OutcomesStay DEF Answering
  <1>6. CASE MakeRoom
    <2>1. /\ UNCHANGED <<cycleVars, out, at, spent>> /\ pc = "room" /\ pc' \in {"room", "get"}
          /\ Cache!EvictOwn \/ Cache!EvictOldest \/ Cache!PutDone
      BY <1>6 DEF MakeRoom
    <2>2. Shelf'
      BY <1>0, <2>1, SameLoop, ShelfLoop
    <2>3. Cycle'
      BY <1>0, <2>1 DEF Cycle, cycleVars
    <2> QED
      BY <1>0, <2>1, <2>2, <2>3, OutcomesStay DEF Answering
  <1>7. CASE GetAndAnswer
    <2> DEFINE e == held'[Len(held')]
    <2>1. /\ pc = "get" /\ at' = at + 1 /\ pc' = "kept" /\ UNCHANGED cycleVars
          /\ Cache!Get(reads[at].caller, IdOf(at))
          /\ Settle(at, Answered(e.fitted, IdOf(at))) \/ Settle(at, KernelError)
      BY <1>7 DEF GetAndAnswer
    <2>2. at \in 1 .. Len(reads)
      BY <1>0, <2>1 DEF Cycle
    <2>3. IdOf(at) \in Ids /\ reads[at].caller \in Callers
      BY <1>0, <2>2, IdFacts
    <2>4. Shelf' /\ e \in Kept!Entry /\ OwnEntry(e) /\ e.caller = reads[at].caller /\ e.id = IdOf(at)
      BY <1>0, <2>1, <2>3, SameGet, ShelfGet
    <2>5. e.fitted \in Estimators
      BY <2>4 DEF Kept!Entry
    <2> HIDE DEF e
    <2>6. e.fitted.by = reads[at].caller /\ IdOf(at) = <<e.fitted.rows, e.fitted.members>>
      BY <2>4 DEF OwnEntry
    <2>7. reads[at].context = None => e.fitted = Fitted(at)
      <3> SUFFICES ASSUME reads[at].context = None PROVE e.fitted = Fitted(at)
        OBVIOUS
      <3>1. e.fitted.rows = reads[at].rows /\ e.fitted.members = members
        BY <1>0, <2>2, <2>6, IdFacts
      <3> QED
        BY <2>5, <2>6, <3>1 DEF Estimators, Fitted
    <2>8. OwnAnswer(at, Answered(e.fitted, IdOf(at))) /\ Answered(e.fitted, IdOf(at)) \in Outcome
      BY <1>0, <2>2, <2>3, <2>5, <2>6, <2>7, OutcomesAre, IdFacts DEF OwnAnswer
    <2>9. Outcomes'
      BY <1>0, <2>1, <2>2, <2>8, OutcomesAre, RefusalsAreOwn, Settled
    <2>10. spent' \in BOOLEAN
      BY <1>0, <1>7 DEF GetAndAnswer, Cycle
    <2>11. Cycle'
      BY <1>0, <2>1, <2>2, <2>10 DEF Cycle, cycleVars
    <2> QED
      BY <2>4, <2>9, <2>11 DEF Answering
  <1>8. CASE NaiveSpeaks
    <2>1. DOMAIN reads = 1 .. Len(reads)
      BY <1>0 DEF Cycle
    <2>2. \A i \in 1 .. Len(reads) : out'[i] \in {out[i], Speak(i, "seasonal_naive"), KernelError}
      BY <1>8, <2>1 DEF NaiveSpeaks
    <2>3. \A i \in 1 .. Len(reads) : out'[i] \in Outcome /\ OwnAnswer(i, out'[i])
      <3> SUFFICES ASSUME NEW i \in 1 .. Len(reads) PROVE out'[i] \in Outcome /\ OwnAnswer(i, out'[i])
        OBVIOUS
      <3>1. CASE out'[i] = out[i]
        BY <1>0, <3>1 DEF Outcomes
      <3>2. CASE out'[i] = Speak(i, "seasonal_naive")
        BY <1>0, <3>2, Spoken
      <3>3. CASE out'[i] = KernelError
        BY <3>3, OutcomesAre, RefusalsAreOwn
      <3> QED
        BY <2>2, <3>1, <3>2, <3>3
    <2>4. out' \in [1 .. Len(reads) -> Outcome]
      BY <1>8, <2>1, <2>3 DEF NaiveSpeaks
    <2>5. Outcomes'
      BY <1>0, <1>8, <2>3, <2>4, Written DEF NaiveSpeaks
    <2>6. Cycle'
      BY <1>0, <1>8 DEF NaiveSpeaks, Cycle, cycleVars
    <2> QED
      BY <1>0, <1>8, <2>5, <2>6, ShelfStays DEF NaiveSpeaks, Answering
  <1>9. CASE ChronosSpeaks
    <2>1. DOMAIN reads = 1 .. Len(reads)
      BY <1>0 DEF Cycle
    <2>2. PICK mute : out' = [i \in DOMAIN reads |->
                                IF i \notin Asking("chronos2") THEN out[i]
                                ELSE IF i \in mute THEN KernelError ELSE Speak(i, "chronos2")]
      BY <1>9 DEF ChronosSpeaks
    <2>3. \A i \in 1 .. Len(reads) : out'[i] \in {out[i], Speak(i, "chronos2"), KernelError}
      BY <2>1, <2>2
    <2>4. \A i \in 1 .. Len(reads) : out'[i] \in Outcome /\ OwnAnswer(i, out'[i])
      <3> SUFFICES ASSUME NEW i \in 1 .. Len(reads) PROVE out'[i] \in Outcome /\ OwnAnswer(i, out'[i])
        OBVIOUS
      <3>1. CASE out'[i] = out[i]
        BY <1>0, <3>1 DEF Outcomes
      <3>2. CASE out'[i] = Speak(i, "chronos2")
        BY <1>0, <3>2, Spoken
      <3>3. CASE out'[i] = KernelError
        BY <3>3, OutcomesAre, RefusalsAreOwn
      <3> QED
        BY <2>3, <3>1, <3>2, <3>3
    <2>5. out' \in [1 .. Len(reads) -> Outcome]
      BY <2>1, <2>2, <2>4
    <2>6. Outcomes'
      BY <1>0, <1>9, <2>4, <2>5, Written DEF ChronosSpeaks
    <2>7. spent' \in BOOLEAN
      BY <1>0, <1>9 DEF ChronosSpeaks, Cycle
    <2>8. Cycle'
      BY <1>0, <1>9, <2>7 DEF ChronosSpeaks, Cycle, cycleVars
    <2> QED
      BY <1>0, <1>9, <2>6, <2>8, ShelfStays DEF ChronosSpeaks, Answering
  <1>10. CASE Return \/ CycleFails
    <2>1. Rest /\ spent' \in BOOLEAN
      BY <1>0, <1>10 DEF Return, CycleFails, Cycle
    <2>2. Cycle' /\ Outcomes'
      BY <1>0, <2>1 DEF Rest, Cycle, Outcomes
    <2> QED
      BY <1>0, <2>1, <2>2, ShelfStays DEF Rest, Answering
  <1>11. CASE UNCHANGED vars
    <2>1. UNCHANGED <<cacheVars, cycleVars, out>> /\ Cycle'
      BY <1>0, <1>11 DEF vars, cacheVars, cycleVars, Cycle
    <2> QED
      BY <1>0, <2>1, ShelfStays, OutcomesStay DEF Answering
  <1> QED
    BY <1>1, <1>2, <1>3, <1>4, <1>5, <1>6, <1>7, <1>8, <1>9, <1>10, <1>11 DEF Next, AnswerStep

\* The invariant holds throughout.
THEOREM AnsweringHolds == KernelsSpec => []Answering
  BY AnsweringInit, AnsweringStep, PTL DEF KernelsSpec

\* An answer is read from rows its own caller sent: those the read brought or
\* those of the context it named (`answer`, `_keep`, `Contexts.get`).
THEOREM AnswersAreTheirOwn == KernelsSpec => []AnswersAreOwn
  <1>1. Answering => AnswersAreOwn
    <2> SUFFICES ASSUME Answering, NEW i \in DOMAIN out, IsAnswered(i)
                 PROVE  IF reads[i].context = None
                        THEN out[i].from = Fitted(i)
                        ELSE /\ out[i].from.by = reads[i].caller
                             /\ reads[i].context = <<out[i].from.rows, out[i].from.members>>
      BY DEF AnswersAreOwn
    <2>1. i \in 1 .. Len(reads)
      BY DEF Answering, Outcomes
    <2> QED
      BY <2>1 DEF Answering, Outcomes, OwnAnswer, IsAnswered
  <1> QED
    BY <1>1, AnsweringHolds, PTL

\* Every variable of a cycle keeps its type, the cache's among them, and
\* there is one outcome per read (`answer`).
THEOREM KernelsAreTyped == KernelsSpec => []KernelsTypeOK
  <1>1. Answering => KernelsTypeOK
    <2> SUFFICES ASSUME Answering PROVE KernelsTypeOK
      OBVIOUS
    <2>1. Cache!CacheTypeOK
      BY SameType DEF Answering, Shelf
    <2>2. \A i \in DOMAIN out : out[i] \in Outcome
      BY DEF Answering, Outcomes
    <2> QED
      BY <2>1, <2>2 DEF Answering, Cycle, Outcomes, Outcome, KernelsTypeOK
  <1> QED
    BY <1>1, AnsweringHolds, PTL

-----------------------------------------------------------------------------
\* `answer` touches the cache only by its own operations, each with what they
\* are meant for: what is proved of Contexts holds of it here.
THEOREM CacheIsUsedAsMeant == KernelsSpec => Cache!CacheSpec
  <1>1. Init => Cache!Init
    BY DEF Init
  <1>2. ASSUME Answering, [Next]_vars PROVE [Cache!Next]_(Cache!vars)
    <2>1. Cycle
      BY <1>2 DEF Answering
    <2>2. CASE Build
      <3>1. PICK n \in Built(reads[at].rows, members) :
              Cache!Put([caller |-> reads[at].caller, id |-> IdOf(at), nbytes |-> n, fitted |-> Fitted(at)])
        BY <2>2 DEF Build
      <3>2. [caller |-> reads[at].caller, id |-> IdOf(at), nbytes |-> n, fitted |-> Fitted(at)] \in Cache!Entry
        BY <2>1, <2>2, BuiltFacts DEF Build, Cache!Entry, Kept!Entry
      <3> QED
        BY <3>1, <3>2 DEF Cache!Next
    <2>3. CASE MakeRoom
      BY <2>3 DEF MakeRoom, Cache!Next, Cache!LoopStep
    <2>4. CASE GetAndAnswer
      <3>1. Cache!Get(reads[at].caller, IdOf(at)) /\ at \in 1 .. Len(reads)
        BY <2>1, <2>4 DEF GetAndAnswer, Cycle
      <3>2. IdOf(at) \in Ids /\ reads[at].caller \in Callers
        BY <2>1, <3>1, IdFacts
      <3> QED
        BY <3>1, <3>2 DEF Cache!Next
    <2>5. CASE UNCHANGED cacheVars
      BY <2>5 DEF cacheVars, Cache!vars
    <2>6. Build \/ MakeRoom \/ GetAndAnswer \/ UNCHANGED cacheVars
      BY <1>2
         DEF Next, AnswerStep, Begin, Batch, PassBy, NameContext, KeepRefuses, KeepFinds, BuildFails, MayBuild,
             Keeping, GetUnknown, NaiveSpeaks, ChronosSpeaks, Return, CycleFails, Rest, vars
    <2> QED
      BY <2>2, <2>3, <2>4, <2>5, <2>6
  <1>3. Answering /\ [Next]_vars => [Cache!Next]_(Cache!vars)
    BY <1>2
  <1> QED
    BY <1>1, <1>3, AnsweringHolds, PTL DEF KernelsSpec, Cache!CacheSpec

LEMMA SameSpec == Cache!CacheSpec <=> Kept!CacheSpec
  <1>1. Cache!Init <=> Kept!Init
    BY DEF Cache!Init, Kept!Init
  <1>2. /\ Cache!Entry = Kept!Entry
        /\ \A c \in Callers : Cache!Drop(c) <=> Kept!Drop(c)
    BY DEF Cache!Entry, Kept!Entry, Cache!Drop, Kept!Drop, Cache!Free, Kept!Free
  <1>3. (Cache!DropOne <=> Kept!DropOne) /\ (Cache!DropDone <=> Kept!DropDone)
    BY DEF Cache!DropOne, Kept!DropOne, Cache!DropDone, Kept!DropDone, Cache!Evicted, Kept!Evicted,
           Cache!Without, Kept!Without, Cache!RemoveAt, Kept!RemoveAt, Cache!HeldBy, Kept!HeldBy,
           Cache!Held, Kept!Held, Cache!OldestOf, Kept!OldestOf, Cache!ToSet, Kept!ToSet
  <1>4. Cache!Next <=> Kept!Next
    BY <1>2, <1>3, SameGet, SamePut, SameLoop DEF Cache!Next, Kept!Next, Cache!LoopStep, Kept!LoopStep
  <1>5. [Cache!Next]_(Cache!vars) <=> [Kept!Next]_(Kept!vars)
    BY <1>4 DEF Cache!vars, Kept!vars
  <1> QED
    BY <1>1, <1>5, PTL DEF Cache!CacheSpec, Kept!CacheSpec

\* So the context being put stays until its put is done.
LEMMA PutStays == KernelsSpec => []Kept!JustPutStays
  <1>1. Kept!CacheSpec => []Kept!JustPutStays
    BY CacheBounds, Kept!WhatIsPutStays
  <1> QED
    BY <1>1, CacheIsUsedAsMeant, SameSpec

-----------------------------------------------------------------------------
(* When a context just sent is unknown. *)

Near(i) == Estimate(reads[i].rows, members) + Slack > Share

\* The entry being put is the turn's own, and is there when its put is done.
Sent ==
    /\ pc = "room" =>
          /\ reads[at].context = None
          /\ putting \in Kept!Entry /\ putting.caller = reads[at].caller /\ putting.id = IdOf(at)
          /\ putting.nbytes <= Estimate(reads[at].rows, members) + Slack
    /\ pc = "get" /\ reads[at].context = None =>
          Cache!has(reads[at].caller, IdOf(at)) \/ Near(at)

\* What is there for one read's settling: the other outcomes stay.
LEMMA OthersStay ==
  ASSUME Cycle, Outcomes, NEW i \in 1 .. Len(reads), NEW o, Settle(i, o)
  PROVE  \A j \in 1 .. Len(reads) : out'[j] = IF j = i THEN o ELSE out[j]
  BY DEF Settle, Outcomes, Cycle

LEMMA EstimateType ==
  ASSUME Cycle, NEW i \in 1 .. Len(reads), reads[i].context = None
  PROVE  Estimate(reads[i].rows, members) \in Nat
  <1>1. reads[i].rows \in Tables
    BY RequestFacts DEF Cycle
  <1>2. TableOf[reads[i].rows].rows \in Nat /\ members \in Nat
    BY <1>1, KernelsAssumption DEF Cycle
  <1>3. \A x, y \in Nat : x * y \in Nat
    OBVIOUS
  <1> QED
    BY <1>2, <1>3 DEF Estimate

LEMMA SentStep == Answering /\ Answering' /\ Kept!JustPutStays /\ Sent /\ [Next]_vars => Sent'
  <1> SUFFICES ASSUME Answering, Answering', Kept!JustPutStays, Sent, [Next]_vars PROVE Sent'
    OBVIOUS
  <1>0. Cycle /\ Shelf
    BY DEF Answering
  <1>1. CASE pc' \notin {"room", "get"}
    BY <1>1 DEF Sent
  <1>2. CASE NameContext
    BY <1>2 DEF NameContext, Turn, Sent, cycleVars
  <1>3. CASE KeepFinds
    BY <1>3
       DEF KeepFinds, Keeping, Turn, IsHeld, Sent, cycleVars, cacheVars, IdOf, Cache!has, Cache!At, contextId
  <1>4. CASE Build
    <2> DEFINE e(n) == [caller |-> reads[at].caller, id |-> IdOf(at), nbytes |-> n, fitted |-> Fitted(at)]
    <2>1. PICK n \in Built(reads[at].rows, members) : Cache!Put(e(n))
      BY <1>4 DEF Build
    <2>2. MayBuild /\ at' = at /\ pc' = "room" /\ UNCHANGED cycleVars
      BY <1>4 DEF Build, MayBuild, Keeping
    <2>3. putting' = e(n)
      BY <2>1 DEF Cache!Put
    <2>4. e(n) \in Kept!Entry
      BY <1>0, <2>2, BuiltFacts
    <2>5. n <= Estimate(reads[at].rows, members) + Slack
      BY DEF Built
    <2>6. reads[at].context = None
      BY <2>2 DEF MayBuild, Keeping
    <2> QED
      BY <2>2, <2>3, <2>4, <2>5, <2>6 DEF Sent, cycleVars, IdOf, contextId, Estimate
  <1>5. CASE MakeRoom
    <2>1. UNCHANGED <<cycleVars, out, at, spent>> /\ pc = "room"
      BY <1>5 DEF MakeRoom
    <2>2. /\ reads[at].context = None
          /\ putting \in Kept!Entry /\ putting.caller = reads[at].caller /\ putting.id = IdOf(at)
          /\ putting.nbytes <= Estimate(reads[at].rows, members) + Slack
      BY <2>1 DEF Sent
    <2>3. CASE pc' = "room" /\ (Cache!EvictOwn \/ Cache!EvictOldest)
      <3>1. putting' = putting
        BY <2>3 DEF Cache!EvictOwn, Cache!EvictOldest
      <3> QED
        BY <2>1, <2>2, <2>3, <3>1 DEF Sent, cycleVars, IdOf, contextId, Estimate
    <2>4. CASE pc' = "get" /\ Cache!PutDone
      <3>1. held' = held /\ putting # None
        BY <2>4 DEF Cache!PutDone
      <3>2. CASE putting.nbytes <= Share
        <4>1. held # <<>> /\ held[Len(held)] = putting /\ held \in Seq(Kept!Entry)
          BY <1>0, <3>1, <3>2 DEF Kept!JustPutStays, Shelf, Kept!Shape, Kept!Dictionary
        <4>2. Len(held) \in Cache!At(reads[at].caller, IdOf(at))
          BY <2>2, <4>1 DEF Cache!At
        <4>3. Cache!has(reads[at].caller, IdOf(at))'
          BY <2>1, <3>1, <4>2 DEF Cache!has, Cache!At, cycleVars, IdOf, contextId
        <4> QED
          BY <2>4, <4>3 DEF Sent
      <3>3. CASE ~(putting.nbytes <= Share)
        <4>1. putting.nbytes \in Nat /\ Estimate(reads[at].rows, members) \in Nat
          BY <1>0, <2>1, <2>2, EstimateType DEF Kept!Entry, Sizes, Cycle
        <4>2. Near(at)
          BY <2>2, <3>3, <4>1, KernelsAssumption DEF Near
        <4>3. Near(at)'
          BY <2>1, <4>2 DEF Near, Estimate, cycleVars
        <4> QED
          BY <2>4, <4>3 DEF Sent
      <3> QED
        BY <3>2, <3>3
    <2> QED
      BY <1>5, <2>1, <2>3, <2>4 DEF MakeRoom
  <1>6. CASE UNCHANGED vars
    BY <1>6 DEF vars, cacheVars, cycleVars, Sent, Near, Estimate, IdOf, contextId, Cache!has, Cache!At
  <1>7. pc' \notin {"room", "get"} \/ NameContext \/ KeepFinds \/ Build \/ MakeRoom \/ UNCHANGED vars
    BY <1>0
       DEF Next, AnswerStep, Begin, Batch, PassBy, KeepRefuses, BuildFails, MayBuild, Keeping, Turn,
           GetUnknown, GetAndAnswer, NaiveSpeaks, ChronosSpeaks, Return, CycleFails, Rest
  <1> QED
    BY <1>1, <1>2, <1>3, <1>4, <1>5, <1>6, <1>7

\* Only the turn's `get` says that a context is unknown.
UnknownNear ==
    \A i \in 1 .. Len(reads) :
        out[i].is = "context unknown" /\ reads[i].context = None => Near(i)

LEMMA IsOf ==
    /\ Open.is # "context unknown" /\ KernelError.is # "context unknown"
    /\ \A e, c : Answered(e, c).is = "answered" /\ Answered(e, c).is # "context unknown"
  <1>1. \A e, c : Answered(e, c).is = "answered"
    BY DEF Answered
  <1> QED
    BY <1>1, OutcomesAre

LEMMA UnknownStep == Answering /\ Sent /\ UnknownNear /\ [Next]_vars => UnknownNear'
  <1> SUFFICES ASSUME Answering, Sent, UnknownNear, [Next]_vars PROVE UnknownNear'
    OBVIOUS
  <1>0. Cycle /\ Outcomes /\ DOMAIN reads = 1 .. Len(reads)
    BY DEF Answering, Cycle
  <1>1. CASE GetUnknown
    <2>1. /\ pc = "get" /\ ~Cache!has(reads[at].caller, IdOf(at)) /\ Settle(at, ContextUnknown)
          /\ UNCHANGED cycleVars /\ at \in 1 .. Len(reads)
      BY <1>0, <1>1 DEF GetUnknown, Cycle
    <2>2. \A j \in 1 .. Len(reads) : out'[j] = IF j = at THEN ContextUnknown ELSE out[j]
      BY <1>0, <2>1, OthersStay
    <2>3. reads[at].context = None => Near(at)
      BY <2>1 DEF Sent
    <2> QED
      BY <2>1, <2>2, <2>3 DEF UnknownNear, Near, Estimate, cycleVars
  <1>2. CASE KeepRefuses \/ BuildFails \/ GetAndAnswer
    <2>1. at \in 1 .. Len(reads) /\ UNCHANGED cycleVars
      BY <1>0, <1>2 DEF KeepRefuses, BuildFails, MayBuild, Keeping, Turn, GetAndAnswer, Cycle
    <2>2. PICK o : Settle(at, o) /\ (o = KernelError \/ \E e, c : o = Answered(e, c))
      BY <1>2 DEF KeepRefuses, BuildFails, GetAndAnswer
    <2>3. o.is # "context unknown"
      BY <2>2, IsOf
    <2>4. \A j \in 1 .. Len(reads) : out'[j] = IF j = at THEN o ELSE out[j]
      BY <1>0, <2>1, <2>2, OthersStay
    <2> QED
      BY <2>1, <2>3, <2>4 DEF UnknownNear, Near, Estimate, cycleVars
  <1>3. CASE Begin
    <2>1. PICK n \in 1 .. MaxReads : reads' \in [1 .. n -> Requests]
      BY <1>3 DEF Begin
    <2>2. n \in Nat /\ Len(reads') = n
      BY <2>1, KernelsAssumption
    <2>3. \A i \in 1 .. n : out'[i] = Open
      BY <1>3, <2>1 DEF Begin
    <2> QED
      BY <2>2, <2>3, OutcomesAre DEF UnknownNear
  <1>4. CASE Batch
    <2>1. UNCHANGED cycleVars
      BY <1>4 DEF Batch
    <2>2. \A i \in 1 .. Len(reads) :
            out'[i] = Open \/ out'[i] = KernelError \/ out'[i] = Answered(Fitted(i), None)
      BY <1>0, <1>4 DEF Batch
    <2>3. \A i \in 1 .. Len(reads) : out'[i].is # "context unknown"
      BY <2>2, IsOf
    <2> QED
      BY <2>1, <2>3 DEF UnknownNear, cycleVars
  <1>5. CASE NaiveSpeaks \/ ChronosSpeaks
    <2>1. UNCHANGED cycleVars
      BY <1>5 DEF NaiveSpeaks, ChronosSpeaks
    <2>2. \A i \in 1 .. Len(reads) :
            out'[i] = out[i] \/ out'[i] = KernelError
              \/ \E v \in {"seasonal_naive", "chronos2"} : i \in Asking(v) /\ out'[i] = Speak(i, v)
      <3>1. CASE NaiveSpeaks
        BY <1>0, <3>1 DEF NaiveSpeaks
      <3>2. CASE ChronosSpeaks
        <4>1. PICK mute : out' = [i \in DOMAIN reads |->
                                    IF i \notin Asking("chronos2") THEN out[i]
                                    ELSE IF i \in mute THEN KernelError ELSE Speak(i, "chronos2")]
          BY <3>2 DEF ChronosSpeaks
        <4> QED
          BY <1>0, <4>1
      <3> QED
        BY <1>5, <3>1, <3>2
    <2>3. ASSUME NEW i \in 1 .. Len(reads), out'[i].is = "context unknown" PROVE out'[i] = out[i]
      <3>1. out[i] \in Outcome
        BY <1>0 DEF Outcomes
      <3>2. \A v : i \in Asking(v) => Speak(i, v).is = "answered"
        BY <3>1 DEF Speak, Outcome, Asking, IsAnswered
      <3>3. out'[i] # KernelError
        BY <2>3, OutcomesAre
      <3> QED
        BY <2>2, <2>3, <3>2, <3>3
    <2> QED
      BY <2>1, <2>3 DEF UnknownNear, Near, Estimate, cycleVars
  <1>6. CASE Return \/ CycleFails
    <2>0. Rest
      BY <1>6 DEF Return, CycleFails
    <2>1. 1 .. Len(reads') = {}
      BY <2>0 DEF Rest
    <2> QED
      BY <2>1, Zenon DEF UnknownNear
  <1>7. CASE UNCHANGED <<cycleVars, out>>
    BY <1>7 DEF UnknownNear, Near, Estimate, cycleVars
  <1> QED
    BY <1>1, <1>2, <1>3, <1>4, <1>5, <1>6, <1>7
       DEF Next, AnswerStep, PassBy, NameContext, KeepFinds, Keeping, Build, MayBuild, MakeRoom, vars

\* A read that sends its rows is told its context is unknown only where its
\* estimate was within the slack of a share (`_keep`, `Contexts.put`).
THEOREM UnknownIsNearTheShare == KernelsSpec => []UnknownOnlyNearTheShare
  <1>1. Init => Sent /\ UnknownNear
    BY DEF Init, Sent, UnknownNear
  <1>2. Answering /\ UnknownNear => UnknownOnlyNearTheShare
    <2> SUFFICES ASSUME Answering, UnknownNear
                 PROVE  \A i \in DOMAIN out :
                            out[i].is = "context unknown" /\ reads[i].rows # None => Near(i)
      BY DEF UnknownOnlyNearTheShare, Near
    <2>1. DOMAIN out = 1 .. Len(reads) /\ \A i \in 1 .. Len(reads) : reads[i] \in Requests
      BY DEF Answering, Outcomes, Cycle
    <2>2. \A r \in Requests : r.rows # None => r.context = None
      BY KernelsAssumption
    <2> QED
      BY <2>1, <2>2, Zenon DEF UnknownNear
  <1> QED
    BY <1>1, <1>2, AnsweringHolds, PutStays, SentStep, UnknownStep, PTL DEF KernelsSpec

-----------------------------------------------------------------------------
(* That a cycle settles every read, and in full. *)

\* What the voices have had of a read by now.
Heard(i) == IF pc = "done" THEN reads[i].voices
            ELSE IF pc = "chronos" THEN reads[i].voices \cap {"seasonal_naive"} ELSE {}

ContextOf(i) == IF Plain(i) THEN None ELSE IdOf(i)

\* An outcome by the stage of its cycle: the batch leaves no plain read open,
\* the turns none that they passed.
Told(i) ==
    /\ out[i].is = "answered" => out[i].voices = Heard(i) /\ out[i].context = ContextOf(i)
    /\ out[i].is = "open" =>
          /\ pc \notin {"chronos", "done"}
          /\ pc # "batch" => ~Plain(i) /\ at <= i

Settling ==
    /\ \A i \in 1 .. Len(reads) : Told(i)
    /\ pc = "batch" => at = 1
    /\ pc \in {"room", "get"} => out[at].is = "open"

\* The outcomes as they are made.
LEMMA OutcomesMade ==
    Open.is = "open" /\ KernelError.is = "kernel error" /\ ContextUnknown.is = "context unknown"
  BY DEF Open, KernelError, ContextUnknown

LEMMA RefusedTold == ASSUME NEW i, out'[i] = KernelError PROVE Told(i)'
  BY OutcomesMade DEF Told

LEMMA AnsweredTold ==
  ASSUME NEW i, out'[i].is = "answered", out'[i].voices = Heard(i)', out'[i].context = ContextOf(i)'
  PROVE  Told(i)'
  BY DEF Told

LEMMA OpenTold ==
  ASSUME NEW i, out'[i].is = "open", pc' \notin {"chronos", "done"}, ~Plain(i)', at' <= i
  PROVE  Told(i)'
  BY DEF Told

\* A turn that ends with its read's outcome.
LEMMA TurnEnds ==
  ASSUME Cycle, Outcomes, Settling, pc \in {"kept", "get"}, at <= Len(reads), NEW o, Settle(at, o),
         o.is = "answered" => o.voices = {} /\ o.context = ContextOf(at), o.is # "open",
         at' = at + 1, pc' = "kept", UNCHANGED cycleVars
  PROVE  Settling'
  <1>1. at \in 1 .. Len(reads) /\ Len(reads) \in Nat
    BY DEF Cycle
  <1>2. \A j \in 1 .. Len(reads) : out'[j] = IF j = at THEN o ELSE out[j]
    BY <1>1, OthersStay
  <1>3. ASSUME NEW j \in 1 .. Len(reads) PROVE Told(j)'
    <2>1. Heard(j)' = {} /\ Heard(j) = {} /\ ContextOf(j)' = ContextOf(j) /\ (Plain(j) <=> Plain(j)')
      BY DEF Heard, ContextOf, Plain, IdOf, contextId, cycleVars
    <2>2. CASE j = at
      BY <1>2, <2>1, <2>2 DEF Told
    <2>3. CASE j # at
      <3>1. out'[j] = out[j] /\ Told(j)
        BY <1>2, <2>3 DEF Settling
      <3>2. at <= j => at + 1 <= j
        BY <1>1, <2>3
      <3> QED
        BY <2>1, <3>1, <3>2 DEF Told
    <2> QED
      BY <2>2, <2>3
  <1> QED
    BY <1>3 DEF Settling, cycleVars

\* A turn that goes on: the outcomes stay, and so does the place.
LEMMA TurnGoesOn ==
  ASSUME Settling, pc \in {"kept", "room", "get"}, pc' \in {"room", "get"},
         out[at].is = "open", UNCHANGED <<cycleVars, out, at>>
  PROVE  Settling'
  BY DEF Settling, Told, Heard, ContextOf, Plain, IdOf, contextId, cycleVars

LEMMA SettlingStep == Answering /\ Settling /\ [Next]_vars => Settling'
  <1> SUFFICES ASSUME Answering, Settling, [Next]_vars PROVE Settling'
    OBVIOUS
  <1>0. Cycle /\ Outcomes /\ Len(reads) \in Nat /\ DOMAIN reads = 1 .. Len(reads)
    BY DEF Answering, Cycle
  <1>1. CASE Begin
    <2>1. PICK n \in 1 .. MaxReads : reads' \in [1 .. n -> Requests]
      BY <1>1 DEF Begin
    <2>2. n \in Nat /\ Len(reads') = n
      BY <2>1, KernelsAssumption
    <2>3. pc' = "batch" /\ at' = 1 /\ \A i \in 1 .. n : out'[i] = Open
      BY <1>1, <2>1 DEF Begin
    <2>4. \A i \in 1 .. n : Told(i)'
      BY <2>3, OutcomesMade DEF Told
    <2> QED
      BY <2>2, <2>3, <2>4 DEF Settling
  <1>2. CASE Batch
    <2>1. pc' = "kept" /\ UNCHANGED <<cycleVars, at>> /\ at = 1
      BY <1>2 DEF Batch, Settling
    <2>2. ASSUME NEW i \in 1 .. Len(reads) PROVE Told(i)'
      <3>1. Heard(i)' = {} /\ ContextOf(i)' = ContextOf(i) /\ (Plain(i) <=> Plain(i)')
        BY <2>1 DEF Heard, ContextOf, Plain, IdOf, contextId, cycleVars
      <3>2. CASE Plain(i)
        <4>1. out'[i] = KernelError \/ out'[i] = Answered(Fitted(i), None)
          BY <1>0, <1>2, <3>2 DEF Batch
        <4>2. ContextOf(i)' = None
          BY <3>1, <3>2 DEF ContextOf
        <4>3. CASE out'[i] = Answered(Fitted(i), None)
          <5>1. out'[i].is = "answered" /\ out'[i].voices = {} /\ out'[i].context = None
            BY <4>3 DEF Answered
          <5> QED
            BY <3>1, <4>2, <5>1, AnsweredTold
        <4> QED
          BY <4>1, <4>3, RefusedTold
      <3>3. CASE ~Plain(i)
        <4>1. out'[i] = Open
          BY <1>0, <1>2, <3>3 DEF Batch
        <4>2. at' <= i /\ pc' \notin {"chronos", "done"}
          BY <2>1
        <4>3. ~Plain(i)'
          BY <3>1, <3>3
        <4> QED
          BY <4>1, <4>2, <4>3, OutcomesMade, OpenTold
      <3> QED
        BY <3>2, <3>3
    <2> QED
      BY <2>1, <2>2 DEF Settling, cycleVars
  <1>3. CASE PassBy
    <2>1. /\ pc = "kept" /\ pc' = pc /\ at' = at + 1 /\ at <= Len(reads) /\ out[at].is # "open"
          /\ UNCHANGED <<cycleVars, out>> /\ at \in 1 .. Len(reads)
      BY <1>0, <1>3 DEF PassBy, Cycle
    <2>2. ASSUME NEW i \in 1 .. Len(reads) PROVE Told(i)'
      <3>1. Heard(i)' = Heard(i) /\ ContextOf(i)' = ContextOf(i) /\ (Plain(i) <=> Plain(i)')
        BY <2>1 DEF Heard, ContextOf, Plain, IdOf, contextId, cycleVars
      <3>2. out[i].is = "open" /\ at <= i => at + 1 <= i
        BY <1>0, <2>1
      <3> QED
        BY <2>1, <3>1, <3>2 DEF Settling, Told
    <2> QED
      BY <2>1, <2>2 DEF Settling, cycleVars
  <1>4. CASE KeepRefuses \/ BuildFails
    <2>1. /\ pc = "kept" /\ pc' = "kept" /\ at <= Len(reads) /\ Settle(at, KernelError)
          /\ at' = at + 1 /\ UNCHANGED cycleVars
      BY <1>4 DEF KeepRefuses, BuildFails, MayBuild, Keeping, Turn
    <2> QED
      BY <1>0, <2>1, OutcomesMade, TurnEnds
  <1>5. CASE GetUnknown
    <2>1. /\ pc = "get" /\ pc' = "kept" /\ at <= Len(reads) /\ Settle(at, ContextUnknown)
          /\ at' = at + 1 /\ UNCHANGED cycleVars
      BY <1>0, <1>5 DEF GetUnknown, Cycle
    <2> QED
      BY <1>0, <2>1, OutcomesMade, TurnEnds
  <1>6. CASE GetAndAnswer
    <2>1. /\ pc = "get" /\ pc' = "kept" /\ at <= Len(reads) /\ at' = at + 1 /\ UNCHANGED cycleVars
          /\ at \in 1 .. Len(reads)
      BY <1>0, <1>6 DEF GetAndAnswer, Cycle
    <2>2. PICK o : Settle(at, o) /\ (o = KernelError \/ \E e : o = Answered(e, IdOf(at)))
      BY <1>6 DEF GetAndAnswer
    <2>0. ~Plain(at)
      BY <2>1 DEF Settling, Told
    <2>3. ContextOf(at) = IdOf(at)
      BY <2>0 DEF ContextOf
    <2>4. (o.is = "answered" => o.voices = {} /\ o.context = ContextOf(at)) /\ o.is # "open"
      <3>1. CASE o = KernelError
        BY <3>1, OutcomesMade
      <3>2. CASE \E e : o = Answered(e, IdOf(at))
        <4>1. o.is = "answered" /\ o.voices = {} /\ o.context = IdOf(at)
          BY <3>2 DEF Answered
        <4> QED
          BY <2>3, <4>1
      <3> QED
        BY <2>2, <3>1, <3>2
    <2> QED
      BY <1>0, <2>1, <2>2, <2>4, TurnEnds
  <1>7. CASE NameContext \/ KeepFinds \/ Build
    <2>1. /\ pc = "kept" /\ pc' \in {"room", "get"} /\ out[at].is = "open"
          /\ UNCHANGED <<cycleVars, out, at>>
      BY <1>7 DEF NameContext, KeepFinds, Build, MayBuild, Keeping, Turn
    <2> QED
      BY <2>1, TurnGoesOn
  <1>8. CASE MakeRoom
    <2>1. pc = "room" /\ pc' \in {"room", "get"} /\ out[at].is = "open" /\ UNCHANGED <<cycleVars, out, at>>
      BY <1>8 DEF MakeRoom, Settling
    <2> QED
      BY <2>1, TurnGoesOn
  <1>9. CASE NaiveSpeaks
    <2>1. pc = "kept" /\ pc' = "chronos" /\ at > Len(reads) /\ UNCHANGED <<cycleVars, at>>
      BY <1>9 DEF NaiveSpeaks
    <2>2. ASSUME NEW i \in 1 .. Len(reads) PROVE Told(i)'
      <3>1. out[i] \in Outcome /\ Told(i) /\ ContextOf(i)' = ContextOf(i)
        BY <2>1 DEF Answering, Outcomes, Settling, ContextOf, Plain, IdOf, contextId, cycleVars
      <3>2. Heard(i) = {} /\ Heard(i)' = reads[i].voices \cap {"seasonal_naive"}
        BY <2>1 DEF Heard, cycleVars
      <3>3. out[i].is # "open"
        <4>1. ~(at <= i)
          BY <1>0, <2>1 DEF Cycle
        <4> QED
          BY <2>1, <3>1, <4>1 DEF Told
      <3>4. CASE i \notin Asking("seasonal_naive")
        <4>1. out'[i] = out[i]
          BY <1>0, <1>9, <3>4 DEF NaiveSpeaks
        <4>2. out[i].is = "answered" => "seasonal_naive" \notin reads[i].voices
          BY <1>0, <3>4 DEF Asking, IsAnswered
        <4> QED
          BY <3>1, <3>2, <3>3, <4>1, <4>2 DEF Told
      <3>5. CASE i \in Asking("seasonal_naive")
        <4>1. out'[i] = Speak(i, "seasonal_naive") \/ out'[i] = KernelError
          BY <1>0, <1>9, <3>5 DEF NaiveSpeaks
        <4>2. out[i].is = "answered" /\ "seasonal_naive" \in reads[i].voices
          BY <3>5 DEF Asking, IsAnswered
        <4>3. /\ Speak(i, "seasonal_naive").voices = out[i].voices \union {"seasonal_naive"}
              /\ Speak(i, "seasonal_naive").context = out[i].context
              /\ Speak(i, "seasonal_naive").is = out[i].is
          BY <3>1 DEF Speak, Outcome
        <4>4. out[i].voices = {} /\ out[i].context = ContextOf(i)
          BY <3>1, <3>2, <4>2 DEF Told
        <4>5. Heard(i)' = out[i].voices \union {"seasonal_naive"}
          BY <3>2, <4>2, <4>4
        <4>6. CASE out'[i] = Speak(i, "seasonal_naive")
          BY <3>1, <4>2, <4>3, <4>4, <4>5, <4>6, AnsweredTold
        <4> QED
          BY <4>1, <4>6, RefusedTold
      <3> QED
        BY <3>4, <3>5
    <2> QED
      BY <2>1, <2>2 DEF Settling, cycleVars
  <1>10. CASE ChronosSpeaks
    <2>1. pc = "chronos" /\ pc' = "done" /\ UNCHANGED <<cycleVars, at>>
      BY <1>10 DEF ChronosSpeaks
    <2>2. PICK mute : out' = [i \in DOMAIN reads |->
                                IF i \notin Asking("chronos2") THEN out[i]
                                ELSE IF i \in mute THEN KernelError ELSE Speak(i, "chronos2")]
      BY <1>10 DEF ChronosSpeaks
    <2>3. ASSUME NEW i \in 1 .. Len(reads) PROVE Told(i)'
      <3>1. out[i] \in Outcome /\ Told(i) /\ ContextOf(i)' = ContextOf(i)
        BY <2>1 DEF Answering, Outcomes, Settling, ContextOf, Plain, IdOf, contextId, cycleVars
      <3>2. Heard(i) = reads[i].voices \cap {"seasonal_naive"} /\ Heard(i)' = reads[i].voices
        BY <2>1 DEF Heard, cycleVars
      <3>3. out[i].is # "open"
        BY <2>1, <3>1 DEF Told
      <3>4. reads[i].voices \subseteq {"seasonal_naive", "chronos2"}
        BY <1>0, KernelsAssumption DEF Cycle
      <3>5. CASE i \notin Asking("chronos2")
        <4>1. out'[i] = out[i]
          BY <1>0, <2>2, <3>5
        <4>2. out[i].is = "answered" => "chronos2" \notin reads[i].voices
          BY <1>0, <3>5 DEF Asking, IsAnswered
        <4>3. out[i].is = "answered" => Heard(i) = reads[i].voices
          BY <3>2, <3>4, <4>2
        <4> QED
          BY <3>1, <3>2, <3>3, <4>1, <4>3 DEF Told
      <3>6. CASE i \in Asking("chronos2")
        <4>1. out'[i] = Speak(i, "chronos2") \/ out'[i] = KernelError
          BY <1>0, <2>2, <3>6
        <4>2. out[i].is = "answered" /\ "chronos2" \in reads[i].voices
          BY <3>6 DEF Asking, IsAnswered
        <4>3. /\ Speak(i, "chronos2").voices = out[i].voices \union {"chronos2"}
              /\ Speak(i, "chronos2").context = out[i].context
              /\ Speak(i, "chronos2").is = out[i].is
          BY <3>1 DEF Speak, Outcome
        <4>4. out[i].voices = Heard(i) /\ out[i].context = ContextOf(i)
          BY <3>1, <4>2 DEF Told
        <4>5. Heard(i)' = Heard(i) \union {"chronos2"}
          BY <3>2, <3>4, <4>2
        <4>6. CASE out'[i] = Speak(i, "chronos2")
          BY <3>1, <4>2, <4>3, <4>4, <4>5, <4>6, AnsweredTold
        <4> QED
          BY <4>1, <4>6, RefusedTold
      <3> QED
        BY <3>5, <3>6
    <2> QED
      BY <2>1, <2>3 DEF Settling, cycleVars
  <1>11. CASE Return \/ CycleFails
    <2>1. Rest
      BY <1>11 DEF Return, CycleFails
    <2>2. pc' = "idle" /\ 1 .. Len(reads') = {}
      BY <2>1 DEF Rest
    <2> QED
      BY <2>2, Zenon DEF Settling
  <1>12. CASE UNCHANGED vars
    BY <1>12 DEF vars, cycleVars, Settling, Told, Heard, ContextOf, Plain, IdOf, contextId
  <1> QED
    BY <1>1, <1>2, <1>3, <1>4, <1>5, <1>6, <1>7, <1>8, <1>9, <1>10, <1>11, <1>12 DEF Next, AnswerStep

\* A cycle leaves no read open and answers none in part: who is answered has
\* every voice it asked and its context's id (`answer`, `_series_voices`).
THEOREM EveryReadIsSettled == KernelsSpec => []EveryReadSettled
  <1>1. Init => Settling
    <2> SUFFICES ASSUME Init PROVE Settling
      OBVIOUS
    <2>1. pc = "idle" /\ 1 .. Len(reads) = {}
      BY DEF Init
    <2> QED
      BY <2>1, Zenon DEF Settling
  <1>2. Answering /\ Settling => EveryReadSettled
    <2> SUFFICES ASSUME Answering, Settling, pc = "done", NEW i \in DOMAIN out
                 PROVE  /\ out[i].is # "open"
                        /\ IsAnswered(i) => /\ out[i].voices = reads[i].voices
                                            /\ out[i].context = IF Plain(i) THEN None ELSE IdOf(i)
      BY DEF EveryReadSettled
    <2>1. i \in 1 .. Len(reads)
      BY DEF Answering, Outcomes
    <2>2. Told(i)
      BY <2>1 DEF Settling
    <2> QED
      BY <2>2 DEF Told, Heard, ContextOf, IsAnswered
  <1> QED
    BY <1>1, <1>2, AnsweringHolds, SettlingStep, PTL DEF KernelsSpec

=============================================================================
