---------------------------- MODULE BatchProofs ----------------------------
(***************************************************************************)
(* Theorems about a call of `bands_many`, for every list of reads, every   *)
(* size of the ensemble, every way of chunking and passing, and every      *)
(* failing pass on the way.                                                *)
(*                                                                         *)
(* The inductive invariants, each resting on the ones before it:           *)
(*   Typed     the types of the call and what is empty outside of it;      *)
(*   Judged    what the reads not refused have passed;                     *)
(*   Tabled    the tables, and the answers a table may have;               *)
(*   Passing   what the passes of a group have answered so far;            *)
(*   Grouped   whose tables of the groups left behind have their answers;  *)
(*   Refusing  what is refused is what those tables say.                   *)
(***************************************************************************)
EXTENDS Batch, DataFacts

Typed ==
    /\ pool \in {"none", "up", "broken"}
    /\ pc \in {"idle", "check", "prepare", "map", "pass", "done", "raised"}
    /\ reads \in Seq(Kinds) /\ Len(reads) <= MaxReads
    /\ members \in Ensembles /\ refusals \in BOOLEAN
    /\ refused \subseteq Indices /\ chunks \subseteq Nat
    /\ pc = "idle" => reads = <<>>
    /\ pc \in {"idle", "check", "prepare", "map"} => tables = <<>> /\ todo = {} /\ answered = <<>>

Judged ==
    /\ pc \in {"prepare", "map"} => refused = {i \in Indices : ~Passes(i)}
    /\ pc = "pass" => \A i \in Indices \ refused : Passes(i) /\ reads[i].prepares

\* The levels a view's read asks, the right answer for the view, and for the
\* views of a table.
Asked(w) == reads[w.read].levels

AnswerTo(w) == [view |-> w, at |-> Asked(w)]

AnswersOf(t) == [v \in DOMAIN tables[t].views |-> AnswerTo(tables[t].views[v])]

Tabled ==
    /\ tables \in {<<>>, Made}
    /\ pc = "pass" => tables = Made
    /\ todo \subseteq {tables[t].shape : t \in DOMAIN tables}
    /\ DOMAIN answered = DOMAIN tables
    /\ \A t \in DOMAIN tables : answered[t] \in {None, AnswersOf(t)}

Passing ==
    /\ lo \in Nat
    /\ pc # "pass" \/ todo = {} => lo = 0 /\ rows = <<>>
    /\ pc = "pass" /\ todo # {} =>
          LET stack == Stacked(GroupKey)
          IN  /\ DOMAIN rows = {r \in 1 .. lo : r <= Len(stack)}
              /\ \A r \in DOMAIN rows : rows[r] = AnswerTo(stack[r])

Grouped ==
    pc = "pass" =>
        \A t \in DOMAIN tables :
            tables[t].shape \notin todo /\ tables[t].read \notin refused => answered[t] = AnswersOf(t)

\* The shapes left behind without answers: a pass of theirs has failed.
Failed == {tables[t].shape : t \in {t \in DOMAIN tables : tables[t].shape \notin todo /\ answered[t] = None}}

Refusing ==
    pc \in {"pass", "done"} =>
        /\ tables = Made
        /\ pc = "done" => todo = {}
        /\ \A t \in DOMAIN tables : tables[t].shape \in todo \union Failed => answered[t] = None
        /\ refused = {i \in Indices : ~(Passes(i) /\ reads[i].prepares) \/ reads[i].shape \in Failed}

-----------------------------------------------------------------------------
(* The sound reads, as they are handed to the package and come back. *)

LEMMA ArgsFacts ==
    ASSUME Typed
    PROVE  /\ Len(reads) \in Nat /\ Indices = 1 .. Len(reads) /\ members \in Nat \ {0}
           /\ \A i \in Indices : reads[i] \in Kinds /\ reads[i].shape \in Shapes /\ reads[i].levels \in STRING
<1>. USE BatchAssumption
<1>1. reads \in Seq(Kinds) /\ members \in Nat \ {0}
  BY DEF Typed
<1>2. Len(reads) \in Nat /\ Indices = 1 .. Len(reads) /\ \A i \in Indices : reads[i] \in Kinds
  BY <1>1 DEF Indices
<1>3. \A x \in Kinds : x.shape \in Shapes /\ x.levels \in STRING
  OBVIOUS
<1>. QED  BY <1>1, <1>2, <1>3

\* The sound reads are those that pass, each once.
LEMMA SoundFacts ==
    ASSUME Typed
    PROVE  /\ sound \in Seq(Indices) /\ Len(sound) \in Nat /\ IsInjective(sound)
           /\ ToSet(sound) = {i \in Indices : Passes(i)}
<1>. DEFINE parts == [i \in Indices |-> IF Passes(i) THEN <<i>> ELSE <<>>]
            n == Len(reads)
<1>1. n \in Nat /\ Indices = 1 .. n
  BY ArgsFacts
<1>2. parts \in PartsOf(Indices) /\ Len(parts) = n
  <2>1. \A i \in Indices : <<i>> \in Seq(Indices) /\ <<>> \in Seq(Indices)
    OBVIOUS
  <2>2. \A i \in 1 .. n : parts[i] \in Seq(Indices)
    BY <1>1, <2>1
  <2>. QED  BY <1>1, <2>2 DEF PartsOf
<1>3. \A i \in Indices : /\ Passes(i) => Len(parts[i]) = 1 /\ parts[i][1] = i
                         /\ ~Passes(i) => Len(parts[i]) = 0
  OBVIOUS
<1>4. sound = FlattenSeq(parts)
  BY DEF sound
<1>. HIDE DEF parts, n
<1>5. sound \in Seq(Indices)
  BY <1>2, <1>4, FlattenFacts
<1>6. PICK ends : EndsOf(parts, ends) /\ MadeOf(sound, parts, ends)
  BY <1>2, <1>4, FlattenFacts
<1>7. ASSUME NEW p \in 1 .. Len(sound)
      PROVE  \E i \in Indices : Passes(i) /\ sound[p] = i /\ p = ends[i]
  <2>1. Len(sound) = ends[Len(parts)]
    BY <1>6 DEF MadeOf
  <2>2. \A q \in 1 .. ends[Len(parts)] :
           \E k \in 1 .. Len(parts) : \E v \in 1 .. Len(parts[k]) : q = ends[k - 1] + v
    BY <1>2, <1>6, PlaceOf
  <2>3. p \in 1 .. ends[Len(parts)]
    BY <2>1
  <2>4. PICK i \in 1 .. Len(parts) : \E v \in 1 .. Len(parts[i]) : p = ends[i - 1] + v
    BY <2>2, <2>3
  <2>5. PICK v \in 1 .. Len(parts[i]) : p = ends[i - 1] + v
    BY <2>4
  <2>6. i \in Indices
    BY <1>1, <1>2, <2>4
  <2>7. Passes(i) /\ v = 1 /\ Len(parts[i]) = 1
    <3>1. CASE Passes(i)
      <4>1. Len(parts[i]) = 1
        BY <1>3, <2>6, <3>1
      <4>. QED  BY <3>1, <4>1
    <3>2. CASE ~Passes(i)
      <4>1. Len(parts[i]) = 0
        BY <1>3, <2>6, <3>2
      <4>. QED  BY <4>1
    <3>. QED  BY <3>1, <3>2
  <2>8. sound[ends[i - 1] + 1] = parts[i][1] /\ ends[i] = ends[i - 1] + 1
    BY <1>6, <2>4, <2>7 DEF MadeOf, EndsOf
  <2>. QED  BY <1>3, <2>5, <2>6, <2>7, <2>8
<1>8. ASSUME NEW i \in Indices, Passes(i)
      PROVE  ends[i] \in 1 .. Len(sound) /\ sound[ends[i]] = i
  <2>1. i \in 1 .. Len(parts) /\ Len(parts[i]) = 1 /\ parts[i][1] = i
    BY <1>1, <1>2, <1>3, <1>8
  <2>2. sound[ends[i - 1] + 1] = parts[i][1] /\ ends[i] = ends[i - 1] + 1 /\ Len(sound) = ends[Len(parts)]
    <3>1. 1 \in 1 .. Len(parts[i])
      BY <2>1
    <3>2. sound[ends[i - 1] + 1] = parts[i][1] /\ Len(sound) = ends[Len(parts)]
      BY <1>6, <2>1, <3>1 DEF MadeOf
    <3>3. ends[i] = ends[i - 1] + 1
      BY <1>6, <2>1 DEF EndsOf
    <3>. QED  BY <3>2, <3>3
  <2>3. /\ i \in 0 .. Len(parts) /\ i - 1 \in 0 .. Len(parts)
        /\ i \in 0 .. Len(parts) /\ Len(parts) \in 0 .. Len(parts)
    BY <1>1, <1>2, <2>1
  <2>4. ends[i - 1] \in Nat /\ ends[i] \in Nat /\ ends[Len(parts)] \in Nat
    BY <1>6, <2>3 DEF EndsOf
  <2>5. ends[i] <= ends[Len(parts)]
    BY <1>2, <1>6, <2>3, EndsRise
  <2>. QED  BY <2>1, <2>2, <2>4, <2>5
<1>9. IsInjective(sound)
  <2>1. DOMAIN sound = 1 .. Len(sound)
    BY <1>5
  <2>. QED  BY <1>7, <2>1 DEF IsInjective
<1>10. ToSet(sound) = {i \in Indices : Passes(i)}
  <2>1. DOMAIN sound = 1 .. Len(sound)
    BY <1>5
  <2>. QED  BY <1>7, <1>8, <2>1 DEF ToSet
<1>11. Len(sound) \in Nat
  BY <1>5
<1>. QED  BY <1>5, <1>9, <1>10, <1>11

\* Cut into chunks and put together again, the reads are in their order.
LEMMA ChunksCover ==
    ASSUME NEW n \in Nat, NEW size \in Nat \ {0}, NEW count \in Nat, count = (n + size - 1) \div size
    PROVE  /\ \A c \in 0 .. count - 1 : c * size < n
           /\ count * size >= n
           /\ \A c \in 1 .. count : (c - 1) * size = c * size - size
<1>1. n + size - 1 \in Nat
  OBVIOUS
<1>2. count * size <= n + size - 1 /\ n + size - 1 < count * size + size
  BY <1>1
<1>3. \A c \in 1 .. count : (c - 1) * size = c * size - size
  OBVIOUS
<1>4. ASSUME NEW c \in 0 .. count - 1 PROVE c * size < n
  <2>1. c * size <= (count - 1) * size
    BY <1>4
  <2>2. (count - 1) * size = count * size - size
    OBVIOUS
  <2>3. c * size \in Int /\ count * size \in Int /\ (count - 1) * size \in Int
    BY <1>4
  <2>. QED  BY <1>2, <2>1, <2>2, <2>3
<1>5. count * size >= n
  <2>1. count * size \in Int
    OBVIOUS
  <2>. QED  BY <1>2, <2>1
<1>. QED  BY <1>3, <1>4, <1>5

LEMMA PreparedIsSound == ASSUME Typed PROVE Prepared = sound
<1>. USE BatchAssumption
<1>. SUFFICES ASSUME Pooled PROVE Prepared = sound
  BY DEF Prepared
<1>. DEFINE n == Len(sound)
            size == ChunkSize
            count == ChunkCount
            parts == [c \in 1 .. count |-> Chunk(c)]
            End(c) == IF c * size < n THEN c * size ELSE n
            ends == [c \in 0 .. count |-> End(c)]
<1>1. sound \in Seq(Indices) /\ n \in Nat
  BY SoundFacts
<1>2. size \in Nat \ {0}
  <2>1. Workers * ChunksPerWorker \in Nat \ {0}
    BY DEF Pooled
  <2>. QED  BY <1>1, <2>1 DEF ChunkSize
<1>3. count = (n + size - 1) \div size
  BY DEF ChunkCount
<1>4. \A c \in 1 .. count : Chunk(c) = SubSeq(sound, (c - 1) * size + 1, End(c))
  BY DEF Chunk
<1>5. Prepared = FlattenSeq(parts)
  BY DEF Prepared
<1>. HIDE DEF size, count
<1>6. count \in Nat
  BY <1>1, <1>2, <1>3
<1>7. /\ \A c \in 0 .. count - 1 : c * size < n
      /\ count * size >= n
      /\ \A c \in 1 .. count : (c - 1) * size = c * size - size
  BY <1>1, <1>2, <1>3, <1>6, ChunksCover
<1>8. ASSUME NEW c \in 1 .. count
      PROVE  /\ (c - 1) * size \in Nat /\ End(c) \in Nat /\ End(c - 1) = (c - 1) * size
             /\ (c - 1) * size < End(c) /\ End(c) <= n
  <2>1. c - 1 \in 0 .. count - 1 /\ c * size \in Nat /\ (c - 1) * size \in Nat
    BY <1>2, <1>6
  <2>2. (c - 1) * size < n /\ (c - 1) * size = c * size - size
    BY <1>7, <2>1
  <2>. QED  BY <1>1, <1>2, <2>1, <2>2
<1>. HIDE DEF n
<1>9. ASSUME NEW c \in 1 .. count
      PROVE  /\ parts[c] \in Seq(Indices) /\ Len(parts[c]) = End(c) - (c - 1) * size
             /\ \A v \in 1 .. Len(parts[c]) : parts[c][v] = sound[(c - 1) * size + v]
  <2>. DEFINE a == (c - 1) * size
              b == End(c)
  <2>1. a \in Nat /\ b \in Nat /\ a < b /\ b <= n
    BY <1>8
  <2>2. parts[c] = SubSeq(sound, a + 1, b)
    BY <1>4
  <2>. HIDE DEF a, b, parts
  <2>3. \A p \in a + 1 .. b : sound[p] \in Indices
    BY <1>1, <2>1 DEF n
  <2>4. /\ parts[c] \in Seq(Indices) /\ Len(parts[c]) = b - (a + 1) + 1
        /\ \A v \in 1 .. b - (a + 1) + 1 : parts[c][v] = sound[(a + 1) + v - 1]
    <3>1. a + 1 \in Int /\ b \in Int /\ a + 1 <= b
      BY <2>1
    <3>. QED  BY <2>2, <2>3, <3>1, SubSeqProperties
  <2>5. Len(parts[c]) = b - a /\ \A v \in 1 .. b - a : parts[c][v] = sound[a + v]
    <3>1. b - (a + 1) + 1 = b - a /\ \A v \in 1 .. b - a : (a + 1) + v - 1 = a + v
      BY <2>1
    <3>. QED  BY <2>4, <3>1
  <2>6. parts[c] \in Seq(Indices) /\ Len(parts[c]) = b - a /\ \A v \in 1 .. Len(parts[c]) : parts[c][v] = sound[a + v]
    BY <2>4, <2>5
  <2>. QED  BY <2>6 DEF a, b
<1>10. parts \in PartsOf(Indices) /\ Len(parts) = count
  BY <1>6, <1>9 DEF PartsOf
<1>11. ends \in [0 .. count -> Nat] /\ ends[0] = 0 /\ ends[count] = n
  <2>1. \A c \in 0 .. count : End(c) \in Nat
    <3>. SUFFICES ASSUME NEW c \in 0 .. count PROVE End(c) \in Nat
      OBVIOUS
    <3>1. c * size \in Nat
      BY <1>2, <1>6
    <3>. QED  BY <1>1, <3>1 DEF n
  <2>2. End(0) = 0
    <3>1. 0 * size = 0 /\ n \in Nat
      BY <1>1, <1>2 DEF n
    <3>. QED  BY <3>1
  <2>3. End(count) = n
    BY <1>1, <1>2, <1>6, <1>7 DEF n
  <2>. QED  BY <1>6, <2>1, <2>2, <2>3
<1>12. ASSUME NEW c \in 1 .. count PROVE ends[c] = ends[c - 1] + Len(parts[c]) /\ ends[c - 1] = (c - 1) * size
  <2>1. c \in 0 .. count /\ c - 1 \in 0 .. count
    BY <1>6
  <2>2. ends[c] = End(c) /\ ends[c - 1] = (c - 1) * size /\ Len(parts[c]) = End(c) - (c - 1) * size
    BY <1>8, <1>9, <2>1
  <2>3. End(c) \in Int /\ (c - 1) * size \in Int
    BY <1>8
  <2>. QED  BY <2>2, <2>3
<1>. HIDE DEF ends, parts, End
<1>13. EndsOf(parts, ends)
  BY <1>10, <1>11, <1>12 DEF EndsOf
<1>14. MadeOf(sound, parts, ends)
  BY <1>9, <1>10, <1>11, <1>12 DEF MadeOf, n
<1>15. FlattenSeq(parts) = sound
  BY <1>1, <1>10, <1>13, <1>14, FlattenIs
<1>. QED  BY <1>5, <1>15

-----------------------------------------------------------------------------
(* The tables. *)

Views == [read : Indices, view : Nat \ {0}]

TablesOf == [read : Indices, shape : Shapes, views : Seq(Views)]

LEMMA PipelinesFacts ==
    ASSUME Typed
    PROVE  LET n == Len(Pipelines)
           IN  /\ n \in {1, 2} /\ DOMAIN Pipelines = 1 .. n
               /\ \A p \in 1 .. n : Pipelines[p] \in Nat \ {0}
               /\ n = 1 => Pipelines[1] = members
               /\ n = 2 => Pipelines[1] + Pipelines[2] = members
<1>1. members \in Nat \ {0}
  BY ArgsFacts
<1>2. CASE members = 1
  <2>1. Pipelines = <<1>>
    BY <1>2 DEF Pipelines
  <2>. QED  BY <1>2, <2>1
<1>3. CASE members # 1
  <2>. DEFINE a == (members + 1) \div 2
              b == members \div 2
  <2>1. a \in Nat \ {0} /\ b \in Nat \ {0} /\ a + b = members
    BY <1>1, <1>3
  <2>2. Pipelines = <<a, b>>
    BY <1>3 DEF Pipelines
  <2>. HIDE DEF a, b
  <2>. QED  BY <2>1, <2>2
<1>. QED  BY <1>2, <1>3

\* What comes before the views of pipeline p among a read's.
BeforeOf(p) == IF p = 1 THEN 0 ELSE Pipelines[1]

LEMMA ViewsOfFacts ==
    ASSUME Typed, NEW i \in Indices, NEW p \in DOMAIN Pipelines
    PROVE  /\ ViewsOf(i, p) \in Seq(Views) /\ Len(ViewsOf(i, p)) = Pipelines[p]
           /\ \A v \in 1 .. Pipelines[p] :
                 /\ ViewsOf(i, p)[v] = [read |-> i, view |-> BeforeOf(p) + v]
                 /\ ViewsOf(i, p)[v].read = i
<1>. DEFINE n == Pipelines[p]
            x == BeforeOf(p)
            s == [v \in 1 .. n |-> [read |-> i, view |-> x + v]]
<1>1. n \in Nat \ {0} /\ x \in Nat
  BY PipelinesFacts DEF BeforeOf
<1>2. ViewsOf(i, p) = s
  BY DEF ViewsOf, BeforeOf
<1>. HIDE DEF n, x
<1>3. s \in Seq(Views) /\ Len(s) = n
  BY <1>1 DEF Views
<1>4. \A v \in 1 .. n : s[v] = [read |-> i, view |-> x + v] /\ s[v].read = i
  OBVIOUS
<1>. HIDE DEF s
<1>. QED  BY <1>2, <1>3, <1>4 DEF n, x

\* A read that is prepared has a table for each pipeline, and one that is not has none.
LEMMA PrepareFacts ==
    ASSUME Typed, NEW i \in Indices
    PROVE  /\ prepare(i) \in Seq(TablesOf)
           /\ Len(prepare(i)) = IF reads[i].prepares THEN Len(Pipelines) ELSE 0
           /\ reads[i].prepares => \A p \in 1 .. Len(Pipelines) :
                 prepare(i)[p] = [read |-> i, shape |-> reads[i].shape, views |-> ViewsOf(i, p)]
<1>1. Len(Pipelines) \in Nat /\ DOMAIN Pipelines = 1 .. Len(Pipelines)
  BY PipelinesFacts
<1>2. \A p \in 1 .. Len(Pipelines) : ViewsOf(i, p) \in Seq(Views)
  BY <1>1, ViewsOfFacts
<1>3. reads[i].shape \in Shapes
  BY ArgsFacts
<1>4. CASE reads[i].prepares
  <2>. DEFINE s == [p \in 1 .. Len(Pipelines) |-> [read |-> i, shape |-> reads[i].shape, views |-> ViewsOf(i, p)]]
  <2>1. prepare(i) = s
    BY <1>1, <1>4 DEF prepare
  <2>2. s \in Seq(TablesOf) /\ Len(s) = Len(Pipelines)
    <3>1. \A p \in 1 .. Len(Pipelines) : s[p] \in TablesOf
      BY <1>2, <1>3 DEF TablesOf
    <3>. QED  BY <1>1, <3>1
  <2>3. \A p \in 1 .. Len(Pipelines) : s[p] = [read |-> i, shape |-> reads[i].shape, views |-> ViewsOf(i, p)]
    OBVIOUS
  <2>. HIDE DEF s
  <2>. QED  BY <1>4, <2>1, <2>2, <2>3
<1>5. CASE ~reads[i].prepares
  <2>1. prepare(i) = <<>>
    BY <1>5 DEF prepare
  <2>. QED  BY <1>5, <2>1
<1>. QED  BY <1>4, <1>5

\* Read i's tables stand side by side in a list of tables.
SideBySide(list, i, before) ==
    /\ before + Len(Pipelines) <= Len(list)
    /\ \A t \in DOMAIN list : list[t].read = i <=> t \in before + 1 .. before + Len(Pipelines)
    /\ \A p \in 1 .. Len(Pipelines) : list[before + p].views = ViewsOf(i, p)

\* The tables made: each from one sound read, and each prepared read's side by side.
LEMMA MadeFacts ==
    ASSUME Typed
    PROVE  /\ Made \in Seq(TablesOf)
           /\ \A t \in DOMAIN Made :
                 /\ Made[t].read \in ToSet(sound) /\ reads[Made[t].read].prepares
                 /\ Made[t].shape = reads[Made[t].read].shape
                 /\ Made[t].views # <<>>
                 /\ \A v \in DOMAIN Made[t].views : Made[t].views[v].read = Made[t].read
           /\ \A i \in ToSet(sound) : reads[i].prepares =>
                 \E before \in Nat : SideBySide(Made, i, before)
<1>. DEFINE n == Len(sound)
            parts == [k \in 1 .. n |-> prepare(sound[k])]
            N == Len(Pipelines)
<1>1. /\ n \in Nat /\ \A k \in 1 .. n : sound[k] \in Indices
      /\ \A k, l \in 1 .. n : sound[k] = sound[l] => k = l
      /\ ToSet(sound) = {sound[k] : k \in 1 .. n} /\ DOMAIN sound = 1 .. n
  BY SoundFacts DEF IsInjective, ToSet
<1>2. Made = FlattenSeq(parts)
  BY <1>1, PreparedIsSound DEF Made
<1>3. parts \in PartsOf(TablesOf) /\ Len(parts) = n /\ \A k \in 1 .. n : parts[k] = prepare(sound[k])
  <2>1. \A k \in 1 .. n : prepare(sound[k]) \in Seq(TablesOf)
    BY <1>1, PrepareFacts
  <2>. QED  BY <1>1, <2>1 DEF PartsOf
<1>4. N \in Nat \ {0} /\ DOMAIN Pipelines = 1 .. N
  BY PipelinesFacts
<1>. HIDE DEF n, parts, N
<1>5. Made \in Seq(TablesOf)
  BY <1>2, <1>3, FlattenFacts
<1>6. PICK ends : EndsOf(parts, ends) /\ MadeOf(Made, parts, ends)
  BY <1>2, <1>3, FlattenFacts
<1>7. DOMAIN Made = 1 .. Len(Made) /\ Len(Made) = ends[n] /\ Len(Made) \in Nat
  BY <1>3, <1>5, <1>6 DEF MadeOf
<1>8. ASSUME NEW k \in 1 .. n
      PROVE  /\ Len(parts[k]) = IF reads[sound[k]].prepares THEN N ELSE 0
             /\ ends[k - 1] \in Nat /\ ends[k] = ends[k - 1] + Len(parts[k])
             /\ ends[k] <= Len(Made)
             /\ \A v \in 1 .. Len(parts[k]) :
                   /\ Made[ends[k - 1] + v].read = sound[k]
                   /\ Made[ends[k - 1] + v].shape = reads[sound[k]].shape
                   /\ Made[ends[k - 1] + v].views = ViewsOf(sound[k], v)
  <2>1. sound[k] \in Indices /\ parts[k] = prepare(sound[k])
    BY <1>1, <1>3
  <2>2. /\ Len(prepare(sound[k])) = IF reads[sound[k]].prepares THEN N ELSE 0
        /\ reads[sound[k]].prepares => \A p \in 1 .. N :
              prepare(sound[k])[p]
                = [read |-> sound[k], shape |-> reads[sound[k]].shape, views |-> ViewsOf(sound[k], p)]
    BY <2>1, PrepareFacts DEF N
  <2>3. k \in 1 .. Len(parts) /\ k - 1 \in 0 .. Len(parts) /\ k \in 0 .. Len(parts) /\ n \in 0 .. Len(parts)
    BY <1>1, <1>3
  <2>4. ends[k - 1] \in Nat /\ ends[k] = ends[k - 1] + Len(parts[k])
    BY <1>6, <2>3 DEF EndsOf
  <2>5. ends[k] <= ends[n]
    BY <1>3, <1>6, <2>3, EndsRise
  <2>6. \A v \in 1 .. Len(parts[k]) : Made[ends[k - 1] + v] = parts[k][v]
    BY <1>6, <2>3 DEF MadeOf
  <2>7. ASSUME NEW v \in 1 .. Len(parts[k])
        PROVE  /\ Made[ends[k - 1] + v].read = sound[k]
               /\ Made[ends[k - 1] + v].shape = reads[sound[k]].shape
               /\ Made[ends[k - 1] + v].views = ViewsOf(sound[k], v)
    <3>1. CASE reads[sound[k]].prepares
      <4>1. v \in 1 .. N
        BY <2>1, <2>2, <3>1
      <4>2. Made[ends[k - 1] + v] = prepare(sound[k])[v]
        BY <2>1, <2>6
      <4>3. prepare(sound[k])[v]
              = [read |-> sound[k], shape |-> reads[sound[k]].shape, views |-> ViewsOf(sound[k], v)]
        BY <2>2, <3>1, <4>1
      <4>. DEFINE m == Made[ends[k - 1] + v]
      <4>4. m = [read |-> sound[k], shape |-> reads[sound[k]].shape, views |-> ViewsOf(sound[k], v)]
        BY <4>2, <4>3
      <4>. QED  BY <4>4
    <3>2. CASE ~reads[sound[k]].prepares
      <4>1. Len(parts[k]) = 0
        BY <2>1, <2>2, <3>2
      <4>. QED  BY <4>1
    <3>. QED  BY <3>1, <3>2
  <2>. QED  BY <1>7, <2>1, <2>2, <2>4, <2>5, <2>7
<1>9. ASSUME NEW t \in DOMAIN Made
      PROVE  \E k \in 1 .. n : \E v \in 1 .. Len(parts[k]) : t = ends[k - 1] + v
  <2>1. \A q \in 1 .. ends[Len(parts)] :
           \E k \in 1 .. Len(parts) : \E v \in 1 .. Len(parts[k]) : q = ends[k - 1] + v
    BY <1>3, <1>6, PlaceOf
  <2>. QED  BY <1>3, <1>7, <2>1
<1>10. ASSUME NEW t \in DOMAIN Made
       PROVE  /\ Made[t].read \in ToSet(sound) /\ reads[Made[t].read].prepares
              /\ Made[t].shape = reads[Made[t].read].shape
              /\ Made[t].views # <<>>
              /\ \A v \in DOMAIN Made[t].views : Made[t].views[v].read = Made[t].read
  <2>1. PICK k \in 1 .. n : \E v \in 1 .. Len(parts[k]) : t = ends[k - 1] + v
    BY <1>9
  <2>2. PICK v \in 1 .. Len(parts[k]) : t = ends[k - 1] + v
    BY <2>1
  <2>3. Made[t].read = sound[k] /\ Made[t].shape = reads[sound[k]].shape /\ Made[t].views = ViewsOf(sound[k], v)
    BY <1>8, <2>2
  <2>4. reads[sound[k]].prepares /\ v \in 1 .. N
    <3>1. CASE reads[sound[k]].prepares
      <4>1. Len(parts[k]) = N
        BY <1>8, <3>1
      <4>. QED  BY <3>1, <4>1
    <3>2. CASE ~reads[sound[k]].prepares
      <4>1. Len(parts[k]) = 0
        BY <1>8, <3>2
      <4>. QED  BY <4>1
    <3>. QED  BY <3>1, <3>2
  <2>5. sound[k] \in Indices /\ sound[k] \in ToSet(sound) /\ v \in DOMAIN Pipelines
    BY <1>1, <1>4, <2>4
  <2>6. /\ ViewsOf(sound[k], v) \in Seq(Views) /\ Len(ViewsOf(sound[k], v)) = Pipelines[v]
        /\ \A w \in 1 .. Pipelines[v] : ViewsOf(sound[k], v)[w].read = sound[k]
    BY <2>5, ViewsOfFacts
  <2>7. \A w \in DOMAIN ViewsOf(sound[k], v) : ViewsOf(sound[k], v)[w].read = sound[k]
    BY <2>6
  <2>8. ViewsOf(sound[k], v) # <<>>
    <3>1. Pipelines[v] # 0
      BY <2>5, PipelinesFacts
    <3>. QED  BY <2>6, <3>1
  <2>. QED  BY <2>3, <2>4, <2>5, <2>7, <2>8
<1>11. ASSUME NEW k \in 1 .. n, reads[sound[k]].prepares
       PROVE  /\ ends[k - 1] \in Nat /\ ends[k - 1] + N <= Len(Made)
              /\ \A t \in DOMAIN Made : Made[t].read = sound[k] <=> t \in ends[k - 1] + 1 .. ends[k - 1] + N
              /\ \A p \in 1 .. N : Made[ends[k - 1] + p].views = ViewsOf(sound[k], p)
  <2>. DEFINE e == ends[k - 1]
  <2>1. /\ e \in Nat /\ e + N <= Len(Made) /\ Len(parts[k]) = N
        /\ \A v \in 1 .. N : Made[e + v].read = sound[k] /\ Made[e + v].views = ViewsOf(sound[k], v)
    BY <1>4, <1>8, <1>11
  <2>2. ASSUME NEW t \in e + 1 .. e + N PROVE Made[t].read = sound[k]
    <3>. DEFINE v == t - e
    <3>1. v \in 1 .. N /\ e + v = t
      BY <1>4, <2>1
    <3>. HIDE DEF v, e
    <3>. QED  BY <2>1, <3>1
  <2>3. ASSUME NEW t \in DOMAIN Made, Made[t].read = sound[k] PROVE t \in e + 1 .. e + N
    <3>1. PICK l \in 1 .. n : \E v \in 1 .. Len(parts[l]) : t = ends[l - 1] + v
      BY <1>9
    <3>2. PICK v \in 1 .. Len(parts[l]) : t = ends[l - 1] + v
      BY <3>1
    <3>3. Made[t].read = sound[l]
      BY <1>8, <3>2
    <3>4. l = k
      BY <1>1, <2>3, <3>3
    <3>. QED  BY <1>4, <2>1, <3>2, <3>4
  <2>. HIDE DEF e
  <2>4. \A p \in 1 .. N : Made[e + p].views = ViewsOf(sound[k], p)
    BY <2>1
  <2>. QED  BY <2>1, <2>2, <2>3, <2>4 DEF e
<1>12. ASSUME NEW i \in ToSet(sound), reads[i].prepares
       PROVE  \E before \in Nat : SideBySide(Made, i, before)
  <2>1. PICK k \in 1 .. n : i = sound[k]
    BY <1>1
  <2>2. ends[k - 1] \in Nat /\ SideBySide(Made, i, ends[k - 1])
    BY <1>11, <1>12, <2>1 DEF SideBySide, N
  <2>. QED  BY <2>2
<1>. QED  BY <1>5, <1>10, <1>12

-----------------------------------------------------------------------------
(* The stacks of the groups. *)

\* A table's type, apart from the whole's.
LEMMA TableFacts ==
    ASSUME Typed, Tabled
    PROVE  /\ tables \in Seq(TablesOf) /\ Len(tables) \in Nat /\ DOMAIN tables = 1 .. Len(tables)
           /\ \A t \in DOMAIN tables :
                 /\ tables[t].read \in Indices /\ tables[t].shape \in Shapes
                 /\ tables[t].read \in ToSet(sound) /\ reads[tables[t].read].prepares
                 /\ tables[t].shape = reads[tables[t].read].shape
                 /\ tables[t].views \in Seq(Views) /\ Len(tables[t].views) \in Nat
                 /\ DOMAIN tables[t].views = 1 .. Len(tables[t].views)
                 /\ tables[t].views # <<>>
                 /\ \A v \in DOMAIN tables[t].views : tables[t].views[v].read = tables[t].read
<1>1. tables \in Seq(TablesOf)
  <2>1. <<>> \in Seq(TablesOf)
    OBVIOUS
  <2>2. Made \in Seq(TablesOf)
    BY MadeFacts
  <2>. QED  BY <2>1, <2>2 DEF Tabled
<1>2. Len(tables) \in Nat /\ DOMAIN tables = 1 .. Len(tables) /\ \A t \in DOMAIN tables : tables[t] \in TablesOf
  BY <1>1
<1>3. ASSUME NEW m \in TablesOf
      PROVE  /\ m.read \in Indices /\ m.shape \in Shapes /\ m.views \in Seq(Views)
             /\ Len(m.views) \in Nat /\ DOMAIN m.views = 1 .. Len(m.views)
  <2>1. m.read \in Indices /\ m.shape \in Shapes /\ m.views \in Seq(Views)
    BY DEF TablesOf
  <2>. QED  BY <2>1
<1>4. ASSUME NEW t \in DOMAIN tables
      PROVE  /\ tables[t].read \in ToSet(sound) /\ reads[tables[t].read].prepares
             /\ tables[t].shape = reads[tables[t].read].shape
             /\ tables[t].views # <<>>
             /\ \A v \in DOMAIN tables[t].views : tables[t].views[v].read = tables[t].read
  <2>1. CASE tables = <<>>
    BY <2>1
  <2>2. CASE tables = Made
    BY <2>2, MadeFacts
  <2>. QED  BY <2>1, <2>2 DEF Tabled
<1>. QED  BY <1>1, <1>2, <1>3, <1>4

\* The views of table t stand in the stack of shape g, after `before` others.
StandsAt(g, t, before) ==
    /\ Span(t) = [from |-> before + 1, to |-> before + Len(tables[t].views)]
    /\ before + Len(tables[t].views) <= Len(Stacked(g))
    /\ \A v \in DOMAIN tables[t].views : Stacked(g)[before + v] = tables[t].views[v]

\* The stack of a group holds the views of its tables, each at its span, and no other.
LEMMA StackFacts ==
    ASSUME Typed, Tabled, NEW g
    PROVE  /\ Stacked(g) \in Seq(Views) /\ Len(Stacked(g)) \in Nat
           /\ \A r \in 1 .. Len(Stacked(g)) :
                 \E t \in DOMAIN tables : tables[t].shape = g /\ \E v \in DOMAIN tables[t].views :
                     Stacked(g)[r] = tables[t].views[v]
           /\ \A t \in DOMAIN tables : tables[t].shape = g =>
                 \E before \in Nat : StandsAt(g, t, before)
<1>. DEFINE n == Len(tables)
            Part(t) == IF tables[t].shape = g THEN tables[t].views ELSE <<>>
            parts == [t \in 1 .. n |-> Part(t)]
<1>1. n \in Nat /\ DOMAIN tables = 1 .. n
  BY TableFacts
<1>2. \A t \in 1 .. n : /\ tables[t].views \in Seq(Views) /\ Len(tables[t].views) \in Nat
                        /\ DOMAIN tables[t].views = 1 .. Len(tables[t].views)
  BY <1>1, TableFacts
<1>3. \A t \in 1 .. n : Part(t) \in Seq(Views)
  <2>1. <<>> \in Seq(Views)
    OBVIOUS
  <2>. QED  BY <1>2, <2>1
<1>4. /\ parts \in PartsOf(Views) /\ Len(parts) = n
      /\ \A t \in 1 .. n : parts[t] = Part(t)
  BY <1>1, <1>3 DEF PartsOf
<1>5. \A k \in 0 .. n : StackOf(g, k) = FlattenSeq(SubSeq(parts, 1, k))
  <2>. SUFFICES ASSUME NEW k \in 0 .. n PROVE StackOf(g, k) = FlattenSeq(SubSeq(parts, 1, k))
    OBVIOUS
  <2>1. StackOf(g, k) = FlattenSeq([t \in 1 .. k |-> Part(t)])
    BY DEF StackOf
  <2>. HIDE DEF Part, n
  <2>2. [t \in 1 .. k |-> Part(t)] = SubSeq(parts, 1, k)
    BY <1>1
  <2>. QED  BY <2>1, <2>2
<1>. HIDE DEF parts
<1>6. Stacked(g) = FlattenSeq(parts)
  <2>1. SubSeq(parts, 1, n) = parts
    BY <1>4 DEF PartsOf
  <2>2. n \in 0 .. n
    BY <1>1
  <2>3. StackOf(g, n) = FlattenSeq(SubSeq(parts, 1, n))
    BY <1>5, <2>2
  <2>. QED  BY <2>1, <2>3 DEF Stacked
<1>7. Stacked(g) \in Seq(Views) /\ Len(Stacked(g)) \in Nat
  <2>1. Stacked(g) \in Seq(Views)
    BY <1>4, <1>6, FlattenFacts
  <2>. QED  BY <2>1
<1>8. PICK ends : EndsOf(parts, ends) /\ MadeOf(FlattenSeq(parts), parts, ends)
  BY <1>4, FlattenFacts
<1>. HIDE DEF n
<1>9. \A k \in 0 .. n : Len(StackOf(g, k)) = ends[k] /\ ends[k] \in Nat
  <2>. SUFFICES ASSUME NEW k \in 0 .. n PROVE Len(StackOf(g, k)) = ends[k] /\ ends[k] \in Nat
    OBVIOUS
  <2>1. k \in 0 .. Len(parts)
    BY <1>4
  <2>2. Len(FlattenSeq(SubSeq(parts, 1, k))) = ends[k]
    BY <1>4, <1>8, <2>1, FlattenFirst
  <2>. QED  BY <1>5, <1>8, <2>1, <2>2 DEF EndsOf
<1>10. ASSUME NEW r \in 1 .. Len(Stacked(g))
       PROVE  \E t \in DOMAIN tables : tables[t].shape = g /\ \E v \in DOMAIN tables[t].views :
                  Stacked(g)[r] = tables[t].views[v]
  <2>1. Len(Stacked(g)) = ends[Len(parts)]
    BY <1>6, <1>8 DEF MadeOf
  <2>2. \A q \in 1 .. ends[Len(parts)] :
           \E k \in 1 .. Len(parts) : \E v \in 1 .. Len(parts[k]) : q = ends[k - 1] + v
    BY <1>4, <1>8, PlaceOf
  <2>3. PICK t \in 1 .. n : \E v \in 1 .. Len(parts[t]) : r = ends[t - 1] + v
    BY <1>4, <2>1, <2>2
  <2>4. PICK v \in 1 .. Len(parts[t]) : r = ends[t - 1] + v
    BY <2>3
  <2>5. Stacked(g)[r] = parts[t][v]
    BY <1>4, <1>6, <1>8, <2>4 DEF MadeOf
  <2>6. tables[t].shape = g
    <3>. SUFFICES ASSUME tables[t].shape # g PROVE FALSE
      OBVIOUS
    <3>1. parts[t] = <<>>
      BY <1>4
    <3>2. Len(parts[t]) = 0
      BY <3>1
    <3>. QED  BY <3>2
  <2>7. parts[t] = tables[t].views
    BY <1>4, <2>6
  <2>8. v \in DOMAIN tables[t].views
    BY <1>2, <2>7
  <2>. QED  BY <1>1, <2>5, <2>6, <2>7, <2>8
<1>11. ASSUME NEW t \in DOMAIN tables, tables[t].shape = g
       PROVE  \E before \in Nat : StandsAt(g, t, before)
  <2>1. t \in 1 .. n /\ t - 1 \in 0 .. n /\ t \in 0 .. n /\ n \in 0 .. n
    BY <1>1
  <2>2. parts[t] = tables[t].views /\ t \in 1 .. Len(parts)
    BY <1>4, <1>11, <2>1
  <2>3. ends[t] = ends[t - 1] + Len(tables[t].views) /\ ends[t - 1] \in Nat
    BY <1>8, <1>9, <2>1, <2>2 DEF EndsOf
  <2>4. Span(t) = [from |-> ends[t - 1] + 1, to |-> ends[t]]
    BY <1>9, <1>11, <2>1 DEF Span
  <2>5. ends[t] <= ends[n] /\ Len(Stacked(g)) = ends[n]
    <3>1. t \in 0 .. n /\ n \in 0 .. Len(parts)
      BY <1>4, <2>1
    <3>2. ends[t] <= ends[n]
      BY <1>4, <1>8, <3>1, EndsRise
    <3>3. Len(Stacked(g)) = ends[n]
      BY <1>4, <1>6, <1>8 DEF MadeOf
    <3>. QED  BY <3>2, <3>3
  <2>6. \A v \in DOMAIN tables[t].views : Stacked(g)[ends[t - 1] + v] = tables[t].views[v]
    BY <1>2, <1>6, <1>8, <2>1, <2>2 DEF MadeOf
  <2>7. StandsAt(g, t, ends[t - 1])
    BY <2>3, <2>4, <2>5, <2>6 DEF StandsAt
  <2>. QED  BY <2>3, <2>7
<1>. QED  BY <1>7, <1>10, <1>11

\* The first shape still to be passed is one.
LEMMA GroupKeyFacts ==
    ASSUME Typed, Tabled, todo # {}
    PROVE  GroupKey \in todo
<1>. DEFINE T == {t \in DOMAIN tables : tables[t].shape \in todo}
<1>1. T \in SUBSET Nat /\ T # {}
  <2>1. T # {}
    BY DEF Tabled
  <2>2. DOMAIN tables \subseteq Nat
    BY TableFacts
  <2>. QED  BY <2>1, <2>2
<1>2. \E t \in T : \A s \in T : t <= s
  <2>. HIDE DEF T
  <2>. QED  BY <1>1, LeastOf
<1>. QED  BY <1>2 DEF GroupKey

\* The owners lie beside the stack.
LEMMA OwnerFacts ==
    ASSUME Typed, Tabled, NEW g
    PROVE  /\ Owner(g) \in Seq(Indices) /\ Len(Owner(g)) = Len(Stacked(g))
           /\ \A r \in 1 .. Len(Stacked(g)) : Owner(g)[r] = Stacked(g)[r].read
<1>. DEFINE n == Len(tables)
            Part(t) == IF tables[t].shape = g THEN tables[t].views ELSE <<>>
            Other(t) == IF tables[t].shape = g THEN [v \in DOMAIN tables[t].views |-> tables[t].read] ELSE <<>>
            parts == [t \in 1 .. n |-> Part(t)]
            others == [t \in 1 .. n |-> Other(t)]
            f == [w \in Views |-> w.read]
<1>1. n \in Nat /\ DOMAIN tables = 1 .. n
  BY TableFacts
<1>2. ASSUME NEW t \in 1 .. n
      PROVE  /\ Part(t) \in Seq(Views) /\ Other(t) \in Seq(Indices) /\ Len(Other(t)) = Len(Part(t))
             /\ \A v \in 1 .. Len(Part(t)) : Other(t)[v] = f[Part(t)[v]]
  <2>. DEFINE w == tables[t].views
              m == Len(tables[t].views)
  <2>1. /\ w \in Seq(Views) /\ m \in Nat /\ DOMAIN w = 1 .. m /\ tables[t].read \in Indices
        /\ \A v \in 1 .. m : w[v].read = tables[t].read
    BY <1>1, TableFacts
  <2>2. \A v \in 1 .. m : w[v] \in Views
    BY <2>1
  <2>3. CASE tables[t].shape = g
    <3>1. Part(t) = w /\ Other(t) = [v \in 1 .. m |-> tables[t].read]
      BY <2>1, <2>3
    <3>2. [v \in 1 .. m |-> tables[t].read] \in Seq(Indices) /\ Len([v \in 1 .. m |-> tables[t].read]) = m
      <4>. HIDE DEF m
      <4>. QED  BY <2>1
    <3>. QED  BY <2>1, <2>2, <3>1, <3>2
  <2>4. CASE tables[t].shape # g
    <3>1. Part(t) = <<>> /\ Other(t) = <<>>
      BY <2>4
    <3>2. <<>> \in Seq(Views) /\ <<>> \in Seq(Indices) /\ Len(<<>>) = 0 /\ 1 .. 0 = {}
      OBVIOUS
    <3>. QED  BY <3>1, <3>2
  <2>. QED  BY <2>3, <2>4
<1>3. f \in [Views -> Indices]
  BY DEF Views
<1>4. Stacked(g) = FlattenSeq(parts) /\ Owner(g) = FlattenSeq(others)
  BY <1>1 DEF Stacked, StackOf, Owner
<1>. HIDE DEF Part, Other, f, n
<1>5. /\ parts \in PartsOf(Views) /\ Len(parts) = n
      /\ others \in PartsOf(Indices) /\ Len(others) = n
  <2>1. \A t \in 1 .. n : Part(t) \in Seq(Views)
    BY <1>2
  <2>2. \A t \in 1 .. n : Other(t) \in Seq(Indices)
    BY <1>2
  <2>3. parts \in Seq(Seq(Views)) /\ Len(parts) = n
    BY <1>1, <2>1
  <2>4. others \in Seq(Seq(Indices)) /\ Len(others) = n
    BY <1>1, <2>2
  <2>. QED  BY <2>3, <2>4 DEF PartsOf
<1>6. \A k \in 1 .. Len(parts) : /\ Len(others[k]) = Len(parts[k])
                                 /\ \A v \in 1 .. Len(parts[k]) : others[k][v] = f[parts[k][v]]
  BY <1>2, <1>5
<1>. HIDE DEF parts, others
<1>7. /\ Len(FlattenSeq(others)) = Len(FlattenSeq(parts))
      /\ \A r \in 1 .. Len(FlattenSeq(parts)) : FlattenSeq(others)[r] = f[FlattenSeq(parts)[r]]
  BY <1>3, <1>5, <1>6, FlattenMapped
<1>8. Owner(g) \in Seq(Indices)
  BY <1>4, <1>5, FlattenFacts
<1>9. \A r \in 1 .. Len(Stacked(g)) : Stacked(g)[r] \in Views
  BY StackFacts
<1>10. \A r \in 1 .. Len(Stacked(g)) : Owner(g)[r] = Stacked(g)[r].read
  BY <1>4, <1>7, <1>9 DEF f
<1>. QED  BY <1>4, <1>7, <1>8, <1>10

\* The owners of a group are reads of its shape.
LEMMA OwnersFacts ==
    ASSUME Typed, Tabled, NEW g
    PROVE  /\ OwnersOf(g) \subseteq Indices
           /\ \A i \in OwnersOf(g) : reads[i].shape = g
           /\ \A t \in DOMAIN tables : tables[t].shape = g => tables[t].read \in OwnersOf(g)
<1>1. /\ Stacked(g) \in Seq(Views) /\ Len(Stacked(g)) \in Nat
  BY StackFacts
<1>2. DOMAIN Stacked(g) = 1 .. Len(Stacked(g))
  BY <1>1
<1>3. OwnersOf(g) = {Stacked(g)[r].read : r \in 1 .. Len(Stacked(g))}
  <2>1. DOMAIN Owner(g) = 1 .. Len(Stacked(g))
    BY OwnerFacts
  <2>. QED  BY <2>1, OwnerFacts DEF OwnersOf, ToSet
<1>4. ASSUME NEW i \in OwnersOf(g) PROVE i \in Indices /\ reads[i].shape = g
  <2>1. PICK r \in 1 .. Len(Stacked(g)) : i = Stacked(g)[r].read
    BY <1>3
  <2>2. PICK t \in DOMAIN tables : tables[t].shape = g /\ \E v \in DOMAIN tables[t].views :
                     Stacked(g)[r] = tables[t].views[v]
    BY StackFacts
  <2>3. PICK v \in DOMAIN tables[t].views : Stacked(g)[r] = tables[t].views[v]
    BY <2>2
  <2>4. i = tables[t].read
    BY <2>1, <2>3, TableFacts
  <2>. QED  BY <2>2, <2>4, TableFacts
<1>5. ASSUME NEW t \in DOMAIN tables, tables[t].shape = g
      PROVE  tables[t].read \in OwnersOf(g)
  <2>1. PICK before \in Nat :
            /\ before + Len(tables[t].views) <= Len(Stacked(g))
            /\ \A v \in DOMAIN tables[t].views : Stacked(g)[before + v] = tables[t].views[v]
    <3>1. \E before \in Nat : StandsAt(g, t, before)
      BY <1>5, StackFacts
    <3>. QED  BY <3>1 DEF StandsAt
  <2>2. /\ tables[t].views \in Seq(Views) /\ Len(tables[t].views) \in Nat
        /\ DOMAIN tables[t].views = 1 .. Len(tables[t].views)
    BY TableFacts
  <2>3. 1 \in DOMAIN tables[t].views
    <3>1. tables[t].views # <<>>
      BY TableFacts
    <3>2. Len(tables[t].views) # 0
      BY <2>2, <3>1
    <3>. QED  BY <2>2, <3>2
  <2>4. Stacked(g)[before + 1].read = tables[t].read
    BY <2>1, <2>3, TableFacts
  <2>5. before + 1 \in DOMAIN Stacked(g)
    BY <1>1, <1>2, <2>1, <2>2, <2>3
  <2>. QED  BY <1>3, <1>2, <2>4, <2>5
<1>. QED  BY <1>4, <1>5

\* The rows that ask the same levels are all of them.
LEMMA AskingFacts ==
    ASSUME NEW owner, NEW n \in Nat, NEW asked
    PROVE  ToSet(RowsAsking(owner, n, asked)) = {k \in 1 .. n : LevelsAt(owner, k) = asked}
<1>. DEFINE mine == RowsAsking(owner, n, asked)
            parts == [k \in 1 .. n |-> IF LevelsAt(owner, k) = asked THEN <<k>> ELSE <<>>]
<1>1. parts \in PartsOf(1 .. n)
  <2>1. \A k \in 1 .. n : <<k>> \in Seq(1 .. n) /\ <<>> \in Seq(1 .. n)
    OBVIOUS
  <2>2. \A k \in 1 .. n : parts[k] \in Seq(1 .. n)
    BY <2>1
  <2>. QED  BY <2>2 DEF PartsOf
<1>2. ToSet(mine) = UNION {ToSet(parts[k]) : k \in DOMAIN parts}
  BY <1>1, FlattenHolds DEF RowsAsking
<1>3. \A k \in 1 .. n : /\ LevelsAt(owner, k) = asked => ToSet(parts[k]) = {k}
                        /\ LevelsAt(owner, k) # asked => ToSet(parts[k]) = {}
  BY DEF ToSet
<1>4. DOMAIN parts = 1 .. n
  OBVIOUS
<1>. HIDE DEF mine, parts
<1>5. ToSet(mine) = {k \in 1 .. n : LevelsAt(owner, k) = asked}
  BY <1>2, <1>3, <1>4
<1>. QED  BY <1>5 DEF mine

\* Read off by levels, each of a pass's views has the answer at its own read's.
LEMMA ToldFacts ==
    ASSUME Typed, Tabled, NEW g, lo \in Nat, NEW upto \in Nat, upto <= Len(Stacked(g))
    PROVE  Told(upto, Stacked(g), Owner(g)) =
               [r \in DOMAIN rows \union (lo + 1 .. upto) |->
                   IF r \in DOMAIN rows THEN rows[r] ELSE AnswerTo(Stacked(g)[r])]
<1>. DEFINE stack == Stacked(g)
            owner == Owner(g)
            raw == SubSeq(stack, lo + 1, upto)
            asks(row) == LevelsAt(owner, row)
            mine(row) == RowsAsking(owner, upto - lo, asks(row))
            q(row) == [slot \in DOMAIN mine(row) |-> [view |-> raw[mine(row)[slot]], at |-> asks(row)]]
            at(row) == CHOOSE slot \in DOMAIN mine(row) : mine(row)[slot] = row
<1>1. Told(upto, stack, owner) =
          [r \in DOMAIN rows \union (lo + 1 .. upto) |->
              IF r \in DOMAIN rows THEN rows[r] ELSE q(r - lo)[at(r - lo)]]
  BY DEF Told
<1>2. /\ stack \in Seq(Views) /\ Len(stack) \in Nat
      /\ \A r \in 1 .. Len(stack) : owner[r] = stack[r].read
  BY StackFacts, OwnerFacts
<1>3. upto <= Len(stack)
  OBVIOUS
<1>. HIDE DEF stack, owner
<1>4. ASSUME NEW r \in lo + 1 .. upto PROVE q(r - lo)[at(r - lo)] = AnswerTo(stack[r])
  <2>. DEFINE row == r - lo
              n == upto - lo
              list == mine(row)
  <2>1. n \in Nat /\ row \in 1 .. n /\ lo + row = r /\ r \in 1 .. Len(stack)
    BY <1>3, <1>2
  <2>2. asks(row) = Asked(stack[r])
    BY <1>2, <2>1 DEF LevelsAt, Asked
  <2>3. ToSet(list) = {k \in 1 .. n : LevelsAt(owner, k) = asks(row)}
    <3>. HIDE DEF asks, n
    <3>1. list = RowsAsking(owner, n, asks(row))
      BY DEF n
    <3>. QED  BY <2>1, <3>1, AskingFacts
  <2>4. \E slot \in DOMAIN list : list[slot] = row
    <3>. HIDE DEF list, n, row
    <3>1. row \in {k \in 1 .. n : LevelsAt(owner, k) = asks(row)}
      BY <2>1
    <3>. QED  BY <2>3, <3>1 DEF ToSet
  <2>5. at(row) \in DOMAIN list /\ list[at(row)] = row
    <3>. HIDE DEF list, row
    <3>1. at(row) = CHOOSE slot \in DOMAIN list : list[slot] = row
      BY DEF list
    <3>. QED  BY <2>4, <3>1
  <2>6. raw[row] = stack[r]
    <3>1. raw[row] = stack[lo + 1 + row - 1]
      BY <1>2, <2>1
    <3>2. lo + 1 + row - 1 = r
      BY <2>1
    <3>. QED  BY <3>1, <3>2
  <2>7. q(row)[at(row)] = [view |-> raw[row], at |-> asks(row)]
    <3>1. q(row) = [slot \in DOMAIN list |-> [view |-> raw[list[slot]], at |-> asks(row)]]
      BY DEF list
    <3>. HIDE DEF list, q, at, asks, raw, row
    <3>. QED  BY <2>5, <3>1
  <2>. QED  BY <2>2, <2>6, <2>7 DEF AnswerTo
<1>. HIDE DEF q, at, asks, mine, raw
<1>. QED  BY <1>1, <1>4 DEF stack, owner

\* A read that would be prepared has a table.
LEMMA HasATable ==
    ASSUME Typed, tables = Made, NEW i \in Indices, Passes(i), reads[i].prepares
    PROVE  \E t \in DOMAIN tables : tables[t].read = i
<1>1. i \in ToSet(sound)
  BY SoundFacts
<1>2. PICK before \in Nat : SideBySide(tables, i, before)
  BY <1>1, MadeFacts
<1>3. Len(Pipelines) \in Nat \ {0} /\ Made \in Seq(TablesOf)
  BY PipelinesFacts, MadeFacts
<1>4. before + 1 \in DOMAIN tables /\ before + 1 \in before + 1 .. before + Len(Pipelines)
  BY <1>2, <1>3 DEF SideBySide
<1>. QED  BY <1>2, <1>4 DEF SideBySide

-----------------------------------------------------------------------------
(* What is put together again for a read. *)

\* The right answers for table t of a read.
LEMMA AnswersFacts ==
    ASSUME Typed, Tabled, NEW t \in DOMAIN tables
    PROVE  /\ AnswersOf(t) \in Seq(Answers) /\ Len(AnswersOf(t)) = Len(tables[t].views)
           /\ \A v \in 1 .. Len(tables[t].views) : AnswersOf(t)[v] = AnswerTo(tables[t].views[v])
<1>. DEFINE n == Len(tables[t].views)
            w == tables[t].views
<1>1. w \in Seq(Views) /\ n \in Nat /\ DOMAIN w = 1 .. n
  BY TableFacts
<1>2. \A u \in Views : AnswerTo(u) \in Answers
  <2>. SUFFICES ASSUME NEW u \in Views PROVE AnswerTo(u) \in Answers
    OBVIOUS
  <2>1. u.read \in Indices /\ u.view \in Nat \ {0} /\ u = [read |-> u.read, view |-> u.view]
    BY DEF Views
  <2>2. u.read \in 1 .. MaxReads
    <3>1. Len(reads) \in Nat /\ Indices = 1 .. Len(reads) /\ Len(reads) <= MaxReads /\ MaxReads \in Nat
      BY ArgsFacts, BatchAssumption DEF Typed
    <3>. QED  BY <2>1, <3>1
  <2>3. Asked(u) \in STRING
    BY <2>1, ArgsFacts DEF Asked
  <2>. QED  BY <2>1, <2>2, <2>3 DEF AnswerTo, Answers
<1>3. AnswersOf(t) = [v \in 1 .. n |-> AnswerTo(w[v])]
  BY <1>1 DEF AnswersOf
<1>4. \A v \in 1 .. n : w[v] \in Views
  BY <1>1
<1>. HIDE DEF n, w
<1>5. AnswersOf(t) \in Seq(Answers) /\ Len(AnswersOf(t)) = n
  BY <1>1, <1>2, <1>3, <1>4
<1>. QED  BY <1>3, <1>5 DEF n, w

\* The right answers for a table are answers.
LEMMA AnswersAreSome ==
    ASSUME Typed, Tabled, tables = Made, NEW t \in DOMAIN tables
    PROVE  AnswersOf(t) # None
<1>. DEFINE i == tables[t].read
<1>1. i \in ToSet(sound) /\ reads[i].prepares
  BY TableFacts
<1>2. PICK before \in Nat : SideBySide(tables, i, before)
  BY <1>1, MadeFacts
<1>3. /\ Len(Pipelines) \in {1, 2} /\ DOMAIN Pipelines = 1 .. Len(Pipelines)
      /\ \A p \in 1 .. Len(Pipelines) : Pipelines[p] \in Nat \ {0}
      /\ Len(Pipelines) = 1 => Pipelines[1] = members
      /\ Len(Pipelines) = 2 => Pipelines[1] + Pipelines[2] = members
  BY PipelinesFacts
<1>4. members \in Nat \ {0} /\ members \in Ensembles
  BY ArgsFacts DEF Typed
<1>5. t \in before + 1 .. before + Len(Pipelines)
  BY <1>2 DEF SideBySide
<1>6. PICK p \in 1 .. Len(Pipelines) : t = before + p
  <2>1. t - before \in 1 .. Len(Pipelines) /\ t = before + (t - before)
    BY <1>3, <1>5
  <2>. QED  BY <2>1
<1>7. tables[t].views = ViewsOf(i, p)
  BY <1>2, <1>6 DEF SideBySide
<1>8. Len(ViewsOf(i, p)) = Pipelines[p]
  BY <1>1, <1>3, SoundFacts, ViewsOfFacts
<1>9. Pipelines[p] \in 1 .. members
  BY <1>3, <1>4
<1>10. AnswersOf(t) \in Seq(Answers) /\ Len(AnswersOf(t)) = Pipelines[p]
  BY <1>7, <1>8, AnswersFacts
<1>11. AnswersOf(t) \in [1 .. Pipelines[p] -> Answers]
  BY <1>10
<1>. QED  BY <1>4, <1>9, <1>11, NoneIsNoAnswer

\* A table of a read that is to be answered has views, no more than members.
LEMMA MineFacts ==
    ASSUME Typed, Tabled, tables = Made, NEW i \in Indices, Passes(i), reads[i].prepares,
           \A t \in DOMAIN tables : tables[t].read = i => answered[t] = AnswersOf(t)
    PROVE  MineOf(i) = [v \in 1 .. members |-> [view |-> [read |-> i, view |-> v], at |-> reads[i].levels]]
<1>. DEFINE n == Len(tables)
            N == Len(Pipelines)
            Part(t) == IF tables[t].read = i /\ answered[t] # None THEN answered[t] ELSE <<>>
            parts == [t \in 1 .. n |-> Part(t)]
            mine == [v \in 1 .. members |-> [view |-> [read |-> i, view |-> v], at |-> reads[i].levels]]
<1>1. n \in Nat /\ DOMAIN tables = 1 .. n
  BY TableFacts
<1>2. /\ N \in {1, 2} /\ DOMAIN Pipelines = 1 .. N
      /\ \A p \in 1 .. N : Pipelines[p] \in Nat \ {0}
      /\ N = 1 => Pipelines[1] = members
      /\ N = 2 => Pipelines[1] + Pipelines[2] = members
  BY PipelinesFacts
<1>3. PICK before \in Nat :
          /\ before + N <= n
          /\ \A t \in DOMAIN tables : tables[t].read = i <=> t \in before + 1 .. before + N
          /\ \A p \in 1 .. N : tables[before + p].views = ViewsOf(i, p)
  <2>1. i \in ToSet(sound)
    BY SoundFacts
  <2>2. \E before \in Nat : SideBySide(tables, i, before)
    BY <2>1, MadeFacts
  <2>. QED  BY <2>2 DEF SideBySide
<1>4. members \in Nat \ {0}
  BY ArgsFacts
<1>5. MineOf(i) = FlattenSeq(parts)
  BY <1>1 DEF MineOf
<1>. HIDE DEF n, N
<1>6. ASSUME NEW p \in 1 .. N
      PROVE  LET t == before + p
             IN  /\ t \in 1 .. n /\ Part(t) = AnswersOf(t) /\ Part(t) \in Seq(Answers)
                 /\ Len(Part(t)) = Pipelines[p]
                 /\ \A v \in 1 .. Pipelines[p] :
                       Part(t)[v] = [view |-> [read |-> i, view |-> BeforeOf(p) + v], at |-> reads[i].levels]
  <2>. DEFINE t == before + p
  <2>1. t \in 1 .. n /\ t \in before + 1 .. before + N
    BY <1>1, <1>2, <1>3
  <2>2. tables[t].read = i /\ answered[t] = AnswersOf(t) /\ tables[t].views = ViewsOf(i, p)
    BY <1>1, <1>3, <2>1
  <2>3. p \in DOMAIN Pipelines
    BY <1>2
  <2>4. /\ Len(ViewsOf(i, p)) = Pipelines[p]
        /\ \A v \in 1 .. Pipelines[p] : ViewsOf(i, p)[v] = [read |-> i, view |-> BeforeOf(p) + v]
    BY <2>3, ViewsOfFacts
  <2>5. /\ AnswersOf(t) \in Seq(Answers) /\ Len(AnswersOf(t)) = Pipelines[p]
        /\ \A v \in 1 .. Pipelines[p] : AnswersOf(t)[v] = AnswerTo(ViewsOf(i, p)[v])
    BY <1>1, <2>1, <2>2, <2>4, AnswersFacts
  <2>6. AnswersOf(t) # None
    <3>1. Pipelines[p] \in 1 .. members
      BY <1>2, <1>4
    <3>2. AnswersOf(t) \in [1 .. Pipelines[p] -> Answers]
      BY <2>5
    <3>3. members \in Ensembles
      BY DEF Typed
    <3>. QED  BY <3>1, <3>2, <3>3, NoneIsNoAnswer
  <2>7. Part(t) = AnswersOf(t)
    BY <2>2, <2>6
  <2>8. ASSUME NEW v \in 1 .. Pipelines[p]
        PROVE  AnswersOf(t)[v] = [view |-> [read |-> i, view |-> BeforeOf(p) + v], at |-> reads[i].levels]
    <3>1. AnswersOf(t)[v] = AnswerTo([read |-> i, view |-> BeforeOf(p) + v])
      BY <2>4, <2>5
    <3>. QED  BY <3>1 DEF AnswerTo, Asked
  <2>. HIDE DEF Part
  <2>. QED  BY <2>1, <2>5, <2>7, <2>8
<1>7. ASSUME NEW t \in 1 .. n, t \notin before + 1 .. before + N PROVE Part(t) = <<>>
  BY <1>1, <1>3, <1>7
<1>8. ASSUME NEW t \in 1 .. n PROVE Part(t) \in Seq(Answers)
  <2>1. CASE t \in before + 1 .. before + N
    <3>1. t - before \in 1 .. N /\ before + (t - before) = t
      BY <1>2, <2>1
    <3>. DEFINE p == t - before
    <3>2. p \in 1 .. N /\ before + p = t
      BY <3>1
    <3>. HIDE DEF p, Part
    <3>. QED  BY <1>6, <3>2
  <2>2. CASE t \notin before + 1 .. before + N
    <3>1. <<>> \in Seq(Answers)
      OBVIOUS
    <3>. QED  BY <1>7, <2>2, <3>1
  <2>. QED  BY <2>1, <2>2
<1>. DEFINE End(t) == IF t <= before THEN 0 ELSE IF t = before + 1 THEN Pipelines[1] ELSE members
            ends == [t \in 0 .. n |-> End(t)]
<1>. HIDE DEF Part
<1>9. parts \in PartsOf(Answers) /\ Len(parts) = n /\ \A t \in 1 .. n : parts[t] = Part(t)
  BY <1>1, <1>8 DEF PartsOf
<1>10. 1 \in 1 .. N /\ Pipelines[1] \in Nat
  BY <1>2
<1>11. ends \in [0 .. n -> Nat] /\ ends[0] = 0 /\ ends[n] = members
  <2>1. \A t \in 0 .. n : End(t) \in Nat
    BY <1>4, <1>10
  <2>2. End(0) = 0
    BY <1>3
  <2>3. End(n) = members
    <3>1. ~(n <= before) /\ (n = before + 1 => N = 1)
      BY <1>1, <1>2, <1>3
    <3>. QED  BY <1>2, <3>1
  <2>. QED  BY <1>1, <2>1, <2>2, <2>3
<1>12. ASSUME NEW t \in 1 .. n
       PROVE  /\ ends[t] = ends[t - 1] + Len(parts[t])
              /\ \A v \in 1 .. Len(parts[t]) : mine[ends[t - 1] + v] = parts[t][v]
  <2>1. t \in 0 .. n /\ t - 1 \in 0 .. n /\ ends[t] = End(t) /\ ends[t - 1] = End(t - 1) /\ parts[t] = Part(t)
    BY <1>1, <1>9
  <2>2. CASE t \notin before + 1 .. before + N
    <3>1. Len(Part(t)) = 0
      BY <1>7, <2>2
    <3>2. End(t) = End(t - 1)
      <4>1. CASE t <= before
        BY <1>3, <4>1
      <4>2. CASE t > before + N
        <5>1. ~(t <= before) /\ ~(t = before + 1) /\ ~(t - 1 <= before) /\ (t - 1 = before + 1 => N = 1)
          BY <1>2, <1>3, <4>2
        <5>. QED  BY <1>2, <5>1
      <4>. QED  BY <1>2, <1>3, <2>2, <4>1, <4>2
    <3>3. End(t - 1) \in Nat
      BY <1>4, <1>10
    <3>. HIDE DEF End, mine
    <3>. QED  BY <2>1, <3>1, <3>2, <3>3
  <2>3. ASSUME NEW p \in 1 .. N, t = before + p
        PROVE  /\ ends[t] = ends[t - 1] + Len(parts[t])
               /\ \A v \in 1 .. Len(parts[t]) : mine[ends[t - 1] + v] = parts[t][v]
    <3>1. /\ Len(Part(t)) = Pipelines[p]
          /\ \A v \in 1 .. Pipelines[p] :
                Part(t)[v] = [view |-> [read |-> i, view |-> BeforeOf(p) + v], at |-> reads[i].levels]
      BY <1>6, <2>3
    <3>2. End(t - 1) = BeforeOf(p) /\ End(t) = BeforeOf(p) + Pipelines[p] /\ End(t) <= members
      <4>1. CASE p = 1
        <5>1. t - 1 = before /\ t = before + 1 /\ ~(t <= before) /\ t - 1 <= before
          BY <1>3, <2>3, <4>1
        <5>2. Pipelines[1] <= members
          BY <1>2
        <5>. QED  BY <1>10, <4>1, <5>1, <5>2 DEF BeforeOf
      <4>2. CASE p = 2
        <5>1. t - 1 = before + 1 /\ ~(t - 1 <= before) /\ ~(t = before + 1) /\ ~(t <= before) /\ N = 2
          BY <1>2, <1>3, <2>3, <4>2
        <5>. QED  BY <1>2, <1>4, <4>2, <5>1 DEF BeforeOf
      <4>. QED  BY <1>2, <4>1, <4>2
    <3>3. Pipelines[p] \in Nat /\ BeforeOf(p) \in Nat
      BY <1>2, <1>10 DEF BeforeOf
    <3>4. ASSUME NEW v \in 1 .. Pipelines[p]
          PROVE  mine[BeforeOf(p) + v] = [view |-> [read |-> i, view |-> BeforeOf(p) + v], at |-> reads[i].levels]
      <4>1. BeforeOf(p) + v \in 1 .. members
        BY <1>4, <3>2, <3>3
      <4>. QED  BY <4>1
    <3>. HIDE DEF End, mine
    <3>. QED  BY <2>1, <3>1, <3>2, <3>3, <3>4
  <2>4. CASE t \in before + 1 .. before + N
    <3>. DEFINE p == t - before
    <3>1. p \in 1 .. N /\ t = before + p
      BY <1>2, <1>3, <2>4
    <3>. HIDE DEF p, End, mine, ends
    <3>. QED  BY <2>3, <3>1
  <2>. QED  BY <2>2, <2>4
<1>13. mine \in Seq(Answers) /\ Len(mine) = members
  <2>1. ASSUME NEW v \in 1 .. members
        PROVE  [view |-> [read |-> i, view |-> v], at |-> reads[i].levels] \in Answers
    <3>1. i \in 1 .. MaxReads
      <4>1. Len(reads) \in Nat /\ Indices = 1 .. Len(reads) /\ Len(reads) <= MaxReads /\ MaxReads \in Nat
        BY ArgsFacts, BatchAssumption DEF Typed
      <4>. QED  BY <4>1
    <3>2. reads[i].levels \in STRING
      BY ArgsFacts
    <3>. QED  BY <3>1, <3>2 DEF Answers
  <2>. QED  BY <1>4, <2>1
<1>. HIDE DEF parts, ends, mine, End
<1>14. EndsOf(parts, ends)
  BY <1>9, <1>11, <1>12 DEF EndsOf
<1>15. MadeOf(mine, parts, ends)
  BY <1>9, <1>11, <1>12, <1>13 DEF MadeOf
<1>16. FlattenSeq(parts) = mine
  BY <1>9, <1>13, <1>14, <1>15, FlattenIs
<1>. QED  BY <1>5, <1>16 DEF mine

-----------------------------------------------------------------------------
(* The steps. *)

Batched == Typed /\ Judged /\ Tabled /\ Passing /\ Grouped /\ Refusing

LEMMA BatchedInit == Init => Batched
<1>. SUFFICES ASSUME Init PROVE Batched
  OBVIOUS
<1>. USE BatchAssumption DEF Init
<1>1. DOMAIN <<>> = {} /\ Len(<<>>) = 0 /\ <<>> \in Seq(Kinds)
  OBVIOUS
<1>2. Typed
  BY <1>1 DEF Typed, Indices
<1>3. Judged /\ Tabled /\ Passing /\ Grouped /\ Refusing
  BY <1>1 DEF Judged, Tabled, Passing, Grouped, Refusing
<1>. QED  BY <1>2, <1>3 DEF Batched

\* Within a call its reads are the same, and so is what can be made of them.
LEMMA SameCall ==
    ASSUME UNCHANGED args
    PROVE  /\ Indices' = Indices /\ sound' = sound /\ Made' = Made
           /\ \A i : Passes(i)' = Passes(i)
           /\ \A w : AnswerTo(w)' = AnswerTo(w)
<1>. USE DEF args
<1>1. Indices' = Indices /\ \A i : Passes(i)' = Passes(i)
  BY DEF Indices, Passes
<1>2. sound' = sound
  BY <1>1 DEF sound
<1>3. Prepared' = Prepared
  BY <1>2 DEF Prepared, Pooled, ChunkSize, ChunkCount, Chunk
<1>4. \A i : prepare(i)' = prepare(i)
  BY DEF prepare, Pipelines, ViewsOf
<1>5. Made' = Made
  BY <1>3, <1>4 DEF Made
<1>6. \A w : AnswerTo(w)' = AnswerTo(w)
  BY DEF AnswerTo, Asked
<1>. QED  BY <1>1, <1>2, <1>5, <1>6

\* With the tables the same, so are the stacks and the right answers.
LEMMA SameTables ==
    ASSUME UNCHANGED args, tables' = tables
    PROVE  /\ \A t : AnswersOf(t)' = AnswersOf(t)
           /\ \A g : Stacked(g)' = Stacked(g)
           /\ todo' = todo => GroupKey' = GroupKey
<1>1. \A t : AnswersOf(t)' = AnswersOf(t)
  BY SameCall DEF AnswersOf
<1>2. \A g : Stacked(g)' = Stacked(g)
  BY DEF Stacked, StackOf
<1>3. todo' = todo => GroupKey' = GroupKey
  BY DEF GroupKey
<1>. QED  BY <1>1, <1>2, <1>3

\* Steps that leave the tables and the groups alone.
LEMMA QuietStep ==
    ASSUME Batched, UNCHANGED <<args, refused, tables, group>>,
           pool' \in {"none", "up", "broken"}, chunks' \subseteq Nat,
           \/ pc' = pc
           \/ pc = "prepare" /\ pc' = "map"
           \/ pc = "map" /\ pc' = "raised"
           \/ pc = "pass" /\ pc' = "done" /\ todo = {}
    PROVE  Batched'
<1>1. Typed /\ Judged /\ Tabled /\ Passing /\ Grouped /\ Refusing
  BY DEF Batched
<1>2. UNCHANGED <<reads, members, refusals, refused, tables, todo, lo, rows, answered>>
  BY DEF args, group
<1>3. /\ Indices' = Indices /\ Made' = Made /\ \A i : Passes(i)' = Passes(i)
      /\ \A w : AnswerTo(w)' = AnswerTo(w)
  BY SameCall
<1>4. /\ \A t : AnswersOf(t)' = AnswersOf(t)
      /\ \A g : Stacked(g)' = Stacked(g)
      /\ GroupKey' = GroupKey
  BY <1>2, SameTables
<1>5. Typed'
  BY <1>1, <1>2, <1>3 DEF Typed
<1>6. Judged'
  BY <1>1, <1>2, <1>3 DEF Judged
<1>7. Tabled'
  BY <1>1, <1>2, <1>3, <1>4 DEF Tabled
<1>8. Passing'
  BY <1>1, <1>2, <1>3, <1>4 DEF Passing
<1>9. Grouped'
  BY <1>1, <1>2, <1>3, <1>4 DEF Grouped
<1>10. Refusing'
  <2>1. Failed' = Failed
    BY <1>2 DEF Failed
  <2>. QED  BY <1>1, <1>2, <1>3, <2>1 DEF Refusing
<1>. QED  BY <1>5, <1>6, <1>7, <1>8, <1>9, <1>10 DEF Batched

LEMMA CallStepKeeps == ASSUME Batched, Call PROVE Batched'
<1>. USE BatchAssumption
<1>1. /\ pc = "idle" /\ pc' = "check" /\ members' \in Ensembles /\ refusals' \in BOOLEAN
      /\ UNCHANGED <<pool, refused, chunks, tables, todo, lo, rows, answered>>
  BY DEF Call, group
<1>2. reads' \in Seq(Kinds) /\ Len(reads') <= MaxReads
  BY DEF Call
<1>3. /\ refused = {} /\ tables = <<>> /\ todo = {} /\ answered = <<>> /\ pool \in {"none", "up", "broken"}
      /\ chunks \subseteq Nat /\ lo = 0 /\ rows = <<>>
  BY <1>1 DEF Batched, Typed, Passing, Indices
<1>4. DOMAIN <<>> = {}
  OBVIOUS
<1>. QED  BY <1>1, <1>2, <1>3, <1>4 DEF Batched, Typed, Judged, Tabled, Passing, Grouped, Refusing

LEMMA CheckKeeps == ASSUME Batched, Check PROVE Batched'
<1>1. /\ pc = "check" /\ refused' = {i \in Indices : ~Passes(i)} /\ pc' \in {"raised", "prepare"}
      /\ UNCHANGED <<args, pool, chunks, tables, todo, lo, rows, answered>>
  BY DEF Check, group
<1>2. Typed /\ Judged /\ Tabled /\ Passing /\ Grouped /\ Refusing
  BY DEF Batched
<1>3. Indices' = Indices /\ \A i : Passes(i)' = Passes(i)
  BY <1>1, SameCall
<1>4. Typed'
  BY <1>1, <1>2, <1>3 DEF Typed, args
<1>5. Judged'
  BY <1>1, <1>3 DEF Judged
<1>6. tables = <<>> /\ todo = {} /\ answered = <<>> /\ lo = 0 /\ rows = <<>> /\ DOMAIN <<>> = {}
  BY <1>1, <1>2 DEF Typed, Passing
<1>7. Tabled' /\ Passing' /\ Grouped' /\ Refusing'
  BY <1>1, <1>6 DEF Tabled, Passing, Grouped, Refusing
<1>. QED  BY <1>4, <1>5, <1>7 DEF Batched

LEMMA CollectKeeps ==
    ASSUME Batched, Collect, pc \in {"prepare", "map"}, UNCHANGED <<pool, chunks>>
    PROVE  Batched'
<1>1. /\ refused' = refused \union {i \in ToSet(sound) : ~reads[i].prepares}
      /\ tables' = Made /\ todo' = {tables'[t].shape : t \in DOMAIN tables'}
      /\ answered' = [t \in DOMAIN tables' |-> None]
      /\ pc' \in {"raised", "pass"} /\ UNCHANGED <<args, lo, rows>>
  BY DEF Collect
<1>2. Typed /\ Judged /\ Tabled /\ Passing /\ Grouped /\ Refusing
  BY DEF Batched
<1>3. Indices' = Indices /\ Made' = Made /\ \A i : Passes(i)' = Passes(i)
  BY <1>1, SameCall
<1>4. ToSet(sound) = {i \in Indices : Passes(i)}
  BY <1>2, SoundFacts
<1>5. refused = {i \in Indices : ~Passes(i)} /\ lo = 0 /\ rows = <<>>
  BY <1>2 DEF Judged, Passing
<1>6. Typed'
  BY <1>1, <1>2, <1>3, <1>4 DEF Typed, args
<1>7. Judged'
  BY <1>1, <1>3, <1>4, <1>5 DEF Judged, args
<1>8. Tabled'
  BY <1>1, <1>3 DEF Tabled
<1>9. Passing'
  <2>1. DOMAIN rows' = {} /\ 1 .. lo' = {} /\ lo' = 0 /\ rows' = <<>>
    BY <1>1, <1>5
  <2>. QED  BY <2>1 DEF Passing
<1>10. Grouped'
  BY <1>1 DEF Grouped
<1>11. Refusing'
  <2>1. Failed' = {}
    BY <1>1 DEF Failed
  <2>2. refused' = {i \in Indices : ~(Passes(i) /\ reads[i].prepares)}
    BY <1>1, <1>4, <1>5
  <2>3. tables' = Made' /\ pc' # "done" /\ \A t \in DOMAIN tables' : answered'[t] = None
    BY <1>1, <1>3
  <2>4. \A i : reads'[i] = reads[i]
    BY <1>1 DEF args
  <2>. QED  BY <1>3, <2>1, <2>2, <2>3, <2>4 DEF Refusing
<1>. QED  BY <1>6, <1>7, <1>8, <1>9, <1>10, <1>11 DEF Batched

\* A pass answers the next places of the stack, and keeps what was answered.
LEMMA PassKeeps == ASSUME Batched, Pass PROVE Batched'
<1>. USE BatchAssumption
<1>. DEFINE g == GroupKey
            stack == Stacked(GroupKey)
            n == Len(stack)
            end == PassEnd(GroupKey, stack)
<1>1. /\ pc = "pass" /\ todo # {} /\ lo < n /\ rows' = Told(end, stack, Owner(g)) /\ lo' = lo + PerPass(g)
      /\ UNCHANGED <<args, pool, pc, refused, chunks, tables, todo, answered>>
  BY DEF Pass, InGroup
<1>2. Typed /\ Judged /\ Tabled /\ Passing /\ Grouped /\ Refusing
  BY DEF Batched
<1>3. /\ Indices' = Indices /\ Made' = Made /\ \A i : Passes(i)' = Passes(i)
      /\ \A w : AnswerTo(w)' = AnswerTo(w)
  BY <1>1, SameCall
<1>4. /\ \A t : AnswersOf(t)' = AnswersOf(t)
      /\ Stacked(g)' = stack /\ GroupKey' = g
  BY <1>1, SameTables
<1>5. n \in Nat /\ g \in Shapes /\ lo \in Nat
  <2>1. g \in todo
    BY <1>1, <1>2, GroupKeyFacts
  <2>2. g \in Shapes
    BY <1>2, <2>1, TableFacts DEF Tabled
  <2>. QED  BY <1>2, <2>2, StackFacts DEF Passing
<1>6. PerPass(g) \in Nat \ {0}
  <2>1. CellsPerPass \div CellsIn[g] \in Nat
    BY <1>5
  <2>. QED  BY <2>1 DEF PerPass
<1>7. end = IF lo + PerPass(g) < n THEN lo + PerPass(g) ELSE n
  BY DEF PassEnd
<1>8. /\ DOMAIN rows = {r \in 1 .. lo : r <= n}
      /\ \A r \in DOMAIN rows : rows[r] = AnswerTo(stack[r])
  BY <1>1, <1>2 DEF Passing
<1>9. rows' = [r \in DOMAIN rows \union (lo + 1 .. end) |-> IF r \in DOMAIN rows THEN rows[r] ELSE AnswerTo(stack[r])]
  <2>1. end \in Nat /\ end <= n
    BY <1>5, <1>6, <1>7
  <2>2. Told(end, stack, Owner(g)) =
            [r \in DOMAIN rows \union (lo + 1 .. end) |-> IF r \in DOMAIN rows THEN rows[r] ELSE AnswerTo(stack[r])]
    <3>. HIDE DEF end
    <3>. QED  BY <1>2, <1>5, <2>1, ToldFacts
  <2>. QED  BY <1>1, <2>2
<1>10. Stacked(GroupKey)' = stack
  BY <1>1, SameTables
<1>. HIDE DEF g, stack, n, end
<1>11. DOMAIN rows' = {r \in 1 .. lo' : r <= n}
  <2>1. DOMAIN rows' = DOMAIN rows \union (lo + 1 .. end)
    BY <1>9
  <2>2. end \in Nat /\ lo' \in Nat
    BY <1>1, <1>5, <1>6, <1>7
  <2>3. ASSUME NEW r \in Int
        PROVE  (r \in 1 .. lo /\ r <= n) \/ r \in lo + 1 .. end <=> r \in 1 .. lo' /\ r <= n
    BY <1>1, <1>5, <1>6, <1>7, <2>2
  <2>. QED  BY <1>5, <1>8, <2>1, <2>2, <2>3
<1>12. \A r \in DOMAIN rows' : rows'[r] = AnswerTo(stack[r])
  BY <1>8, <1>9
<1>13. Typed'
  BY <1>1, <1>2, <1>3 DEF Typed, args
<1>14. Judged'
  BY <1>1, <1>2, <1>3 DEF Judged, args
<1>15. Tabled'
  BY <1>1, <1>2, <1>3, <1>4 DEF Tabled
<1>16. Passing'
  <2>1. lo' \in Nat
    BY <1>1, <1>5, <1>6
  <2>2. pc' = "pass" /\ todo' # {}
    BY <1>1
  <2>3. Len(Stacked(GroupKey)') = n
    BY <1>10 DEF n
  <2>4. \A r \in DOMAIN rows' : rows'[r] = AnswerTo(Stacked(GroupKey)[r])'
    BY <1>3, <1>10, <1>12 DEF AnswerTo
  <2>. QED  BY <1>11, <2>1, <2>2, <2>3, <2>4 DEF Passing
<1>17. Grouped'
  BY <1>1, <1>2, <1>3, <1>4 DEF Grouped
<1>18. Refusing'
  <2>1. Failed' = Failed
    BY <1>1 DEF Failed
  <2>. QED  BY <1>1, <1>2, <1>3, <2>1 DEF Refusing, args
<1>. QED  BY <1>13, <1>14, <1>15, <1>16, <1>17, <1>18 DEF Batched

\* The next group starts with nothing answered.
LEMMA NextGroupPassing ==
    ASSUME NextGroup
    PROVE  Passing'
<1>1. lo' = 0 /\ rows' = <<>>
  BY DEF NextGroup
<1>2. DOMAIN <<>> = {} /\ 1 .. 0 = {}
  OBVIOUS
<1>. QED  BY <1>1, <1>2 DEF Passing

\* A failing pass leaves behind a group whose every read is refused.
LEMMA PassRaisesKeeps == ASSUME Batched, PassRaises PROVE Batched'
<1>. DEFINE g == GroupKey
<1>1. /\ pc = "pass" /\ pc' \in {"raised", "pass"} /\ todo # {}
      /\ refused' = refused \union OwnersOf(g) /\ todo' = todo \ {g} /\ NextGroup
      /\ UNCHANGED <<args, pool, chunks, tables, answered>>
  BY DEF PassRaises, InGroup, NextGroup
<1>2. Typed /\ Judged /\ Tabled /\ Passing /\ Grouped /\ Refusing
  BY DEF Batched
<1>3. /\ Indices' = Indices /\ Made' = Made /\ \A i : Passes(i)' = Passes(i)
      /\ \A t : AnswersOf(t)' = AnswersOf(t)
  BY <1>1, SameCall, SameTables
<1>4. /\ OwnersOf(g) \subseteq Indices
      /\ \A t \in DOMAIN tables : tables[t].shape = g => tables[t].read \in OwnersOf(g)
  BY <1>2, OwnersFacts
<1>. HIDE DEF g
<1>5. Typed'
  BY <1>1, <1>2, <1>3, <1>4 DEF Typed, args
<1>6. Judged'
  BY <1>1, <1>2, <1>3 DEF Judged, args
<1>7. Tabled'
  BY <1>1, <1>2, <1>3 DEF Tabled
<1>8. Passing'
  BY <1>1, NextGroupPassing
<1>9. Grouped'
  BY <1>1, <1>2, <1>3, <1>4 DEF Grouped
<1>10. Refusing'
  <2>. SUFFICES ASSUME pc' = "pass" PROVE Refusing'
    BY <1>1 DEF Refusing
  <2>1. /\ tables = Made /\ \A t \in DOMAIN tables : tables[t].shape \in todo \union Failed => answered[t] = None
        /\ refused = {i \in Indices : ~(Passes(i) /\ reads[i].prepares) \/ reads[i].shape \in Failed}
    BY <1>1, <1>2 DEF Refusing
  <2>2. g \in todo /\ \E t \in DOMAIN tables : tables[t].shape = g
    BY <1>1, <1>2, GroupKeyFacts DEF g, Tabled
  <2>3. Failed' = Failed \union {g}
    BY <1>1, <2>1, <2>2 DEF Failed
  <2>4. ASSUME NEW i \in Indices, Passes(i), reads[i].prepares, reads[i].shape = g
        PROVE  i \in OwnersOf(g)
    <3>1. \E t \in DOMAIN tables : tables[t].read = i
      BY <1>2, <2>1, <2>4, HasATable
    <3>2. PICK t \in DOMAIN tables : tables[t].read = i
      BY <3>1
    <3>3. tables[t].shape = g
      BY <1>2, <2>4, <3>2, TableFacts
    <3>. QED  BY <1>4, <3>2, <3>3
  <2>5. \A i \in OwnersOf(g) : reads[i].shape = g
    BY <1>2, OwnersFacts
  <2>6. refused' = {i \in Indices : ~(Passes(i) /\ reads[i].prepares) \/ reads[i].shape \in Failed'}
    BY <1>1, <1>4, <2>1, <2>3, <2>4, <2>5
  <2>7. \A t \in DOMAIN tables : tables[t].shape \in todo' \union Failed' => answered[t] = None
    BY <1>1, <2>1, <2>2, <2>3
  <2>8. \A i : reads'[i] = reads[i]
    BY <1>1 DEF args
  <2>. QED  BY <1>1, <1>3, <2>1, <2>6, <2>7, <2>8 DEF Refusing
<1>. QED  BY <1>5, <1>6, <1>7, <1>8, <1>9, <1>10 DEF Batched

\* When every place of the stack is answered, each table of the group gets its own answers.
LEMMA ScatterKeeps == ASSUME Batched, Scatter PROVE Batched'
<1>. DEFINE g == GroupKey
            stack == Stacked(GroupKey)
            n == Len(stack)
            Cut(t) == LET s == Span(t) IN [v \in 1 .. s.to - s.from + 1 |-> rows[s.from + v - 1]]
<1>1. /\ pc = "pass" /\ todo # {} /\ lo >= n
      /\ answered' = [t \in DOMAIN tables |-> IF tables[t].shape # g THEN answered[t] ELSE Cut(t)]
      /\ todo' = todo \ {g} /\ NextGroup
      /\ UNCHANGED <<args, pool, pc, refused, chunks, tables>>
  BY DEF Scatter, InGroup, NextGroup
<1>2. Typed /\ Judged /\ Tabled /\ Passing /\ Grouped /\ Refusing
  BY DEF Batched
<1>3. /\ Indices' = Indices /\ Made' = Made /\ \A i : Passes(i)' = Passes(i)
      /\ \A t : AnswersOf(t)' = AnswersOf(t)
  BY <1>1, SameCall, SameTables
<1>4. n \in Nat /\ lo \in Nat
  BY <1>2, StackFacts DEF Passing
<1>5. \A r \in 1 .. n : rows[r] = AnswerTo(stack[r])
  <2>1. /\ DOMAIN rows = {r \in 1 .. lo : r <= n}
        /\ \A r \in DOMAIN rows : rows[r] = AnswerTo(stack[r])
    BY <1>1, <1>2 DEF Passing
  <2>. HIDE DEF stack, n
  <2>2. 1 .. n \subseteq DOMAIN rows
    BY <1>1, <1>4, <2>1
  <2>. QED  BY <2>1, <2>2
<1>. HIDE DEF n
<1>6. ASSUME NEW t \in DOMAIN tables, tables[t].shape = g
      PROVE  Cut(t) = AnswersOf(t)
  <2>. DEFINE m == Len(tables[t].views)
  <2>1. PICK before \in Nat : StandsAt(g, t, before)
    BY <1>2, <1>6, StackFacts
  <2>2. m \in Nat /\ DOMAIN tables[t].views = 1 .. m
    BY <1>2, TableFacts
  <2>3. Span(t).from = before + 1 /\ Span(t).to = before + m
    BY <2>1 DEF StandsAt
  <2>4. before + m <= n /\ \A v \in 1 .. m : stack[before + v] = tables[t].views[v]
    BY <2>1, <2>2 DEF StandsAt, n
  <2>. HIDE DEF m
  <2>5. Span(t).to - Span(t).from + 1 = m /\ \A v \in 1 .. m : Span(t).from + v - 1 = before + v
    BY <2>2, <2>3
  <2>6. Cut(t) = [v \in 1 .. m |-> rows[before + v]]
    BY <2>5
  <2>. HIDE DEF Cut, stack
  <2>7. ASSUME NEW v \in 1 .. m PROVE rows[before + v] = AnswerTo(tables[t].views[v])
    <3>1. before + v \in 1 .. n
      BY <1>4, <2>2, <2>4
    <3>2. stack[before + v] = tables[t].views[v]
      BY <2>4
    <3>. QED  BY <1>5, <3>1, <3>2
  <2>. QED  BY <2>2, <2>6, <2>7 DEF AnswersOf
<1>. HIDE DEF g, stack, Cut
<1>7. Typed'
  BY <1>1, <1>2, <1>3 DEF Typed, args
<1>8. Judged'
  BY <1>1, <1>2, <1>3 DEF Judged, args
<1>9. \A t \in DOMAIN tables : answered'[t] = IF tables[t].shape # g THEN answered[t] ELSE AnswersOf(t)
  BY <1>1, <1>6
<1>10. Tabled'
  BY <1>1, <1>2, <1>3, <1>9 DEF Tabled
<1>11. Passing'
  BY <1>1, NextGroupPassing
<1>12. Grouped'
  BY <1>1, <1>2, <1>3, <1>9 DEF Grouped
<1>13. Refusing'
  <2>1. /\ tables = Made /\ \A t \in DOMAIN tables : tables[t].shape \in todo \union Failed => answered[t] = None
        /\ refused = {i \in Indices : ~(Passes(i) /\ reads[i].prepares) \/ reads[i].shape \in Failed}
    BY <1>1, <1>2 DEF Refusing
  <2>2. \A t \in DOMAIN tables : AnswersOf(t) # None
    BY <1>2, <2>1, AnswersAreSome
  <2>3. g \in todo
    BY <1>1, <1>2, GroupKeyFacts DEF g
  <2>4. Failed' = Failed
    BY <1>1, <1>9, <2>2, <2>3 DEF Failed
  <2>5. g \notin todo' /\ g \notin Failed /\ todo' \subseteq todo
    BY <1>1, <2>3 DEF Failed
  <2>6. \A t \in DOMAIN tables : tables[t].shape \in todo' \union Failed' => answered'[t] = None
    BY <1>9, <2>1, <2>4, <2>5
  <2>7. \A i : reads'[i] = reads[i]
    BY <1>1 DEF args
  <2>. QED  BY <1>1, <1>3, <2>1, <2>4, <2>6, <2>7 DEF Refusing
<1>. QED  BY <1>7, <1>8, <1>10, <1>11, <1>12, <1>13 DEF Batched

LEMMA ReturnKeeps == ASSUME Batched, Return PROVE Batched'
<1>1. /\ pc' = "idle" /\ reads' = <<>> /\ refused' = {} /\ chunks' = {} /\ tables' = <<>>
      /\ todo' = {} /\ lo' = 0 /\ rows' = <<>> /\ answered' = <<>>
      /\ UNCHANGED <<pool, members, refusals>>
  BY DEF Return
<1>2. Typed
  BY DEF Batched
<1>3. DOMAIN <<>> = {} /\ Len(<<>>) = 0 /\ <<>> \in Seq(Kinds)
  OBVIOUS
<1>4. Typed'
  BY <1>1, <1>2, <1>3, BatchAssumption DEF Typed
<1>5. Judged' /\ Tabled' /\ Passing' /\ Grouped' /\ Refusing'
  BY <1>1, <1>3 DEF Judged, Tabled, Passing, Grouped, Refusing
<1>. QED  BY <1>4, <1>5 DEF Batched

LEMMA BatchedStep == ASSUME Batched, [Next]_vars PROVE Batched'
<1>1. /\ pool \in {"none", "up", "broken"} /\ chunks \subseteq Nat
  BY DEF Batched, Typed
<1>2. CASE Warm \/ WorkerDies
  BY <1>1, <1>2, QuietStep DEF Warm, WorkerDies
<1>3. CASE Call
  BY <1>3, CallStepKeeps
<1>4. CASE Check
  BY <1>4, CheckKeeps
<1>5. CASE PrepareInLine
  BY <1>5, CollectKeeps DEF PrepareInLine
<1>6. CASE MapOverPool
  BY <1>1, <1>6, QuietStep DEF MapOverPool
<1>7. CASE PoolAnswers
  BY <1>7, CollectKeeps DEF PoolAnswers
<1>8. CASE PoolRaises
  BY <1>1, <1>8, QuietStep DEF PoolRaises
<1>9. CASE \E c \in 1 .. ChunkCount : WorkerPrepares(c)
  <2>1. PICK c \in 1 .. ChunkCount : WorkerPrepares(c)
    BY <1>9
  <2>2. chunks' \subseteq Nat
    BY <1>1, <2>1 DEF WorkerPrepares
  <2>. QED  BY <1>1, <2>1, <2>2, QuietStep DEF WorkerPrepares
<1>10. CASE Pass
  BY <1>10, PassKeeps
<1>11. CASE PassRaises
  BY <1>11, PassRaisesKeeps
<1>12. CASE Scatter
  BY <1>12, ScatterKeeps
<1>13. CASE Finish
  BY <1>1, <1>13, QuietStep DEF Finish
<1>14. CASE Return
  BY <1>14, ReturnKeeps
<1>15. CASE UNCHANGED vars
  BY <1>1, <1>15, QuietStep DEF vars
<1>. QED  BY <1>2, <1>3, <1>4, <1>5, <1>6, <1>7, <1>8, <1>9, <1>10, <1>11, <1>12, <1>13, <1>14, <1>15
          DEF Next, CallStep

-----------------------------------------------------------------------------
(* The theorems. *)

LEMMA BatchedIsTyped == Batched => BatchTypeOK
<1>. SUFFICES ASSUME Batched PROVE BatchTypeOK
  OBVIOUS
<1>1. Typed /\ Judged /\ Tabled /\ Passing /\ Grouped /\ Refusing
  BY DEF Batched
<1>2. \A t \in DOMAIN tables : /\ tables[t].read \in Indices /\ tables[t].shape \in Shapes
                               /\ tables[t].shape = reads[tables[t].read].shape
  BY <1>1, TableFacts
<1>3. todo \subseteq Shapes
  BY <1>1, <1>2 DEF Tabled
<1>4. lo \in Nat /\ \A r \in DOMAIN rows : rows[r] \in Answers
  <2>1. CASE pc # "pass" \/ todo = {}
    <3>1. lo = 0 /\ rows = <<>> /\ DOMAIN <<>> = {}
      BY <1>1, <2>1 DEF Passing
    <3>. QED  BY <3>1
  <2>2. CASE pc = "pass" /\ todo # {}
    <3>. DEFINE stack == Stacked(GroupKey)
    <3>1. /\ lo \in Nat /\ DOMAIN rows = {r \in 1 .. lo : r <= Len(stack)}
          /\ \A r \in DOMAIN rows : rows[r] = AnswerTo(stack[r])
      BY <1>1, <2>2 DEF Passing
    <3>2. Len(stack) \in Nat
      BY <1>1, StackFacts
    <3>. SUFFICES ASSUME NEW r \in DOMAIN rows PROVE rows[r] \in Answers
      BY <3>1
    <3>3. r \in 1 .. Len(stack)
      BY <3>1, <3>2
    <3>4. PICK t \in DOMAIN tables : \E v \in DOMAIN tables[t].views : stack[r] = tables[t].views[v]
      BY <1>1, <3>3, StackFacts
    <3>5. PICK v \in DOMAIN tables[t].views : stack[r] = tables[t].views[v]
      BY <3>4
    <3>6. DOMAIN tables[t].views = 1 .. Len(tables[t].views)
      BY <1>1, TableFacts
    <3>7. /\ AnswersOf(t) \in Seq(Answers) /\ Len(AnswersOf(t)) = Len(tables[t].views)
          /\ AnswersOf(t)[v] = AnswerTo(tables[t].views[v])
      BY <1>1, <3>6, AnswersFacts
    <3>8. AnswersOf(t)[v] \in Answers
      BY <3>6, <3>7
    <3>. QED  BY <3>1, <3>5, <3>7, <3>8
  <2>. QED  BY <2>1, <2>2
<1>5. \A t \in DOMAIN answered : answered[t] = None \/ answered[t] \in Seq(Answers)
  <2>1. \A t \in DOMAIN tables : AnswersOf(t) \in Seq(Answers)
    BY <1>1, AnswersFacts
  <2>. QED  BY <1>1, <2>1 DEF Tabled
<1>. QED  BY <1>1, <1>2, <1>3, <1>4, <1>5 DEF Typed, BatchTypeOK

\* Through every call: the tables, the groups and the answers have their
\* types, and an answer is looked up only where a pass has put one
\* (kernels.py, `bands_many`).
THEOREM TypesOfACall == BatchSpec => []BatchTypeOK
<1>1. Init => Batched
  BY BatchedInit
<1>2. Batched /\ [Next]_vars => Batched'
  BY BatchedStep
<1>. QED  BY <1>1, <1>2, BatchedIsTyped, PTL DEF BatchSpec

LEMMA FinishAnswers == ASSUME Batched, Finish PROVE OwnViewsOwnLevels'
<1>1. /\ pc = "pass" /\ todo = {} /\ results' = [i \in Indices |-> IF i \in refused THEN None ELSE MineOf(i)]
      /\ UNCHANGED <<reads, members, refusals, refused>>
  BY DEF Finish, args
<1>2. Typed /\ Judged /\ Tabled /\ Passing /\ Grouped /\ Refusing
  BY DEF Batched
<1>3. Indices' = Indices
  BY <1>1 DEF Indices
<1>4. ASSUME NEW i \in Indices \ refused
      PROVE  results'[i] = [v \in 1 .. members |-> [view |-> [read |-> i, view |-> v], at |-> reads[i].levels]]
  <2>1. tables = Made /\ Passes(i) /\ reads[i].prepares
    BY <1>1, <1>2 DEF Judged, Tabled
  <2>2. \A t \in DOMAIN tables : tables[t].read = i => answered[t] = AnswersOf(t)
    BY <1>1, <1>2 DEF Grouped
  <2>3. MineOf(i) = [v \in 1 .. members |-> [view |-> [read |-> i, view |-> v], at |-> reads[i].levels]]
    BY <1>2, <2>1, <2>2, MineFacts
  <2>. QED  BY <1>1, <2>3
<1>. QED  BY <1>1, <1>3, <1>4 DEF OwnViewsOwnLevels

\* Cut into chunks, made into tables, grouped, stacked, passed and cut apart
\* again, what a call returns to a read it has not refused is the answer of
\* each of its own views, once, in the members' order and at its own levels
\* (kernels.py, `bands_many`; prepare.py, `prepare_many`).
THEOREM EveryReadItsOwn == BatchSpec => []OwnViewsOwnLevels
<1>. DEFINE Inv == Batched /\ OwnViewsOwnLevels
<1>1. Init => Inv
  BY BatchedInit DEF Init, OwnViewsOwnLevels
<1>2. Inv /\ [Next]_vars => Inv'
  <2>. SUFFICES ASSUME Inv, [Next]_vars PROVE OwnViewsOwnLevels'
    BY BatchedStep
  <2>1. CASE Finish
    BY <2>1, FinishAnswers
  <2>2. CASE UNCHANGED vars
    BY <2>2 DEF vars, args, OwnViewsOwnLevels, Indices
  <2>3. CASE pc' # "done"
    BY <2>3 DEF OwnViewsOwnLevels
  <2>4. CASE Warm \/ WorkerDies \/ (\E c \in 1 .. ChunkCount : WorkerPrepares(c))
    BY <2>4 DEF Warm, WorkerDies, WorkerPrepares, args, OwnViewsOwnLevels, Indices
  <2>5. CASE Call \/ Check \/ PrepareInLine \/ MapOverPool \/ PoolAnswers \/ PoolRaises
    BY <2>3, <2>5 DEF Call, Check, PrepareInLine, MapOverPool, PoolAnswers, PoolRaises, Collect
  <2>6. CASE Pass \/ PassRaises \/ Scatter \/ Return
    BY <2>3, <2>6 DEF Pass, PassRaises, Scatter, Return, InGroup
  <2>. QED  BY <2>1, <2>2, <2>4, <2>5, <2>6 DEF Next, CallStep
<1>. QED  BY <1>1, <1>2, PTL DEF BatchSpec

\* What a call refuses and what its tables say agree, whichever passes fail:
\* a shape's tables are answered all or none, and the reads refused are those
\* that would be alone and those of the shapes without answers
\* (kernels.py, `bands_many`).
THEOREM RefusedAsTheirTablesSay == BatchSpec => []RefusedWithItsShape
<1>1. Init => Batched
  BY BatchedInit
<1>2. Batched /\ [Next]_vars => Batched'
  BY BatchedStep
<1>3. Batched => RefusedWithItsShape
  <2>. SUFFICES ASSUME Batched, pc = "done" PROVE RefusedWithItsShape
    BY DEF RefusedWithItsShape
  <2>1. {tables[t].shape : t \in {t \in DOMAIN tables : answered[t] = None}} = Failed
    BY DEF Batched, Refusing, Failed
  <2>. QED  BY <2>1 DEF Batched, Refusing, RefusedWithItsShape
<1>. QED  BY <1>1, <1>2, <1>3, PTL DEF BatchSpec

=============================================================================
