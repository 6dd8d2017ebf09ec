------------------------------- MODULE Batch -------------------------------
(***************************************************************************)
(* Many reads at once (kernels.py, `bands_many`, and prepare.py).  Reads   *)
(* are checked, prepared into tables by a pool of processes, the tables of *)
(* one shape stacked and sent through the model some at a time, and what   *)
(* comes back is cut apart again, read by read.  Four regroupings lie      *)
(* between a read and its answer; any read may be refused on the way.      *)
(*                                                                         *)
(* The numbers are left out: a view is a table's member, and its answer is *)
(* which view was read and at whose levels.                                *)
(***************************************************************************)
EXTENDS Integers, SequencesExt

CONSTANTS
    Kinds,          \* what a read may be
    Ensembles,      \* numbers of members
    Shapes,         \* the shapes of tables
    CellsIn,        \* shape -> the cells of one table
    MaxReads,       \* the longest list of reads
    TablesPerPass, CellsPerPass,
    Workers,        \* the processes that prepare
    PoolFrom,       \* fewer reads are prepared in line
    ChunksPerWorker,
    None

\* Beside its shape and levels: whether the kernel's own check passes it,
\* whether a column varies, and whether the package prepares it.
ASSUME BatchAssumption ==
    /\ Kinds \subseteq [shape : Shapes, levels : STRING, fits : BOOLEAN, varies : BOOLEAN, prepares : BOOLEAN]
    /\ Ensembles \subseteq Nat \ {0}
    /\ CellsIn \in [Shapes -> Nat \ {0}]
    /\ {MaxReads, TablesPerPass, CellsPerPass, ChunksPerWorker} \subseteq Nat \ {0}
    /\ Workers \in Nat /\ PoolFrom \in Nat \ {0}

\* The answer for one view: which it is, and at whose levels it was read.
Answers == [view : [read : 1 .. MaxReads, view : Nat \ {0}], at : STRING]

\* What a table without answers has in their place is not a list of answers.
ASSUME NoneIsNoAnswer == \A m \in Ensembles : \A n \in 1 .. m : None \notin [1 .. n -> Answers]

VARIABLES
    pool,                      \* the process pool: none yet, up or broken
    pc,                        \* where the call is
    reads, members, refusals,  \* its arguments
    refused,                   \* the reads refused so far
    chunks,                    \* the chunks the workers have prepared
    tables,                    \* (read, its views of one pipeline), in the reads' order
    todo,                      \* the shapes whose groups are still to be passed
    lo,                        \* where the group's next pass begins
    rows,                      \* `answered_rows` of the group: place in the stack -> answer
    answered,                  \* table -> its views' answers, or None
    results

args  == <<reads, members, refusals>>
group == <<todo, lo, rows, answered>>
vars  == <<pool, pc, args, refused, chunks, tables, group, results>>

-----------------------------------------------------------------------------
(* The checks, and the package's preparation of one read. *)

Indices == DOMAIN reads

\* An ensemble needs a column that varies.
Passes(i) == reads[i].fits /\ (members > 1 => reads[i].varies)

sound == FlattenSeq([i \in Indices |-> IF Passes(i) THEN <<i>> ELSE <<>>])

\* The package makes a table per pipeline, its share of the members as views.
Pipelines == IF members = 1 THEN <<1>> ELSE <<(members + 1) \div 2, members \div 2>>

ViewsOf(i, p) ==
    LET before == IF p = 1 THEN 0 ELSE Pipelines[1]
    IN  [v \in 1 .. Pipelines[p] |-> [read |-> i, view |-> before + v]]

prepare(i) ==
    IF reads[i].prepares
    THEN [p \in DOMAIN Pipelines |-> [read |-> i, shape |-> reads[i].shape, views |-> ViewsOf(i, p)]]
    ELSE <<>>

-----------------------------------------------------------------------------
(* The pool. *)

Pooled == Workers >= 2 /\ Len(sound) >= PoolFrom

ChunkSize == LET n == Len(sound) \div (Workers * ChunksPerWorker) IN IF n < 1 THEN 1 ELSE n

\* Chunk c of the sound reads; the last may be shorter.
ChunkCount == (Len(sound) + ChunkSize - 1) \div ChunkSize

Chunk(c) ==
    LET end == c * ChunkSize
    IN  SubSeq(sound, (c - 1) * ChunkSize + 1, IF end < Len(sound) THEN end ELSE Len(sound))

\* What the package made of the sound reads, whoever prepared them.
Prepared == IF Pooled THEN FlattenSeq([c \in 1 .. ChunkCount |-> Chunk(c)]) ELSE sound

Made == FlattenSeq([k \in DOMAIN Prepared |-> prepare(Prepared[k])])

-----------------------------------------------------------------------------
(* The groups. *)

\* The first table's shape among those still to be passed.
GroupKey ==
    LET t == CHOOSE t \in DOMAIN tables :
                /\ tables[t].shape \in todo
                /\ \A s \in DOMAIN tables : tables[s].shape \in todo => t <= s
    IN  tables[t].shape

\* What the first n tables put into the stack of shape g.
StackOf(g, n) ==
    FlattenSeq([t \in 1 .. n |-> IF tables[t].shape = g THEN tables[t].views ELSE <<>>])

Stacked(g) == StackOf(g, Len(tables))

\* Where in its group's stack the views of table t stand.
Span(t) == [from |-> Len(StackOf(tables[t].shape, t - 1)) + 1, to |-> Len(StackOf(tables[t].shape, t))]

\* As many tables a pass as saturate the device, fewer as they grow.
PerPass(g) ==
    LET fit == CellsPerPass \div CellsIn[g]
        few == IF fit < TablesPerPass THEN fit ELSE TablesPerPass
    IN  IF few < 1 THEN 1 ELSE few

PassEnd(g, stack) == IF lo + PerPass(g) < Len(stack) THEN lo + PerPass(g) ELSE Len(stack)

-----------------------------------------------------------------------------
Init ==
    /\ pool = "none"
    /\ pc = "idle"
    /\ reads = <<>> /\ members \in Ensembles /\ refusals \in BOOLEAN
    /\ refused = {} /\ chunks = {} /\ tables = <<>>
    /\ todo = {} /\ lo = 0 /\ rows = <<>> /\ answered = <<>>
    /\ results = <<>>

\* A thread starts the pool at the first use of the kernel.
Warm ==
    /\ Workers >= 2 /\ pool = "none"
    /\ pool' = "up"
    /\ UNCHANGED <<pc, args, refused, chunks, tables, group, results>>

\* A process of the pool dies: the executor is broken, for good.  (One that
\* dies idle is found dead by the next map.)
WorkerDies ==
    /\ pc = "map" /\ pool = "up" /\ pool' = "broken"
    /\ UNCHANGED <<pc, args, refused, chunks, tables, group, results>>

Call ==
    /\ pc = "idle"
    /\ reads' \in UNION {[1 .. n -> Kinds] : n \in 1 .. MaxReads}
    /\ members' \in Ensembles /\ refusals' \in BOOLEAN
    /\ pc' = "check"
    /\ UNCHANGED <<pool, refused, chunks, tables, group, results>>

\* Without `refusals` the first refusal is raised.
Raised == refused' # {} /\ ~refusals

Check ==
    /\ pc = "check"
    /\ refused' = {i \in Indices : ~Passes(i)}
    /\ pc' = IF Raised THEN "raised" ELSE "prepare"
    /\ UNCHANGED <<pool, args, chunks, tables, group, results>>

\* What was prepared, or refused by the package, becomes tables and groups.
Collect ==
    /\ refused' = refused \union {i \in ToSet(sound) : ~reads[i].prepares}
    /\ tables' = Made
    /\ todo' = {tables'[t].shape : t \in DOMAIN tables'}
    /\ answered' = [t \in DOMAIN tables' |-> None]
    /\ pc' = IF Raised THEN "raised" ELSE "pass"
    /\ UNCHANGED <<args, lo, rows, results>>

PrepareInLine ==
    /\ pc = "prepare" /\ ~Pooled
    /\ Collect
    /\ UNCHANGED <<pool, chunks>>

\* The pool is made once, under a lock, and kept.
MapOverPool ==
    /\ pc = "prepare" /\ Pooled
    /\ pool' = IF pool = "none" THEN "up" ELSE pool
    /\ pc' = "map"
    /\ UNCHANGED <<args, refused, chunks, tables, group, results>>

WorkerPrepares(c) ==
    /\ pc = "map" /\ pool = "up" /\ c \notin chunks
    /\ chunks' = chunks \union {c}
    /\ UNCHANGED <<pool, pc, args, refused, tables, group, results>>

PoolAnswers ==
    /\ pc = "map" /\ chunks = 1 .. ChunkCount
    /\ Collect
    /\ UNCHANGED <<pool, chunks>>

PoolRaises ==
    /\ pc = "map" /\ pool = "broken" /\ chunks # 1 .. ChunkCount
    /\ pc' = "raised"
    /\ UNCHANGED <<pool, args, refused, chunks, tables, group, results>>

-----------------------------------------------------------------------------
\* `owner`: the read of each stacked table, laid beside the stack.
Owner(g) ==
    FlattenSeq([t \in DOMAIN tables |->
                  IF tables[t].shape = g THEN [v \in DOMAIN tables[t].views |-> tables[t].read] ELSE <<>>])

AtTheFirstOnes(owner, k) == reads[owner[k]].levels  \* faulty: the pass's slice of `owner` forgotten

\* The levels the pass's row k asks.
LevelsAt(owner, k) == reads[owner[lo + k]].levels

\* `by_levels`: of a pass of n rows, in order, those that ask these levels.
RowsAsking(owner, n, asked) ==
    FlattenSeq([k \in 1 .. n |-> IF LevelsAt(owner, k) = asked THEN <<k>> ELSE <<>>])

\* The answers of a pass, put at their places in the stack: the rows that ask
\* the same levels are read off together, and each has its slot's answer.
Told(upto, stack, owner) ==
    LET raw == SubSeq(stack, lo + 1, upto)
        AnswerOf(row) ==
            LET asked == LevelsAt(owner, row)
                mine == RowsAsking(owner, upto - lo, asked)
                q == [slot \in DOMAIN mine |-> [view |-> raw[mine[slot]], at |-> asked]]
            IN  q[CHOOSE slot \in DOMAIN mine : mine[slot] = row]
    IN  [r \in DOMAIN rows \union (lo + 1 .. upto) |->
            IF r \in DOMAIN rows THEN rows[r] ELSE AnswerOf(r - lo)]

InGroup == pc = "pass" /\ todo # {}

Pass ==
    /\ InGroup
    /\ LET g == GroupKey
           stack == Stacked(g)
       IN  /\ lo < Len(stack)
           /\ rows' = Told(PassEnd(g, stack), stack, Owner(g))
           /\ lo' = lo + PerPass(g)
    /\ UNCHANGED <<pool, pc, args, refused, chunks, tables, todo, answered, results>>

PlacesOf(g) == DOMAIN Owner(g)  \* faulty: places in the stack, not reads

OwnersFromHere(g) == {Owner(g)[r] : r \in lo + 1 .. Len(Owner(g))}  \* faulty: those not answered yet

\* The reads of a group.
OwnersOf(g) == ToSet(Owner(g))

NextGroup == todo' = todo \ {GroupKey} /\ lo' = 0 /\ rows' = <<>>

\* A pass that raises refuses every read of its group, whatever earlier
\* passes of the group have answered.
PassRaises ==
    /\ InGroup /\ lo < Len(Stacked(GroupKey))
    /\ refused' = refused \union OwnersOf(GroupKey)
    /\ NextGroup
    /\ pc' = IF Raised THEN "raised" ELSE pc
    /\ UNCHANGED <<pool, args, chunks, tables, answered, results>>

Scatter ==
    /\ InGroup /\ lo >= Len(Stacked(GroupKey))
    /\ answered' = [t \in DOMAIN tables |->
                      IF tables[t].shape # GroupKey THEN answered[t]
                      ELSE LET s == Span(t) IN [v \in 1 .. s.to - s.from + 1 |-> rows[s.from + v - 1]]]
    /\ NextGroup
    /\ UNCHANGED <<pool, pc, args, refused, chunks, tables, results>>

\* A read's answers, its tables in order.
MineOf(i) ==
    FlattenSeq([t \in DOMAIN tables |->
                  IF tables[t].read = i /\ answered[t] # None THEN answered[t] ELSE <<>>])

Finish ==
    /\ pc = "pass" /\ todo = {}
    /\ results' = [i \in Indices |-> IF i \in refused THEN None ELSE MineOf(i)]
    /\ pc' = "done"
    /\ UNCHANGED <<pool, args, refused, chunks, tables, group>>

Return ==
    /\ pc \in {"done", "raised"} /\ pc' = "idle"
    /\ reads' = <<>> /\ refused' = {} /\ chunks' = {} /\ tables' = <<>>
    /\ todo' = {} /\ lo' = 0 /\ rows' = <<>> /\ answered' = <<>> /\ results' = <<>>
    /\ UNCHANGED <<pool, members, refusals>>

-----------------------------------------------------------------------------
CallStep ==
    \/ Check \/ PrepareInLine \/ MapOverPool \/ PoolAnswers \/ PoolRaises
    \/ (\E c \in 1 .. ChunkCount : WorkerPrepares(c))
    \/ Pass \/ PassRaises \/ Scatter \/ Finish \/ Return

Next == Warm \/ WorkerDies \/ Call \/ CallStep

BatchSpec == Init /\ [][Next]_vars

-----------------------------------------------------------------------------
(* Properties. *)

\* Types; and that a table's answers are looked up only at places a pass has
\* answered.
BatchTypeOK ==
    /\ pool \in {"none", "up", "broken"}
    /\ pc \in {"idle", "check", "prepare", "map", "pass", "done", "raised"}
    /\ reads \in Seq(Kinds) /\ members \in Ensembles /\ refusals \in BOOLEAN
    /\ refused \subseteq Indices /\ chunks \subseteq Nat
    /\ \A t \in DOMAIN tables : tables[t].read \in Indices /\ tables[t].shape = reads[tables[t].read].shape
    /\ todo \subseteq Shapes /\ lo \in Nat
    /\ \A r \in DOMAIN rows : rows[r] \in Answers
    /\ \A t \in DOMAIN answered : answered[t] = None \/ answered[t] \in Seq(Answers)

\* Through chunks, groups, stacks and passes, a read that is not refused has
\* the answer of each of its own views, once and in the members' order, at
\* the levels it asked: what it would have had alone.
OwnViewsOwnLevels ==
    pc = "done" =>
        \A i \in Indices \ refused :
            results[i] = [v \in 1 .. members |-> [view |-> [read |-> i, view |-> v], at |-> reads[i].levels]]

\* A call's refusals and its tables agree: a shape's tables are answered all
\* or none, whichever of its passes failed, and refused are the reads that
\* would be alone and those of the shapes left without answers, no other.
\* (A caller's read is so refused for another's of its shape.)
RefusedWithItsShape ==
    pc = "done" =>
        LET failed == {tables[t].shape : t \in {t \in DOMAIN tables : answered[t] = None}}
        IN  /\ \A t \in DOMAIN tables : tables[t].shape \in failed => answered[t] = None
            /\ refused = {i \in Indices : ~(Passes(i) /\ reads[i].prepares) \/ reads[i].shape \in failed}

\* What README.md says of a cycle that fails, "fails its own callers": the
\* next is served.  (A pool once broken is handed every later call.)
PoolServesNextCall ==
    [][pc = "prepare" /\ pc' = "map" => pool' = "up"]_vars

=============================================================================
