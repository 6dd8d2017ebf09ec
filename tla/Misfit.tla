------------------------------- MODULE Misfit -------------------------------
(***************************************************************************)
(* The chain-rule density's plan (kernels.py, `misfit`): which conditional *)
(* is fitted on what, in which order the noise is drawn, and how a frame   *)
(* is split so that no row is in the context that scores it.  Columns and  *)
(* rows are counted from 1.                                                *)
(***************************************************************************)
EXTENDS Integers, SequencesExt

\* The default orderings: as the columns come, and back.
perms(cols) == <<[c \in 1 .. cols |-> c], [c \in 1 .. cols |-> cols + 1 - c]>>

\* What the i-th column of an ordering is conditioned on.
Cond(perm, i) == SubSeq(perm, 1, i - 1)

TaskAnyway(pi, perm, i, fit) == <<[pi |-> pi, col |-> perm[i], cond |-> Cond(perm, i)]>>  \* faulty: few values or not

\* A column with too few values is not fitted.
Task(pi, perm, i, fit) ==
    IF perm[i] \notin fit THEN <<>> ELSE <<[pi |-> pi, col |-> perm[i], cond |-> Cond(perm, i)]>>

\* The conditionals in the package's loop order, one list however many
\* threads compute them: the pool's `map` gives the results in this order.
tasks(orderings, fit) ==
    FlattenSeq([pi \in DOMAIN orderings |->
                  FlattenSeq([i \in DOMAIN orderings[pi] |-> Task(pi, orderings[pi], i, fit)])])

\* The noise is drawn for the tasks that have nothing to condition on.
Noisy(orderings, fit) ==
    {k \in DOMAIN tasks(orderings, fit) : tasks(orderings, fit)[k].cond = <<>>}

\* The conditionals a score is summed from, an ordering at a time, and a
\* column's part in it; none is NaN.
Sums(orderings, fit, pi) == {k \in DOMAIN tasks(orderings, fit) : tasks(orderings, fit)[k].pi = pi}

Share(orderings, fit, pi, col) ==
    {k \in DOMAIN tasks(orderings, fit) :
        tasks(orderings, fit)[k].pi = pi /\ tasks(orderings, fit)[k].col = col}

-----------------------------------------------------------------------------
(* Folds. *)

Refused(rows, folds) == folds > 1 /\ rows < 2 * folds

OutInRuns(order, f, folds) ==  \* faulty: as many rows in a run, the last forgotten
    LET run == Len(order) \div folds IN {order[k] : k \in f * run + 1 .. (f + 1) * run}

\* Fold f's rows, f from 0: every so many of the shuffled order.
Out(order, f, folds) == {order[k] : k \in {k \in DOMAIN order : (k - 1) % folds = f}}

Rest(order, f, folds) == ToSet(order) \ Out(order, f, folds)

-----------------------------------------------------------------------------
(* What is asked of them. *)

\* Over the default orderings every fitted column is conditioned on every
\* other exactly once, early in one and late in the other, and never on
\* itself; an ordering draws noise at most once, for its first column.
ConditionsOnceOnEach(cols, fit) ==
    LET plan == tasks(perms(cols), fit)
    IN  /\ \A c \in fit, d \in 1 .. cols :
              Cardinality({k \in DOMAIN plan : plan[k].col = c /\ d \in ToSet(plan[k].cond)})
                  = IF c = d THEN 0 ELSE 1
        /\ \A j, k \in Noisy(perms(cols), fit) : j # k => plan[j].pi # plan[k].pi

\* "A row's shares sum to its score": in every ordering each conditional is
\* one column's share, and a column that is not fitted has no share in any,
\* so the mean over the orderings is of all of them or of none.
SharesAreTheScore(cols, fit) ==
    LET all == perms(cols)
    IN  \A pi \in DOMAIN all :
          /\ Sums(all, fit, pi) = UNION {Share(all, fit, pi, c) : c \in fit}
          /\ \A c \in 1 .. cols : Cardinality(Share(all, fit, pi, c)) = IF c \in fit THEN 1 ELSE 0

\* A frame that is not refused has every row scored once, from a context it
\* is not in; and no part is refused for being small.
FoldsHoldOut(order, folds) ==
    ~Refused(Len(order), folds) =>
        /\ \A r \in ToSet(order) : Cardinality({f \in 0 .. folds - 1 : r \in Out(order, f, folds)}) = 1
        /\ \A f \in 0 .. folds - 1 :
              /\ Cardinality(Out(order, f, folds)) >= 2
              /\ folds > 1 => Cardinality(Rest(order, f, folds)) >= 2
              /\ Out(order, f, folds) \intersect Rest(order, f, folds) = {}

=============================================================================
