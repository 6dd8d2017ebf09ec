------------------------------ MODULE Contexts ------------------------------
(***************************************************************************)
(* The contexts kept between requests (contexts.py): a cache in the        *)
(* device's memory with a budget, a share of it per caller, and the least  *)
(* recently read giving way.  Only the owner's thread touches it, so an    *)
(* operation is never interleaved with another; `put` and `drop` are       *)
(* nevertheless taken one eviction at a time, because their loops are what *)
(* has to be right, and the budget is passed while a put runs.             *)
(***************************************************************************)
EXTENDS Integers, SequencesExt, Amounts

CONSTANTS
    Callers,
    Ids,          \* what `context_id` makes of rows, members and model
    Estimators,   \* what a context is kept as, fitted to its rows
    Sizes,        \* what a built context may take (nbytes)
    Budget,       \* of the whole cache
    Share,        \* of one caller (budget * caller_share)
    None

ASSUME ContextsAssumption ==
    /\ Sizes \subseteq Nat \ {0}
    /\ Budget \in Nat /\ Share \in Nat
    /\ 2 * Share <= Budget              \* the default share, which nothing changes
    /\ None \notin Callers \union [caller : Callers, id : Ids, fitted : Estimators, nbytes : Sizes]

VARIABLES
    held,         \* `_held` in the OrderedDict's order, least recently read first
    putting,      \* the entry whose put is still making room, or None
    dropping      \* the caller whose entries are being dropped, or None

vars == <<held, putting, dropping>>

-----------------------------------------------------------------------------
Entry == [caller : Callers, id : Ids, fitted : Estimators, nbytes : Sizes]

Held     == ToSet(held)
HeldBy(c) == {e \in Held : e.caller = c}

\* The bytes of a set of entries.
Weight(S) == Amount(S, [e \in S |-> e.nbytes])

nbytes == Weight(Held)
of(c)  == Weight(HeldBy(c))

\* Where a key stands; keys are the pair of the caller and the id.
AtById(c, i) == {k \in DOMAIN held : held[k].id = i}  \* faulty: whose it is is not asked

At(c, i) == {k \in DOMAIN held : held[k].caller = c /\ held[k].id = i}

has(c, i) == At(c, i) # {}

Without(k) == RemoveAt(held, k)

EvictedToEnd(k) == Append(Without(k), held[k])  \* faulty: moved, not deleted

Evicted(k) == Without(k)

NewestOf(c) ==  \* faulty: gives way from the wrong end
    CHOOSE k \in DOMAIN held :
        /\ held[k].caller = c
        /\ \A m \in DOMAIN held : held[m].caller = c => m <= k

OldestOf(c) == CHOOSE k \in DOMAIN held :
                 /\ held[k].caller = c
                 /\ \A m \in DOMAIN held : held[m].caller = c => k <= m

-----------------------------------------------------------------------------
Init == held = <<>> /\ putting = None /\ dropping = None

\* No call is running.
Free == putting = None /\ dropping = None

Get(c, i) ==
    /\ Free
    /\ \E k \in At(c, i) : held' = Append(Without(k), held[k])
    /\ UNCHANGED <<putting, dropping>>

PutBeside(e) == Append(held, e)  \* faulty: the key's old entry stays

\* A key already there is overwritten; either way the entry goes last.
PutLast(e) ==
    LET there == At(e.caller, e.id)
    IN  Append(IF there = {} THEN held ELSE Without(CHOOSE k \in there : TRUE), e)

Put(e) ==
    /\ Free
    /\ held' = PutLast(e)
    /\ putting' = e
    /\ UNCHANGED dropping

OverShareOfAll(c) == of(c) > Budget  \* faulty: the share is not looked at

OverShare(c) == of(c) > Share
OverBudget   == nbytes > Budget

\* "The caller's own oldest give way first, then anyone's."
EvictOwn ==
    /\ putting # None /\ OverShare(putting.caller)
    /\ held' = Evicted(OldestOf(putting.caller))
    /\ UNCHANGED <<putting, dropping>>

EvictOldest ==
    /\ putting # None /\ ~OverShare(putting.caller) /\ OverBudget
    /\ held' = Evicted(1)
    /\ UNCHANGED <<putting, dropping>>

PutDone ==
    /\ putting # None /\ ~OverShare(putting.caller) /\ ~OverBudget
    /\ putting' = None
    /\ UNCHANGED <<held, dropping>>

\* Everything a caller has here: its offboarding, or its wish.
Drop(c) == Free /\ dropping' = c /\ UNCHANGED <<held, putting>>

DropOne ==
    /\ dropping # None /\ HeldBy(dropping) # {}
    /\ held' = Evicted(OldestOf(dropping))
    /\ UNCHANGED <<putting, dropping>>

DropDone ==
    /\ dropping # None /\ HeldBy(dropping) = {}
    /\ dropping' = None
    /\ UNCHANGED <<held, putting>>

\* A loop's next step.
LoopStep == EvictOwn \/ EvictOldest \/ PutDone \/ DropOne \/ DropDone

Next ==
    \/ \E c \in Callers, i \in Ids : Get(c, i)
    \/ \E e \in Entry : Put(e)
    \/ \E c \in Callers : Drop(c)
    \/ LoopStep

CacheSpec == Init /\ [][Next]_vars

\* The loops are run to their end.
FairCacheSpec == CacheSpec /\ WF_vars(LoopStep)

-----------------------------------------------------------------------------
(* Properties. *)

\* Types, and that a caller and an id name at most one entry.
CacheTypeOK ==
    /\ held \in Seq(Entry)
    /\ putting \in Entry \union {None} /\ dropping \in Callers \union {None}
    /\ putting = None \/ dropping = None
    /\ \A k, m \in DOMAIN held :
          held[k].caller = held[m].caller /\ held[k].id = held[m].id => k = m

\* Between puts the cache is within its budget and every caller within its
\* share; during one, only the caller that puts may be past its share.
WithinShares ==
    /\ \A c \in Callers : of(c) > Share => putting # None /\ putting.caller = c
    /\ putting = None => nbytes <= Budget

\* What was just put, if a share can hold it, is the most recent entry still,
\* whatever its put evicted: the read that built it goes on to `get` it.
JustPutStays ==
    (putting # None /\ putting.nbytes <= Share)
        => held # <<>> /\ held[Len(held)] = putting

\* A put never passes its own entry to reach another caller's, and two
\* callers cannot push one another out: another caller's entry gives way
\* only while a third holds something.
EvictsAnotherOnlyForThree ==
    [][\A e \in Held \ Held' :
          (putting # None /\ e.caller # putting.caller)
              => \E f \in Held : f.caller \notin {e.caller, putting.caller}]_vars

\* A call ends: its loops always find something to evict.
CallsEnd == ~Free ~> Free

=============================================================================
