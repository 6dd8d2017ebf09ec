---------------------------- MODULE OwnerPromise ----------------------------
(***************************************************************************)
(* The owner keeps the promise of FairQueue: a caller's line is the part   *)
(* of the cycle that has not heard yet, then its queue.                    *)
(***************************************************************************)
EXTENDS Owner

\* Caller c's own among the jobs of s, in their order.
OwnOf(s, c) == FlattenSeq([k \in DOMAIN s |-> IF CallerOf[s[k]] = c THEN <<s[k]>> ELSE <<>>])

LineOf(c) == OwnOf(SubSeq(taken, at, Len(taken)), c) \o waiting[c]

Line == [c \in Callers |-> LineOf(c)]

Promise == INSTANCE FairQueue WITH line <- Line

\* Per caller first come first heard, over the cycle's order, its rounds and
\* its failures, and every caller heard again and again while it waits.
KeepsPromise == Promise!Spec

=============================================================================
