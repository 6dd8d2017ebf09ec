------------------------------- MODULE MCOwner -------------------------------
(***************************************************************************)
(* Three callers.  `a` may flood: its slots together pass its share, one   *)
(* is a misfit that runs alone and two ride in one cycle in two rounds.    *)
(* `b` asks for another ensemble size.  `c` has a request larger than a    *)
(* cycle's budget but not than its share, and one too large for that.      *)
(***************************************************************************)
EXTENDS OwnerPromise

MCCallers == {"a", "b", "c"}

Slots == [a1 |-> [caller |-> "a", kind |-> "misfit", members |-> 1, cells |-> 2],
          a2 |-> [caller |-> "a", kind |-> "bands",  members |-> 1, cells |-> 2],
          a3 |-> [caller |-> "a", kind |-> "bands",  members |-> 1, cells |-> 1],
          b2 |-> [caller |-> "b", kind |-> "bands",  members |-> 2, cells |-> 1],
          c1 |-> [caller |-> "c", kind |-> "bands",  members |-> 1, cells |-> 4],
          c2 |-> [caller |-> "c", kind |-> "bands",  members |-> 1, cells |-> 5]]

MCJobs      == DOMAIN Slots
MCCallerOf  == [j \in Jobs |-> Slots[j].caller]
MCKindOf    == [j \in Jobs |-> Slots[j].kind]
MCMembersOf == [j \in Jobs |-> Slots[j].members]
MCCellsOf   == [j \in Jobs |-> Slots[j].cells]

=============================================================================
