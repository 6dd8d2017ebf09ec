----------------------------- MODULE FairQueue -----------------------------
(***************************************************************************)
(* What the owner promises its callers, without lock, cells or cycles.     *)
(*                                                                         *)
(* Each caller has a line of its own.  A request joins its end or is       *)
(* turned away; a line is heard from its front, and no line that has       *)
(* somebody in it is left unheard for ever, whatever the others send.      *)
(***************************************************************************)
EXTENDS Sequences

CONSTANTS Callers, Jobs, CallerOf

VARIABLES
    line,     \* caller -> its requests that are still to be heard, oldest first
    future    \* request slot -> what its client knows of its last request

vars == <<line, future>>

Told == {"answered", "refused", "failed"}

Init ==
    /\ line = [c \in Callers |-> <<>>]
    /\ future = [j \in Jobs |-> "idle"]

Join(j) ==
    /\ future[j] # "pending"
    /\ line' = [line EXCEPT ![CallerOf[j]] = Append(@, j)]
    /\ future' = [future EXCEPT ![j] = "pending"]

\* For being too large at any time; for a busy queue only while somebody waits.
TurnAway(j) ==
    /\ future[j] # "pending"
    /\ \/ future' = [future EXCEPT ![j] = "too large"]
       \/ /\ \E c \in Callers : line[c] # <<>>
          /\ future' = [future EXCEPT ![j] = "busy"]
    /\ UNCHANGED line

Hear(c) ==
    /\ line[c] # <<>>
    /\ line' = [line EXCEPT ![c] = Tail(@)]
    /\ \E outcome \in Told : future' = [future EXCEPT ![Head(line[c])] = outcome]

Next ==
    \/ \E j \in Jobs : Join(j) \/ TurnAway(j)
    \/ \E c \in Callers : Hear(c)

\* Whatever is heard is heard in order, and nobody in a line is lost.
InOrder == Init /\ [][Next]_vars

\* And everybody in a line is heard.
Spec == InOrder /\ \A c \in Callers : WF_vars(Hear(c))

=============================================================================
