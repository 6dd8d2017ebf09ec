------------------------------- MODULE Owner -------------------------------
(***************************************************************************)
(* The device's owner and its bounded queue (owner.py).                    *)
(*                                                                         *)
(* Request handlers hand the owner a job and await its future; one thread  *)
(* takes what is waiting, callers in turn up to a budget of cells, and     *)
(* answers it in one cycle.  A job here is a slot: a client that sends one *)
(* shape of request for one caller and, once it has heard, may send it     *)
(* again, so a caller can keep the queue full for ever.                    *)
(*                                                                         *)
(* The lock (the condition `_wake`) is held by the owner from the moment   *)
(* it wakes until its take is done, and by a handler for the whole of      *)
(* `_admit`; so `_admit` is one action, and the loops of `_take` are steps *)
(* during which no handler runs.                                           *)
(***************************************************************************)
EXTENDS Integers, SequencesExt, Amounts

CONSTANTS
    Callers,      \* who may ask
    Jobs,         \* the request slots
    CallerOf,     \* slot -> its caller
    KindOf,       \* slot -> "bands", or an exclusive job's name
    MembersOf,    \* slot -> the ensemble's size (one pass serves one size)
    CellsOf,      \* slot -> what it holds; the door refuses an empty array
    MaxCells,     \* what may wait in all
    ShareCells,   \* what one caller may have waiting (max_cells * caller_share)
    CycleCells,   \* the budget of one cycle
    StatCap       \* where the model stops counting (the code's counters do not)

ASSUME OwnerAssumption ==
    /\ IsFiniteSet(Jobs)
    /\ CallerOf \in [Jobs -> Callers]
    /\ KindOf \in [Jobs -> STRING]
    /\ MembersOf \in [Jobs -> Nat \ {0}]
    /\ CellsOf \in [Jobs -> Nat \ {0}]
    /\ MaxCells \in Nat \ {0} /\ CycleCells \in Nat \ {0}
    /\ StatCap \in Nat

\* Owner.__init__'s default share, which the service does not change.
ASSUME HalfShare == ShareCells \in Nat /\ 2 * ShareCells <= MaxCells

VARIABLES
    waiting,      \* caller -> its waiting jobs, oldest first (absent key: <<>>)
    order,        \* the keys of `_waiting`, in the OrderedDict's order
    cells,        \* `_cells`
    cellsOf,      \* `_cells_of` (absent key: 0)
    future,       \* slot -> what its client knows of its last request
    pc,           \* where the owner's thread is
    turns,        \* the callers still to visit in this round of `_take`
    progressed,   \* whether this round has taken a job
    taken,        \* the jobs of the cycle
    budget,       \* what is left of the cycle's budget
    at,           \* the next of `taken` to be told
    failed,       \* whether this cycle failed
    stats         \* the counters /healthz reports

queueVars == <<waiting, order, cells, cellsOf>>
takeVars  == <<turns, progressed, taken, budget>>
vars      == <<queueVars, takeVars, future, pc, at, failed, stats>>

-----------------------------------------------------------------------------
Told     == {"answered", "refused", "failed"}           \* a resolved future
TurnedAway == {"busy", "too large"}                     \* no future was made
Statuses == {"idle", "pending"} \union Told \union TurnedAway

InLock  == {"look", "round", "turn"}                    \* the owner holds `_wake`
Serving == {"serve", "answer", "fail", "publish"}       \* inside a cycle, lock free

Bands(j) == KindOf[j] = "bands"

WaitingOf(c) == ToSet(waiting[c])
Waiting      == UNION {WaitingOf(c) : c \in Callers}

\* The cells a set of jobs holds.
Weight(S) == Amount(S, CellsOf)

\* The jobs of the cycle whose futures are still to be resolved.
Unheard == {taken[i] : i \in {k \in DOMAIN taken : k >= at}}

BumpDown(n, by) == n - by  \* faulty: counts the wrong way

Bump(n, by) == IF n + by < StatCap THEN n + by ELSE StatCap

-----------------------------------------------------------------------------
Init ==
    /\ waiting = [c \in Callers |-> <<>>]
    /\ order = <<>>
    /\ cells = 0
    /\ cellsOf = [c \in Callers |-> 0]
    /\ future = [j \in Jobs |-> "idle"]
    /\ pc = "lock"
    /\ turns = <<>> /\ progressed = FALSE /\ taken = <<>> /\ budget = 0
    /\ at = 1 /\ failed = FALSE
    /\ stats = [cycles |-> 0, jobs |-> 0, refused_busy |-> 0,
                largest_cycle_jobs |-> 0, failed |-> 0]

-----------------------------------------------------------------------------
(* The callers' side. *)

\* A handler may enter `_admit`: its client is not waiting, the lock is free.
MaySubmit(j) == future[j] # "pending" /\ pc \notin InLock

Tell(j, status) == future' = [future EXCEPT ![j] = status]

FitsShareOnly(j) ==  \* faulty: the whole queue's bound dropped
    cellsOf[CallerOf[j]] + CellsOf[j] <= ShareCells

Fits(j) ==
    LET c == CallerOf[j]
    IN  cells + CellsOf[j] <= MaxCells /\ cellsOf[c] + CellsOf[j] <= ShareCells

RefuseTooLarge(j) ==
    /\ MaySubmit(j) /\ CellsOf[j] > ShareCells
    /\ Tell(j, "too large")
    /\ UNCHANGED <<queueVars, takeVars, pc, at, failed, stats>>

RefuseBusy(j) ==
    /\ MaySubmit(j) /\ CellsOf[j] <= ShareCells /\ ~Fits(j)
    /\ Tell(j, "busy")
    /\ stats' = [stats EXCEPT !.refused_busy = Bump(@, 1)]
    /\ UNCHANGED <<queueVars, takeVars, pc, at, failed>>

ChargeTotalOnly(c, by) ==  \* faulty: the caller's own counter forgotten
    cells' = cells + by /\ UNCHANGED cellsOf

\* Both counters move together: by a job's cells on the way in, back on the way out.
Charge(c, by) ==
    /\ cells' = cells + by
    /\ cellsOf' = [cellsOf EXCEPT ![c] = @ + by]

NotWoken == pc  \* faulty: no notify

\* `notify`: the owner, if it sleeps, is woken and must take the lock again.
Woken == IF pc = "asleep" THEN "lock" ELSE pc

JoinedFirst(c) ==  \* faulty: the late caller goes ahead of everybody
    IF waiting[c] = <<>> THEN <<c>> \o order ELSE order

\* A new caller goes to the end of the turn.
Joined(c) == IF waiting[c] = <<>> THEN Append(order, c) ELSE order

Admit(j) ==
    LET c == CallerOf[j]
    IN  /\ MaySubmit(j) /\ CellsOf[j] <= ShareCells /\ Fits(j)
        /\ waiting' = [waiting EXCEPT ![c] = Append(@, j)]
        /\ order' = Joined(c)
        /\ Charge(c, CellsOf[j])
        /\ Tell(j, "pending")
        /\ pc' = Woken
        /\ UNCHANGED <<takeVars, at, failed, stats>>

-----------------------------------------------------------------------------
(* The owner's side: waking and taking, under the lock. *)

Acquire ==
    /\ pc = "lock"
    /\ pc' = "look"
    /\ UNCHANGED <<queueVars, takeVars, future, at, failed, stats>>

Sleep ==
    /\ pc = "look" /\ order = <<>>
    /\ pc' = "asleep"
    /\ UNCHANGED <<queueVars, takeVars, future, at, failed, stats>>

BeginTake ==
    /\ pc = "look" /\ order # <<>>
    /\ taken' = <<>> /\ budget' = CycleCells
    /\ pc' = "round"
    /\ UNCHANGED <<queueVars, turns, progressed, future, at, failed, stats>>

BeginRound ==
    /\ pc = "round" /\ order # <<>>
    /\ turns' = order /\ progressed' = FALSE
    /\ pc' = "turn"
    /\ UNCHANGED <<queueVars, taken, budget, future, at, failed, stats>>

RideAlongAnySize(j) ==  \* faulty: ensemble sizes mix
    taken # <<>> => Bands(j) /\ Bands(taken[1]) /\ CellsOf[j] <= budget

\* An empty cycle takes whatever comes first; after that only band jobs of
\* the first one's ensemble size that fit what is left.
RideAlong(j) ==
    taken # <<>> =>
        /\ Bands(j) /\ Bands(taken[1])
        /\ MembersOf[j] = MembersOf[taken[1]]
        /\ CellsOf[j] <= budget

Skip ==
    /\ pc = "turn" /\ turns # <<>>
    /\ ~RideAlong(Head(waiting[Head(turns)]))
    /\ turns' = Tail(turns)
    /\ UNCHANGED <<queueVars, progressed, taken, budget, future, pc, at, failed, stats>>

Without(c) == RemoveAt(order, CHOOSE i \in DOMAIN order : order[i] = c)

ServedKeepsKey(c) ==  \* faulty: the key outlives the caller's last job
    Append(Without(c), c)

ServedKeepsPlace(c) ==  \* faulty: no move_to_end
    IF Tail(waiting[c]) = <<>> THEN Without(c) ELSE order

\* The order once caller c has been served: last, or gone with its last job.
Served(c) == IF Tail(waiting[c]) = <<>> THEN Without(c) ELSE Append(Without(c), c)

TakeJob ==
    /\ pc = "turn" /\ turns # <<>>
    /\ LET c == Head(turns)
           j == Head(waiting[c])
       IN  /\ RideAlong(j)
           /\ waiting' = [waiting EXCEPT ![c] = Tail(@)]
           /\ order' = Served(c)
           /\ Charge(c, -CellsOf[j])
           /\ budget' = budget - CellsOf[j]
           /\ taken' = Append(taken, j)
           /\ progressed' = TRUE /\ turns' = Tail(turns)
           /\ pc' = IF Bands(j) THEN pc ELSE "serve"
    /\ UNCHANGED <<future, at, failed, stats>>

EndRound ==
    /\ pc = "turn" /\ turns = <<>> /\ progressed
    /\ pc' = "round"
    /\ UNCHANGED <<queueVars, takeVars, future, at, failed, stats>>

EndTake ==
    /\ \/ pc = "turn" /\ turns = <<>> /\ ~progressed
       \/ pc = "round" /\ order = <<>>
    /\ pc' = "serve"
    /\ UNCHANGED <<queueVars, takeVars, future, at, failed, stats>>

-----------------------------------------------------------------------------
(* The owner's side: a cycle, outside the lock. *)

\* The kernel comes back: with every read's answer or refusal, the jobs to
\* be told one after another; or not at all, and the cycle fails.
KernelAnswers ==
    /\ pc = "serve" /\ pc' = "answer"
    /\ UNCHANGED <<queueVars, takeVars, future, at, failed, stats>>

KernelFails ==
    /\ pc = "serve" /\ pc' = "fail" /\ failed' = TRUE
    /\ UNCHANGED <<queueVars, takeVars, future, at, stats>>

FirstAgain == taken[1]  \* faulty: the cycle's answers are not walked

FromTheEnd == taken[Len(taken) + 1 - at]  \* faulty: told in the wrong order

\* The job whose answers come next in the cycle's.
NextToTell == taken[at]

\* An exclusive job's refusal is raised, so it takes the failure's way.
AnswerJob ==
    /\ pc = "answer" /\ at <= Len(taken)
    /\ \/ Tell(NextToTell, "answered")
       \/ Bands(NextToTell) /\ Tell(NextToTell, "refused")
    /\ at' = at + 1
    /\ UNCHANGED <<queueVars, takeVars, pc, failed, stats>>

FailJob ==
    /\ pc = "fail" /\ at <= Len(taken)
    /\ IF future[NextToTell] = "pending" THEN Tell(NextToTell, "failed") ELSE UNCHANGED future
    /\ at' = at + 1
    /\ UNCHANGED <<queueVars, takeVars, pc, failed, stats>>

\* Once they have heard, the failure is counted and the kernel told to
\* recover, whose own failure is logged and no more.
CountFailure ==
    /\ pc = "fail" /\ at > Len(taken)
    /\ stats' = [stats EXCEPT !.failed = Bump(@, 1)]
    /\ pc' = "publish"
    /\ UNCHANGED <<queueVars, takeVars, future, at, failed>>

\* The counters of a cycle.
Counted ==
    [stats EXCEPT !.cycles = Bump(@, 1), !.jobs = Bump(@, Len(taken)),
                  !.largest_cycle_jobs = IF Len(taken) > @ THEN Bump(0, Len(taken)) ELSE @]

\* Written after the clients have heard.  The cycle's locals die here.
Publish ==
    /\ \/ pc = "answer" /\ at > Len(taken)
       \/ pc = "publish"
    /\ stats' = Counted
    /\ pc' = "lock"
    /\ turns' = <<>> /\ progressed' = FALSE /\ taken' = <<>> /\ budget' = 0
    /\ at' = 1 /\ failed' = FALSE
    /\ UNCHANGED <<queueVars, future>>

-----------------------------------------------------------------------------
Submit == \E j \in Jobs : RefuseTooLarge(j) \/ RefuseBusy(j) \/ Admit(j)

OwnerStep ==
    \/ Acquire \/ Sleep \/ BeginTake \/ BeginRound \/ Skip \/ TakeJob \/ EndRound \/ EndTake
    \/ KernelAnswers \/ KernelFails \/ AnswerJob \/ FailJob
    \/ CountFailure \/ Publish

Next == Submit \/ OwnerStep

Spec == Init /\ [][Next]_vars

\* The owner's thread is scheduled, and the kernel comes back.
FairSpec == Spec /\ WF_vars(OwnerStep)

-----------------------------------------------------------------------------
(* Properties. *)

TypeOK ==
    /\ waiting \in [Callers -> Seq(Jobs)]
    /\ order \in Seq(Callers)
    /\ cells \in Int
    /\ cellsOf \in [Callers -> Int]
    /\ future \in [Jobs -> Statuses]
    /\ pc \in {"lock", "asleep"} \union InLock \union Serving
    /\ turns \in Seq(Callers) /\ progressed \in BOOLEAN
    /\ taken \in Seq(Jobs) /\ budget \in Int
    /\ at \in Nat \ {0} /\ failed \in BOOLEAN
    /\ stats \in [cycles : 0 .. StatCap, jobs : 0 .. StatCap, refused_busy : 0 .. StatCap,
                  largest_cycle_jobs : 0 .. StatCap, failed : 0 .. StatCap]

\* The running counters say what the queues hold, whatever came and went:
\* `_admit` refuses by them, and /healthz reports them.
CountersExact ==
    /\ cells = Weight(Waiting)
    /\ \A c \in Callers : cellsOf[c] = Weight(WaitingOf(c))

\* "The queue pushes back before memory does": what waits, measured on the
\* jobs themselves, never passes the bound, and no caller's part its share.
QueueBounded ==
    /\ Weight(Waiting) <= MaxCells
    /\ \A c \in Callers : Weight(WaitingOf(c)) <= ShareCells

\* "One caller's burst cannot take the queue from the rest": with nothing of
\* its own waiting and at most one other caller in the queue, a caller's
\* request that is not too large for its share is never turned away.
BurstLeavesRoom ==
    \A j \in Jobs :
        (/\ CellsOf[j] <= ShareCells
         /\ waiting[CallerOf[j]] = <<>>
         /\ \A c, d \in Callers : waiting[c] # <<>> /\ waiting[d] # <<>> => c = d)
        => Weight(Waiting) + CellsOf[j] <= MaxCells

\* What `_admit` promises of the queue, to the process and to a caller.
PushesBack == QueueBounded /\ BurstLeavesRoom

\* The keys of `_waiting` are the callers with something waiting, once each,
\* and a caller still to be visited in a round is one of them: `_take` looks
\* its queue up under the lock, where a KeyError would end the owner.
TurnsSound ==
    /\ \A c \in Callers : waiting[c] # <<>> <=> c \in ToSet(order)
    /\ IsInjective(order)
    /\ ToSet(turns) \subseteq ToSet(order)

\* A job whose client waits is in exactly one place, its caller's queue or
\* the unheard part of the cycle, once; and nobody else's is in either.
\* So no future is lost, resolved twice or left to hang.
PendingHeldOnce ==
    /\ \A j \in Jobs : future[j] = "pending" <=> j \in Waiting \union Unheard
    /\ \A c \in Callers : IsInjective(waiting[c]) /\ \A j \in WaitingOf(c) : CallerOf[j] = c
    /\ \A i, k \in DOMAIN taken : taken[i] = taken[k] /\ at <= i /\ at <= k => i = k
    /\ Waiting \intersect Unheard = {}

\* A cycle is one exclusive job alone or band jobs of one ensemble size, and
\* never empty: its first job is looked at outside the owner's try.
CycleSound ==
    pc \in Serving =>
        /\ taken # <<>>
        /\ \/ Len(taken) = 1
           \/ \A i \in DOMAIN taken : Bands(taken[i]) /\ MembersOf[taken[i]] = MembersOf[taken[1]]

\* What the budget does bound: a cycle of several jobs.
CycleBudget ==
    Len(taken) > 1 => Weight(ToSet(taken)) <= CycleCells

\* What `_serve` takes of a cycle as given, and what the budget is for.
CycleKept == CycleSound /\ CycleBudget

\* The owner does not sleep over a waiting job.
NoLostWakeup == pc = "asleep" => Waiting = {}

\* c stands somewhere before d in the order.
Ahead(c, d) == \E i, k \in DOMAIN order : order[i] = c /\ order[k] = d /\ i < k

\* In turn: whoever a take has not served stands ahead of everybody it has,
\* so one passed over (another ensemble size, too much for what is left) is
\* looked at first by the next cycle, which takes what it sees first.
PassedOverGoFirst ==
    pc \in {"round", "turn"} =>
        LET served == {CallerOf[j] : j \in ToSet(taken)}
        IN  \A c \in ToSet(order) \ served, d \in ToSet(order) \intersect served : Ahead(c, d)

\* Nobody overtakes a caller that waits: who is ahead of it never grows
\* while its oldest job stays where it is.
AheadOf(c) == {d \in Callers : Ahead(d, c)}

NoOvertaking ==
    [][\A c \in ToSet(order) :
          waiting'[c] # <<>> /\ Head(waiting'[c]) = Head(waiting[c])
              => AheadOf(c)' \subseteq AheadOf(c)]_vars

\* Every admitted request is answered, refused or failed in the end, however
\* busy the other callers keep the queue.
EveryRequestHeard ==
    \A j \in Jobs : future[j] = "pending" ~> future[j] \in Told

=============================================================================
