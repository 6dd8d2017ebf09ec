---------------------------- MODULE OwnerProofs ----------------------------
(***************************************************************************)
(* Theorems about the owner and its queue, for every set of callers and    *)
(* request slots, every size and every bound.                              *)
(*                                                                         *)
(* The inductive invariants, each resting on the ones before it:           *)
(*   Orderly   the types, the turn and the sleeping owner;                 *)
(*   Placed    where a pending job is;                                     *)
(*   Counting  the counters and the bounds;                                *)
(*   Cycled    what the cycle holds;                                       *)
(*   and last, who stands ahead of whom in the turn.                       *)
(***************************************************************************)
EXTENDS OwnerPromise, DataFacts

USE DEF InLock, Serving

-----------------------------------------------------------------------------
(* The types, the turn and the sleeping owner. *)

Orderly ==
    /\ TypeOK
    /\ TurnsSound
    /\ IsInjective(turns)
    /\ pc = "asleep" => order = <<>>

LEMMA OrderlyInit == Init => Orderly
<1>. SUFFICES ASSUME Init PROVE Orderly
  OBVIOUS
<1>. USE OwnerAssumption DEF Init
<1>1. TypeOK
  <2>1. stats \in [cycles : 0 .. StatCap, jobs : 0 .. StatCap, refused_busy : 0 .. StatCap,
                   largest_cycle_jobs : 0 .. StatCap, failed : 0 .. StatCap]
    OBVIOUS
  <2>2. /\ waiting \in [Callers -> Seq(Jobs)] /\ order \in Seq(Callers) /\ taken \in Seq(Jobs)
        /\ turns \in Seq(Callers)
    OBVIOUS
  <2>3. cells \in Int /\ cellsOf \in [Callers -> Int] /\ budget \in Int /\ at \in Nat \ {0}
    OBVIOUS
  <2>5. progressed \in BOOLEAN /\ failed \in BOOLEAN
    OBVIOUS
  <2>4. future \in [Jobs -> Statuses] /\ pc \in {"lock", "asleep"} \union InLock \union Serving
    BY DEF Statuses
  <2>. QED  BY <2>1, <2>2, <2>3, <2>4, <2>5 DEF TypeOK
<1>2. TurnsSound /\ IsInjective(turns)
  BY DEF TurnsSound, ToSet, IsInjective
<1>. QED  BY <1>1, <1>2 DEF Orderly

\* A counter stays below the model's cap.
LEMMA BumpType ==
    ASSUME NEW n \in 0 .. StatCap, NEW by \in Nat
    PROVE  Bump(n, by) \in 0 .. StatCap
BY OwnerAssumption DEF Bump

\* The caller whose turn it is has a job, and the order once it is served.
LEMMA TurnFacts ==
    ASSUME Orderly, turns # <<>>
    PROVE  LET c == Head(turns)
           IN  /\ c \in Callers /\ c \in ToSet(order) /\ waiting[c] # <<>>
               /\ waiting[c] \in Seq(Jobs) /\ Head(waiting[c]) \in Jobs
               /\ Tail(waiting[c]) \in Seq(Jobs)
               /\ Served(c) \in Seq(Callers) /\ IsInjective(Served(c))
               /\ ToSet(Served(c)) = IF Tail(waiting[c]) = <<>> THEN ToSet(order) \ {c} ELSE ToSet(order)
<1>. DEFINE c == Head(turns)
            i == CHOOSE k \in DOMAIN order : order[k] = c
<1>1. turns \in Seq(Callers) /\ order \in Seq(Callers) /\ waiting \in [Callers -> Seq(Jobs)]
  BY DEF Orderly, TypeOK
<1>2. c \in Callers /\ c \in ToSet(order)
  BY <1>1, ToSetType DEF Orderly, TurnsSound
<1>3. waiting[c] # <<>> /\ waiting[c] \in Seq(Jobs)
  BY <1>1, <1>2 DEF Orderly, TurnsSound
<1>4. Head(waiting[c]) \in Jobs /\ Tail(waiting[c]) \in Seq(Jobs)
  BY <1>3
<1>5. i \in DOMAIN order /\ order[i] = c
  BY <1>2 DEF ToSet
<1>6. IsInjective(order)
  BY DEF Orderly, TurnsSound
<1>. DEFINE r == RemoveAt(order, i)
<1>7. r \in Seq(Callers) /\ IsInjective(r) /\ ToSet(r) = ToSet(order) \ {c}
  <2>. HIDE DEF i
  <2>. QED  BY <1>1, <1>5, <1>6, RemoveAtFacts
<1>8. Without(c) = r
  BY DEF Without
<1>. HIDE DEF c, r
<1>9. /\ Append(r, c) \in Seq(Callers) /\ IsInjective(Append(r, c))
      /\ ToSet(Append(r, c)) = ToSet(r) \union {c}
  BY <1>2, <1>7, AppendFacts
<1>10. ToSet(Append(r, c)) = ToSet(order)
  BY <1>2, <1>7, <1>9
<1>11. /\ Served(c) \in Seq(Callers) /\ IsInjective(Served(c))
       /\ ToSet(Served(c)) = IF Tail(waiting[c]) = <<>> THEN ToSet(order) \ {c} ELSE ToSet(order)
  BY <1>7, <1>8, <1>9, <1>10 DEF Served
<1>. QED  BY <1>2, <1>3, <1>4, <1>11 DEF c

\* What a client hears is one of the statuses.
LEMMA TellType ==
    ASSUME TypeOK, NEW j \in Jobs, NEW status \in Statuses, Tell(j, status)
    PROVE  future' \in [Jobs -> Statuses]
BY DEF TypeOK, Tell

LEMMA OrderlyStep == Orderly /\ [Next]_vars => Orderly'
<1>. SUFFICES ASSUME Orderly, [Next]_vars PROVE Orderly'
  OBVIOUS
<1>. USE OwnerAssumption
<1>1. TypeOK /\ TurnsSound /\ IsInjective(turns) /\ (pc = "asleep" => order = <<>>)
  BY DEF Orderly
<1>2. ASSUME NEW j \in Jobs, RefuseTooLarge(j) PROVE Orderly'
  <2>1. TypeOK'
    BY <1>1, <1>2, TellType DEF TypeOK, RefuseTooLarge, queueVars, takeVars, Statuses, TurnedAway
  <2>. QED  BY <1>1, <1>2, <2>1 DEF Orderly, TurnsSound, RefuseTooLarge, queueVars, takeVars
<1>3. ASSUME NEW j \in Jobs, RefuseBusy(j) PROVE Orderly'
  <2>1. Bump(stats.refused_busy, 1) \in 0 .. StatCap
    BY <1>1, BumpType DEF TypeOK
  <2>2. TypeOK'
    BY <1>1, <1>3, <2>1, TellType DEF TypeOK, RefuseBusy, queueVars, takeVars, Statuses, TurnedAway
  <2>. QED  BY <1>1, <1>3, <2>2 DEF Orderly, TurnsSound, RefuseBusy, queueVars, takeVars
<1>4. ASSUME NEW j \in Jobs, Admit(j) PROVE Orderly'
  <2>. DEFINE c == CallerOf[j]
  <2>1. c \in Callers /\ waiting[c] \in Seq(Jobs) /\ order \in Seq(Callers)
    BY <1>1 DEF TypeOK
  <2>2. waiting' = [waiting EXCEPT ![c] = Append(@, j)] /\ order' = Joined(c)
    BY <1>4 DEF Admit
  <2>3. waiting' \in [Callers -> Seq(Jobs)] /\ waiting'[c] # <<>>
    <3>1. waiting \in [Callers -> Seq(Jobs)]
      BY <1>1 DEF TypeOK
    <3>. HIDE DEF c
    <3>2. Append(waiting[c], j) \in Seq(Jobs) /\ Append(waiting[c], j) # <<>>
      BY <2>1, AppendFacts
    <3>. QED  BY <2>1, <2>2, <3>1, <3>2
  <2>4. /\ order' \in Seq(Callers) /\ IsInjective(order')
        /\ ToSet(order') = ToSet(order) \union {c}
    <3>1. CASE waiting[c] = <<>>
      <4>1. c \notin ToSet(order) /\ IsInjective(order)
        BY <1>1, <2>1, <3>1 DEF TurnsSound
      <4>. QED  BY <2>1, <2>2, <3>1, <4>1, AppendFacts DEF Joined
    <3>2. CASE waiting[c] # <<>>
      <4>1. c \in ToSet(order)
        BY <1>1, <2>1, <3>2 DEF TurnsSound
      <4>. QED  BY <1>1, <2>1, <2>2, <3>2, <4>1 DEF Joined, TurnsSound
    <3>. QED  BY <3>1, <3>2
  <2>5. cells' \in Int /\ cellsOf' \in [Callers -> Int]
    <3>1. cells \in Int /\ cellsOf \in [Callers -> Int]
      BY <1>1 DEF TypeOK
    <3>2. CellsOf[j] \in Int /\ Charge(c, CellsOf[j])
      BY <1>4 DEF Admit
    <3>. HIDE DEF c
    <3>. QED  BY <2>1, <3>1, <3>2 DEF Charge
  <2>6. pc' \in {"lock", "asleep"} \union InLock \union Serving /\ pc' # "asleep"
    BY <1>1, <1>4 DEF Admit, Woken, TypeOK
  <2>7. future' \in [Jobs -> Statuses]
    BY <1>1, <1>4, TellType DEF Admit, Statuses
  <2>8. UNCHANGED <<takeVars, at, failed, stats>>
    BY <1>4 DEF Admit
  <2>9. TypeOK'
    BY <1>1, <2>3, <2>4, <2>5, <2>6, <2>7, <2>8 DEF TypeOK, takeVars
  <2>10. \A d \in Callers : waiting'[d] # <<>> <=> d \in ToSet(order')
    <3>. SUFFICES ASSUME NEW d \in Callers PROVE waiting'[d] # <<>> <=> d \in ToSet(order')
      OBVIOUS
    <3>1. CASE d = c
      BY <2>3, <2>4, <3>1
    <3>2. CASE d # c
      BY <1>1, <2>2, <2>4, <3>2 DEF TurnsSound, TypeOK
    <3>. QED  BY <3>1, <3>2
  <2>11. ToSet(turns') \subseteq ToSet(order') /\ IsInjective(turns')
    BY <1>1, <2>4, <2>8 DEF TurnsSound, takeVars
  <2>. QED  BY <2>4, <2>6, <2>9, <2>10, <2>11 DEF Orderly, TurnsSound
<1>5. CASE Acquire \/ Sleep
  BY <1>1, <1>5 DEF Orderly, TypeOK, TurnsSound, Acquire, Sleep, queueVars, takeVars
<1>6. CASE BeginTake
  BY <1>1, <1>6 DEF Orderly, TypeOK, TurnsSound, BeginTake, queueVars
<1>7. CASE BeginRound
  BY <1>1, <1>7 DEF Orderly, TypeOK, TurnsSound, BeginRound, queueVars
<1>8. CASE Skip
  <2>1. turns \in Seq(Callers) /\ turns # <<>> /\ turns' = Tail(turns)
    BY <1>1, <1>8 DEF Skip, TypeOK
  <2>2. turns' \in Seq(Callers) /\ IsInjective(turns') /\ ToSet(turns') \subseteq ToSet(turns)
    BY <1>1, <2>1, TailFacts
  <2>. QED  BY <1>1, <1>8, <2>2 DEF Orderly, TypeOK, TurnsSound, Skip, queueVars
<1>9. CASE TakeJob
  <2>. DEFINE c == Head(turns)
              j == Head(waiting[c])
  <2>1. /\ c \in Callers /\ waiting[c] # <<>> /\ j \in Jobs
        /\ Tail(waiting[c]) \in Seq(Jobs)
        /\ Served(c) \in Seq(Callers) /\ IsInjective(Served(c))
        /\ ToSet(Served(c)) = IF Tail(waiting[c]) = <<>> THEN ToSet(order) \ {c} ELSE ToSet(order)
    BY <1>9, TurnFacts DEF TakeJob
  <2>2. /\ waiting' = [waiting EXCEPT ![c] = Tail(@)] /\ order' = Served(c)
        /\ Charge(c, -CellsOf[j]) /\ budget' = budget - CellsOf[j]
        /\ taken' = Append(taken, j) /\ progressed' = TRUE /\ turns' = Tail(turns)
        /\ pc' = (IF Bands(j) THEN pc ELSE "serve") /\ UNCHANGED <<future, at, failed, stats>>
        /\ pc = "turn" /\ turns # <<>>
    BY <1>9 DEF TakeJob
  <2>3. /\ turns' \in Seq(Callers) /\ IsInjective(turns')
        /\ ToSet(turns') = ToSet(turns) \ {c}
    <3>1. turns \in Seq(Callers)
      BY <1>1 DEF TypeOK
    <3>. QED  BY <1>1, <2>2, <3>1, TailFacts
  <2>. HIDE DEF c, j
  <2>4. waiting' \in [Callers -> Seq(Jobs)]
    BY <1>1, <2>1, <2>2 DEF TypeOK
  <2>5. cells' \in Int /\ cellsOf' \in [Callers -> Int] /\ budget' \in Int
    <3>1. cells \in Int /\ cellsOf \in [Callers -> Int] /\ budget \in Int
      BY <1>1 DEF TypeOK
    <3>2. CellsOf[j] \in Int /\ -CellsOf[j] \in Int
      BY <2>1
    <3>3. cells' \in Int /\ budget' \in Int
      BY <2>2, <3>1, <3>2 DEF Charge
    <3>. DEFINE n == -CellsOf[j]
    <3>4. cellsOf' = [cellsOf EXCEPT ![c] = @ + n]
      BY <2>2 DEF Charge
    <3>5. n \in Int /\ c \in Callers /\ cellsOf \in [Callers -> Int]
      BY <2>1, <3>1, <3>2
    <3>. HIDE DEF n
    <3>6. cellsOf' \in [Callers -> Int]
      BY <3>4, <3>5
    <3>. QED  BY <3>3, <3>6
  <2>6. taken' \in Seq(Jobs) /\ pc' \in InLock \union Serving
    BY <1>1, <2>1, <2>2 DEF TypeOK
  <2>7. TypeOK'
    BY <1>1, <2>1, <2>2, <2>3, <2>4, <2>5, <2>6 DEF TypeOK
  <2>8. ASSUME NEW d \in Callers PROVE waiting'[d] # <<>> <=> d \in ToSet(order')
    <3>1. CASE d = c
      <4>1. waiting'[c] = Tail(waiting[c])
        BY <1>1, <2>1, <2>2 DEF TypeOK
      <4>2. c \in ToSet(order)
        BY <1>1, <2>1 DEF TurnsSound
      <4>. QED  BY <2>1, <2>2, <3>1, <4>1, <4>2
    <3>2. CASE d # c
      <4>1. waiting'[d] = waiting[d]
        BY <1>1, <2>2, <3>2 DEF TypeOK
      <4>. QED  BY <1>1, <2>1, <2>2, <3>2, <4>1 DEF TurnsSound
    <3>. QED  BY <3>1, <3>2
  <2>9. ToSet(turns') \subseteq ToSet(order')
    BY <1>1, <2>1, <2>2, <2>3 DEF TurnsSound
  <2>. QED  BY <2>1, <2>2, <2>3, <2>6, <2>7, <2>8, <2>9 DEF Orderly, TurnsSound
<1>10. CASE EndRound \/ EndTake \/ KernelAnswers \/ KernelFails
  BY <1>1, <1>10 DEF Orderly, TypeOK, TurnsSound, EndRound, EndTake, KernelAnswers, KernelFails,
                     queueVars, takeVars
<1>11. CASE AnswerJob \/ FailJob
  <2>1. at \in DOMAIN taken /\ NextToTell \in Jobs
    BY <1>1, <1>11 DEF AnswerJob, FailJob, NextToTell, TypeOK
  <2>2. future' \in [Jobs -> Statuses]
    BY <1>1, <1>11, <2>1, TellType DEF AnswerJob, FailJob, Statuses, Told, TypeOK
  <2>3. at' \in Nat \ {0} /\ UNCHANGED <<queueVars, takeVars, pc, failed, stats>>
    <3>1. at \in Nat \ {0}
      BY <1>1 DEF TypeOK
    <3>2. at' = at + 1 /\ UNCHANGED <<queueVars, takeVars, pc, failed, stats>>
      <4>1. CASE AnswerJob
        BY <4>1 DEF AnswerJob
      <4>2. CASE FailJob
        BY <4>2 DEF FailJob
      <4>. QED  BY <1>11, <4>1, <4>2
    <3>. QED  BY <3>1, <3>2
  <2>4. TypeOK'
    BY <1>1, <2>2, <2>3 DEF TypeOK, queueVars, takeVars
  <2>. QED  BY <1>1, <2>3, <2>4 DEF Orderly, TurnsSound, queueVars, takeVars
<1>12. CASE CountFailure
  <2>1. Bump(stats.failed, 1) \in 0 .. StatCap
    BY <1>1, BumpType DEF TypeOK
  <2>. QED  BY <1>1, <1>12, <2>1 DEF Orderly, TypeOK, TurnsSound, CountFailure, queueVars, takeVars
<1>13. CASE Publish
  <2>1. Len(taken) \in Nat
    BY <1>1 DEF TypeOK
  <2>2. /\ Bump(stats.cycles, 1) \in 0 .. StatCap
        /\ Bump(stats.jobs, Len(taken)) \in 0 .. StatCap
        /\ Bump(0, Len(taken)) \in 0 .. StatCap
    <3>1. stats.cycles \in 0 .. StatCap /\ stats.jobs \in 0 .. StatCap /\ 0 \in 0 .. StatCap
      BY <1>1 DEF TypeOK
    <3>. QED  BY <2>1, <3>1, BumpType
  <2>3. Counted \in [cycles : 0 .. StatCap, jobs : 0 .. StatCap, refused_busy : 0 .. StatCap,
                     largest_cycle_jobs : 0 .. StatCap, failed : 0 .. StatCap]
    BY <1>1, <2>2 DEF TypeOK, Counted
  <2>4. TypeOK'
    <3>1. /\ turns' = <<>> /\ progressed' = FALSE /\ taken' = <<>> /\ budget' = 0
          /\ at' = 1 /\ failed' = FALSE /\ pc' = "lock" /\ stats' = Counted
          /\ UNCHANGED <<queueVars, future>>
      BY <1>13 DEF Publish
    <3>2. turns' \in Seq(Callers) /\ taken' \in Seq(Jobs) /\ budget' \in Int /\ at' \in Nat \ {0}
      BY <3>1
    <3>3. progressed' \in BOOLEAN /\ failed' \in BOOLEAN
      BY <3>1
    <3>. QED  BY <1>1, <2>3, <3>1, <3>2, <3>3 DEF TypeOK, queueVars
  <2>. QED  BY <1>1, <1>13, <2>4 DEF Orderly, TurnsSound, Publish, queueVars, ToSet, IsInjective
<1>14. CASE UNCHANGED vars
  BY <1>1, <1>14 DEF Orderly, TypeOK, TurnsSound, vars, queueVars, takeVars
<1>. QED
  BY <1>2, <1>3, <1>4, <1>5, <1>6, <1>7, <1>8, <1>9, <1>10, <1>11, <1>12, <1>13, <1>14
  DEF Next, Submit, OwnerStep

THEOREM OrderlyHolds == Spec => []Orderly
BY OrderlyInit, OrderlyStep, PTL DEF Spec

\* Every variable keeps its type.
THEOREM TypeCorrect == Spec => []TypeOK
<1>1. Orderly => TypeOK
  BY DEF Orderly
<1>. QED  BY <1>1, OrderlyHolds, PTL

\* `_take` looks up only callers that wait: no KeyError under the lock.
THEOREM TurnsAreSound == Spec => []TurnsSound
<1>1. Orderly => TurnsSound
  BY DEF Orderly
<1>. QED  BY <1>1, OrderlyHolds, PTL

\* The owner never sleeps over a waiting job.
THEOREM NoWakeupIsLost == Spec => []NoLostWakeup
<1>1. Orderly => NoLostWakeup
  <2>. SUFFICES ASSUME Orderly, pc = "asleep" PROVE Waiting = {}
    BY DEF NoLostWakeup
  <2>1. ToSet(order) = {}
    BY DEF Orderly, ToSet
  <2>2. \A c \in Callers : waiting[c] = <<>>
    BY <2>1 DEF Orderly, TurnsSound
  <2>. QED  BY <2>2 DEF Waiting, WaitingOf, ToSet
<1>. QED  BY <1>1, OrderlyHolds, PTL

-----------------------------------------------------------------------------
(* Where a pending job is. *)

Placed ==
    /\ pc \notin {"answer", "fail", "publish"} => at = 1
    /\ pc \in {"lock", "asleep", "look"} => taken = <<>>
    /\ pc = "publish" => at > Len(taken)
    /\ PendingHeldOnce

\* Who waits, once caller c's queue is q.
QueueIs(c, q) == waiting' = [waiting EXCEPT ![c] = q]

LEMMA WaitingOfChange ==
    ASSUME Orderly, NEW c \in Callers, NEW q, QueueIs(c, q)
    PROVE  \A d \in Callers :
              /\ waiting'[d] = IF d = c THEN q ELSE waiting[d]
              /\ WaitingOf(d)' = IF d = c THEN ToSet(q) ELSE WaitingOf(d)
BY DEF Orderly, TypeOK, QueueIs, WaitingOf

\* A waiting job is a job, waiting with its own caller only.
LEMMA WaitingFacts ==
    ASSUME Orderly, PendingHeldOnce
    PROVE  /\ Waiting \subseteq Jobs
           /\ \A c \in Callers : WaitingOf(c) \subseteq Waiting
           /\ \A c, d \in Callers : c # d => WaitingOf(c) \intersect WaitingOf(d) = {}
<1>1. \A c \in Callers : WaitingOf(c) \subseteq Jobs
  BY ToSetType DEF Orderly, TypeOK, WaitingOf
<1>. QED  BY <1>1 DEF PendingHeldOnce, Waiting

LEMMA AdmitPlace ==
    ASSUME Orderly, Placed, NEW j \in Jobs, Admit(j)
    PROVE  /\ Placed'
           /\ j \notin Waiting
           /\ \A d \in Callers : WaitingOf(d)' = IF d = CallerOf[j] THEN WaitingOf(d) \union {j} ELSE WaitingOf(d)
           /\ Waiting' = Waiting \union {j}
<1>. USE OwnerAssumption
<1>. DEFINE c == CallerOf[j]
            q == Append(waiting[c], j)
<1>1. c \in Callers /\ waiting[c] \in Seq(Jobs) /\ future \in [Jobs -> Statuses]
  BY DEF Orderly, TypeOK
<1>2. /\ future[j] # "pending" /\ pc \notin InLock
      /\ QueueIs(c, q) /\ future' = [future EXCEPT ![j] = "pending"]
      /\ pc' = Woken /\ UNCHANGED <<taken, at>>
  BY DEF Admit, MaySubmit, Tell, takeVars, QueueIs
<1>3. j \notin Waiting /\ j \notin Unheard
  BY <1>2 DEF Placed, PendingHeldOnce
<1>4. j \notin WaitingOf(c)
  BY <1>1, <1>3 DEF Waiting
<1>5. IsInjective(q) /\ ToSet(q) = WaitingOf(c) \union {j}
  BY <1>1, <1>4, AppendFacts DEF Placed, PendingHeldOnce, WaitingOf
<1>. HIDE DEF c, q
<1>6. \A d \in Callers :
          /\ waiting'[d] = IF d = c THEN q ELSE waiting[d]
          /\ WaitingOf(d)' = IF d = c THEN WaitingOf(c) \union {j} ELSE WaitingOf(d)
  BY <1>1, <1>2, <1>5, WaitingOfChange DEF WaitingOf
<1>7. Waiting' = Waiting \union {j}
  BY <1>1, <1>6 DEF Waiting, WaitingOf
<1>8. Unheard' = Unheard
  BY <1>2 DEF Unheard
<1>9. PendingHeldOnce'
  <2>1. \A k \in Jobs : future'[k] = "pending" <=> k \in Waiting' \union Unheard'
    <3>. SUFFICES ASSUME NEW k \in Jobs
                  PROVE future'[k] = "pending" <=> k \in Waiting' \union Unheard'
      OBVIOUS
    <3>1. future'[k] = IF k = j THEN "pending" ELSE future[k]
      BY <1>1, <1>2
    <3>. QED  BY <1>7, <1>8, <3>1 DEF Placed, PendingHeldOnce
  <2>2. \A d \in Callers : IsInjective(waiting'[d]) /\ \A k \in WaitingOf(d)' : CallerOf[k] = d
    BY <1>5, <1>6 DEF Placed, PendingHeldOnce, c, WaitingOf
  <2>3. \A i, k \in DOMAIN taken' : taken'[i] = taken'[k] /\ at' <= i /\ at' <= k => i = k
    BY <1>2 DEF Placed, PendingHeldOnce
  <2>4. Waiting' \intersect Unheard' = {}
    BY <1>3, <1>7, <1>8 DEF Placed, PendingHeldOnce
  <2>. QED  BY <2>1, <2>2, <2>3, <2>4 DEF PendingHeldOnce
<1>10. Placed'
  BY <1>2, <1>9 DEF Placed, Woken
<1>. QED  BY <1>3, <1>6, <1>7, <1>10 DEF c, WaitingOf

\* A job taken leaves its caller's queue for the end of the cycle.
LEMMA TakePlace ==
    ASSUME Orderly, Placed, TakeJob
    PROVE  LET c == Head(turns)
               j == Head(waiting[c])
           IN  /\ Placed'
               /\ c \in Callers /\ j \in Jobs /\ j \in WaitingOf(c) /\ j \in Waiting
               /\ j \notin ToSet(taken) /\ IsInjective(taken)
               /\ \A d \in Callers : WaitingOf(d)' = IF d = c THEN WaitingOf(d) \ {j} ELSE WaitingOf(d)
               /\ Waiting' = Waiting \ {j}
<1>. USE OwnerAssumption
<1>. DEFINE c == Head(turns)
            j == Head(waiting[c])
            q == Tail(waiting[c])
<1>1. /\ c \in Callers /\ waiting[c] \in Seq(Jobs) /\ waiting[c] # <<>> /\ j \in Jobs
  BY TurnFacts DEF TakeJob
<1>2. /\ pc = "turn" /\ pc' \in {"turn", "serve"} /\ QueueIs(c, q)
      /\ taken' = Append(taken, j) /\ UNCHANGED <<future, at>>
  BY DEF TakeJob, QueueIs
<1>3. at = 1 /\ taken \in Seq(Jobs) /\ IsInjective(waiting[c])
  BY <1>1, <1>2 DEF Placed, PendingHeldOnce, Orderly, TypeOK
<1>4. IsInjective(q) /\ ToSet(q) = WaitingOf(c) \ {j} /\ j \in WaitingOf(c)
  BY <1>1, <1>3, TailFacts, ToSetType DEF WaitingOf
<1>. HIDE DEF c, j, q
<1>5. j \in Waiting /\ j \notin Unheard
  BY <1>1, <1>4, WaitingFacts DEF Placed, PendingHeldOnce
<1>6. Unheard = ToSet(taken) /\ IsInjective(taken)
  <2>1. \A i \in DOMAIN taken : at <= i
    BY <1>3
  <2>. QED  BY <2>1 DEF Unheard, ToSet, IsInjective, Placed, PendingHeldOnce
<1>7. /\ taken' \in Seq(Jobs) /\ IsInjective(taken') /\ ToSet(taken') = ToSet(taken) \union {j}
  BY <1>1, <1>2, <1>3, <1>5, <1>6, AppendFacts
<1>8. Unheard' = Unheard \union {j}
  <2>1. at' = 1 /\ \A i \in DOMAIN taken' : at' <= i
    BY <1>2, <1>3, <1>7
  <2>2. Unheard' = ToSet(taken')
    BY <2>1 DEF Unheard, ToSet
  <2>. QED  BY <1>6, <1>7, <2>2
<1>9. \A d \in Callers :
          /\ waiting'[d] = IF d = c THEN q ELSE waiting[d]
          /\ WaitingOf(d)' = IF d = c THEN WaitingOf(d) \ {j} ELSE WaitingOf(d)
  BY <1>1, <1>2, <1>4, WaitingOfChange DEF WaitingOf
<1>10. Waiting' = Waiting \ {j}
  <2>1. \A d \in Callers : d # c => j \notin WaitingOf(d)
    BY <1>1, <1>4, WaitingFacts DEF Placed
  <2>2. \A d \in Callers : WaitingOf(d)' = WaitingOf(d) \ {j}
    BY <1>9, <2>1 DEF WaitingOf
  <2>. QED  BY <2>2 DEF Waiting, WaitingOf
<1>11. PendingHeldOnce'
  <2>1. \A k \in Jobs : future'[k] = "pending" <=> k \in Waiting' \union Unheard'
    BY <1>2, <1>5, <1>8, <1>10 DEF Placed, PendingHeldOnce
  <2>2. \A d \in Callers : IsInjective(waiting'[d]) /\ \A k \in WaitingOf(d)' : CallerOf[k] = d
    BY <1>4, <1>9 DEF Placed, PendingHeldOnce, WaitingOf
  <2>3. \A i, k \in DOMAIN taken' : taken'[i] = taken'[k] /\ at' <= i /\ at' <= k => i = k
    BY <1>7 DEF IsInjective
  <2>4. Waiting' \intersect Unheard' = {}
    BY <1>8, <1>10 DEF Placed, PendingHeldOnce
  <2>. QED  BY <2>1, <2>2, <2>3, <2>4 DEF PendingHeldOnce
<1>12. Placed'
  BY <1>2, <1>3, <1>11 DEF Placed
<1>. QED  BY <1>1, <1>4, <1>5, <1>6, <1>9, <1>10, <1>12 DEF c, j, WaitingOf

\* A client that hears leaves the cycle's unheard part.
LEMMA TellPlace ==
    ASSUME Orderly, Placed, AnswerJob \/ FailJob
    PROVE  Placed'
<1>. DEFINE j == taken[at]
<1>1. /\ at \in DOMAIN taken /\ j \in Jobs /\ pc \in {"answer", "fail"}
      /\ at \in Nat \ {0} /\ taken \in Seq(Jobs) /\ future \in [Jobs -> Statuses]
  BY DEF AnswerJob, FailJob, Orderly, TypeOK
<1>2. at' = at + 1 /\ UNCHANGED <<queueVars, takeVars, pc, failed, stats>>
  <2>1. CASE AnswerJob
    BY <2>1 DEF AnswerJob
  <2>2. CASE FailJob
    BY <2>2 DEF FailJob
  <2>. QED  BY <2>1, <2>2
<1>3. j \in Unheard
  BY <1>1 DEF Unheard
<1>4. future[j] = "pending"
  BY <1>1, <1>3 DEF Placed, PendingHeldOnce
<1>5. \E status \in Told : future' = [future EXCEPT ![j] = status]
  <2>1. CASE AnswerJob
    BY <2>1 DEF AnswerJob, NextToTell, Tell, Told
  <2>2. CASE FailJob
    BY <1>4, <2>2 DEF FailJob, NextToTell, Tell, Told
  <2>. QED  BY <2>1, <2>2
<1>6. \A k \in Jobs : future'[k] = "pending" <=> future[k] = "pending" /\ k # j
  BY <1>1, <1>5 DEF Told
<1>7. Unheard' = Unheard \ {j}
  <2>1. \A i \in DOMAIN taken : at + 1 <= i <=> at <= i /\ i # at
    BY <1>1
  <2>2. \A i \in DOMAIN taken : at <= i /\ taken[i] = j => i = at
    BY <1>1 DEF Placed, PendingHeldOnce
  <2>3. taken' = taken
    BY <1>2 DEF takeVars
  <2>. QED  BY <1>1, <1>2, <2>1, <2>2, <2>3 DEF Unheard
<1>. HIDE DEF j
<1>8. waiting' = waiting /\ Waiting' = Waiting
  BY <1>2 DEF Waiting, WaitingOf, queueVars
<1>9. PendingHeldOnce'
  <2>1. \A k \in Jobs : future'[k] = "pending" <=> k \in Waiting' \union Unheard'
    BY <1>3, <1>6, <1>7, <1>8 DEF Placed, PendingHeldOnce
  <2>2. \A d \in Callers : IsInjective(waiting'[d]) /\ \A k \in WaitingOf(d)' : CallerOf[k] = d
    BY <1>8 DEF Placed, PendingHeldOnce, WaitingOf
  <2>3. \A i, k \in DOMAIN taken' : taken'[i] = taken'[k] /\ at' <= i /\ at' <= k => i = k
    BY <1>1, <1>2 DEF Placed, PendingHeldOnce, takeVars
  <2>4. Waiting' \intersect Unheard' = {}
    BY <1>7, <1>8 DEF Placed, PendingHeldOnce
  <2>. QED  BY <2>1, <2>2, <2>3, <2>4 DEF PendingHeldOnce
<1>. QED  BY <1>1, <1>2, <1>9 DEF Placed

LEMMA PlacedInit == Init => Placed
<1>. SUFFICES ASSUME Init PROVE Placed
  OBVIOUS
<1>. USE OwnerAssumption DEF Init
<1>1. Waiting = {} /\ Unheard = {}
  BY DEF Waiting, WaitingOf, Unheard, ToSet
<1>2. PendingHeldOnce
  BY <1>1 DEF PendingHeldOnce, WaitingOf, ToSet, IsInjective
<1>. QED  BY <1>2 DEF Placed

\* A step that leaves the queues alone and nobody unheard behind keeps the places.
LEMMA SamePlaces ==
    ASSUME PendingHeldOnce, waiting' = waiting, Unheard' = Unheard,
           \A k \in Jobs : future'[k] = "pending" <=> future[k] = "pending",
           \A i, k \in DOMAIN taken' : taken'[i] = taken'[k] /\ at' <= i /\ at' <= k => i = k
    PROVE  PendingHeldOnce'
<1>1. Waiting' = Waiting
  BY DEF Waiting, WaitingOf
<1>. QED  BY <1>1 DEF PendingHeldOnce, WaitingOf

LEMMA PlacedStep == Orderly /\ Placed /\ [Next]_vars => Placed'
<1>. SUFFICES ASSUME Orderly, Placed, [Next]_vars PROVE Placed'
  OBVIOUS
<1>. USE OwnerAssumption
<1>0. PendingHeldOnce
  BY DEF Placed
<1>1. ASSUME NEW j \in Jobs, RefuseTooLarge(j) \/ RefuseBusy(j) PROVE Placed'
  <2>1. /\ future[j] # "pending" /\ UNCHANGED <<queueVars, takeVars, pc, at>>
        /\ \E status \in TurnedAway : future' = [future EXCEPT ![j] = status]
    BY <1>1 DEF RefuseTooLarge, RefuseBusy, MaySubmit, Tell, TurnedAway
  <2>2. \A k \in Jobs : future'[k] = "pending" <=> future[k] = "pending"
    BY <2>1 DEF Orderly, TypeOK, TurnedAway
  <2>3. PendingHeldOnce'
    BY <1>0, <2>1, <2>2, SamePlaces DEF queueVars, takeVars, Unheard, PendingHeldOnce
  <2>. QED  BY <2>1, <2>3 DEF Placed, takeVars
<1>2. ASSUME NEW j \in Jobs, Admit(j) PROVE Placed'
  BY <1>2, AdmitPlace
<1>3. ASSUME Acquire \/ Sleep \/ BeginRound \/ Skip \/ EndRound \/ EndTake
             \/ KernelAnswers \/ KernelFails \/ CountFailure
      PROVE  Placed'
  <2>1. UNCHANGED <<waiting, future, taken, at>>
    BY <1>3 DEF Acquire, Sleep, BeginRound, Skip, EndRound, EndTake, KernelAnswers, KernelFails,
                CountFailure, queueVars, takeVars
  <2>2. PendingHeldOnce'
    BY <1>0, <2>1, SamePlaces DEF Unheard, PendingHeldOnce
  <2>3. /\ pc' \notin {"answer", "fail", "publish"} => at = 1
        /\ pc' \in {"lock", "asleep", "look"} => taken = <<>>
        /\ pc' = "publish" => at > Len(taken)
    BY <1>3 DEF Placed, Acquire, Sleep, BeginRound, Skip, EndRound, EndTake, KernelAnswers,
                KernelFails, CountFailure
  <2>. QED  BY <2>1, <2>2, <2>3 DEF Placed
<1>4. CASE BeginTake
  <2>1. /\ pc = "look" /\ pc' = "round" /\ taken = <<>> /\ UNCHANGED <<waiting, future, at, taken>>
    BY <1>4 DEF BeginTake, queueVars, Placed
  <2>2. PendingHeldOnce'
    BY <1>0, <2>1, SamePlaces DEF Unheard, PendingHeldOnce
  <2>. QED  BY <2>1, <2>2 DEF Placed
<1>5. CASE TakeJob
  BY <1>5, TakePlace
<1>6. CASE AnswerJob \/ FailJob
  BY <1>6, TellPlace
<1>7. CASE Publish
  <2>1. /\ at > Len(taken) /\ taken' = <<>> /\ at' = 1 /\ pc' = "lock"
        /\ UNCHANGED <<waiting, future>>
    BY <1>7 DEF Publish, queueVars, Placed
  <2>2. Unheard = {} /\ Unheard' = {}
    BY <2>1 DEF Unheard, Orderly, TypeOK
  <2>3. PendingHeldOnce'
    BY <1>0, <2>1, <2>2, SamePlaces
  <2>. QED  BY <2>1, <2>3 DEF Placed
<1>8. CASE UNCHANGED vars
  <2>1. PendingHeldOnce'
    BY <1>0, <1>8, SamePlaces DEF vars, queueVars, takeVars, Unheard, PendingHeldOnce
  <2>. QED  BY <1>8, <2>1 DEF Placed, vars, takeVars
<1>. QED
  BY <1>1, <1>2, <1>3, <1>4, <1>5, <1>6, <1>7, <1>8 DEF Next, Submit, OwnerStep

THEOREM PlacedHolds == Spec => [](Orderly /\ Placed)
<1>1. Init => Orderly /\ Placed
  BY OrderlyInit, PlacedInit
<1>2. Orderly /\ Placed /\ [Next]_vars => (Orderly /\ Placed)'
  BY OrderlyStep, PlacedStep
<1>. QED  BY <1>1, <1>2, PTL DEF Spec

\* No future is lost, resolved twice or left to hang.
THEOREM PendingIsHeldOnce == Spec => []PendingHeldOnce
<1>1. Orderly /\ Placed => PendingHeldOnce
  BY DEF Placed
<1>. QED  BY <1>1, PlacedHolds, PTL

-----------------------------------------------------------------------------
(* The counters and the bounds. *)

\* Any set of jobs is finite and holds a natural number of cells.
LEMMA JobsWeigh ==
    ASSUME NEW S, S \subseteq Jobs
    PROVE  /\ IsFiniteSet(S) /\ Weight(S) \in Nat
           /\ \A j \in Jobs \ S : Weight(S \union {j}) = Weight(S) + CellsOf[j]
           /\ \A j \in S : Weight(S \ {j}) = Weight(S) - CellsOf[j]
<1>. USE OwnerAssumption
<1>1. IsFiniteSet(S) /\ \A e \in S : CellsOf[e] \in Nat
  BY FS_Subset
<1>2. Amount(S, CellsOf) \in Nat
  BY <1>1, AmountFinite
<1>3. ASSUME NEW j \in Jobs \ S PROVE Amount(S \union {j}, CellsOf) = Amount(S, CellsOf) + CellsOf[j]
  BY <1>1, AmountAdd
<1>4. ASSUME NEW j \in S PROVE Amount(S \ {j}, CellsOf) = Amount(S, CellsOf) - CellsOf[j]
  BY <1>1, AmountRemove
<1>. QED  BY <1>1, <1>2, <1>3, <1>4 DEF Weight

Bounded ==
    /\ cells <= MaxCells
    /\ \A c \in Callers : cellsOf[c] <= ShareCells

Counting == CountersExact /\ Bounded

LEMMA CountingInit == Init => Counting
<1>. SUFFICES ASSUME Init PROVE Counting
  OBVIOUS
<1>. USE OwnerAssumption, HalfShare DEF Init
<1>1. Waiting = {} /\ \A c \in Callers : WaitingOf(c) = {}
  BY DEF Waiting, WaitingOf, ToSet
<1>2. Weight({}) = 0
  BY AmountEmpty DEF Weight
<1>3. cells = 0 /\ \A c \in Callers : cellsOf[c] = 0
  OBVIOUS
<1>4. CountersExact
  BY <1>1, <1>2, <1>3 DEF CountersExact
<1>5. Bounded
  BY <1>3 DEF Bounded
<1>. QED  BY <1>4, <1>5 DEF Counting

LEMMA CountingStep == Orderly /\ Placed /\ Counting /\ [Next]_vars => Counting'
<1>. SUFFICES ASSUME Orderly, Placed, Counting, [Next]_vars PROVE Counting'
  OBVIOUS
<1>. USE OwnerAssumption, HalfShare
<1>1. /\ cells = Weight(Waiting) /\ cells <= MaxCells /\ cells \in Int
      /\ cellsOf \in [Callers -> Int]
      /\ \A c \in Callers : cellsOf[c] = Weight(WaitingOf(c)) /\ cellsOf[c] <= ShareCells
  BY DEF Counting, CountersExact, Bounded, Orderly, TypeOK
<1>2. Waiting \subseteq Jobs /\ \A c \in Callers : WaitingOf(c) \subseteq Waiting
  BY WaitingFacts DEF Placed
<1>3. ASSUME NEW j \in Jobs, Admit(j) PROVE Counting'
  <2>. DEFINE c == CallerOf[j]
  <2>1. /\ j \notin Waiting /\ Waiting' = Waiting \union {j}
        /\ \A d \in Callers : WaitingOf(d)' = IF d = c THEN WaitingOf(d) \union {j} ELSE WaitingOf(d)
    BY <1>3, AdmitPlace DEF WaitingOf
  <2>2. /\ c \in Callers /\ CellsOf[j] \in Nat /\ Charge(c, CellsOf[j])
        /\ cells + CellsOf[j] <= MaxCells /\ cellsOf[c] + CellsOf[j] <= ShareCells
    BY <1>3 DEF Admit, Fits
  <2>. HIDE DEF c
  <2>3. /\ cells' = cells + CellsOf[j]
        /\ \A d \in Callers : cellsOf'[d] = IF d = c THEN cellsOf[d] + CellsOf[j] ELSE cellsOf[d]
    BY <1>1, <2>2 DEF Charge
  <2>4. cells' = Weight(Waiting') /\ cells' <= MaxCells
    BY <1>1, <1>2, <2>1, <2>2, <2>3, JobsWeigh
  <2>5. ASSUME NEW d \in Callers PROVE cellsOf'[d] = Weight(WaitingOf(d)') /\ cellsOf'[d] <= ShareCells
    <3>1. CASE d = c
      <4>1. j \notin WaitingOf(d) /\ WaitingOf(d) \subseteq Jobs
        BY <1>2, <2>1
      <4>2. Weight(WaitingOf(d) \union {j}) = Weight(WaitingOf(d)) + CellsOf[j]
        BY <4>1, JobsWeigh
      <4>. QED  BY <1>1, <2>1, <2>2, <2>3, <3>1, <4>2 DEF WaitingOf
    <3>2. CASE d # c
      BY <1>1, <2>1, <2>3, <3>2 DEF WaitingOf
    <3>. QED  BY <3>1, <3>2
  <2>. QED  BY <2>4, <2>5 DEF Counting, CountersExact, Bounded, Weight, WaitingOf
<1>4. CASE TakeJob
  <2>. DEFINE c == Head(turns)
              j == Head(waiting[c])
  <2>1. /\ c \in Callers /\ j \in Jobs /\ j \in WaitingOf(c) /\ j \in Waiting
        /\ Waiting' = Waiting \ {j}
        /\ \A d \in Callers : WaitingOf(d)' = IF d = c THEN WaitingOf(d) \ {j} ELSE WaitingOf(d)
    BY <1>4, TakePlace DEF WaitingOf
  <2>2. Charge(c, -CellsOf[j])
    BY <1>4 DEF TakeJob
  <2>. HIDE DEF c, j
  <2>3. CellsOf[j] \in Nat
    BY <2>1
  <2>4. /\ cells' = cells - CellsOf[j]
        /\ \A d \in Callers : cellsOf'[d] = IF d = c THEN cellsOf[d] - CellsOf[j] ELSE cellsOf[d]
    BY <1>1, <2>1, <2>2, <2>3 DEF Charge
  <2>5. cells' = Weight(Waiting') /\ cells' <= MaxCells
    BY <1>1, <1>2, <2>1, <2>3, <2>4, JobsWeigh
  <2>6. ASSUME NEW d \in Callers PROVE cellsOf'[d] = Weight(WaitingOf(d)') /\ cellsOf'[d] <= ShareCells
    <3>1. CASE d = c
      <4>1. j \in WaitingOf(d) /\ WaitingOf(d) \subseteq Jobs
        BY <1>2, <2>1, <3>1
      <4>2. Weight(WaitingOf(d) \ {j}) = Weight(WaitingOf(d)) - CellsOf[j]
        BY <4>1, JobsWeigh
      <4>3. cellsOf'[d] = cellsOf[d] - CellsOf[j] /\ cellsOf[d] \in Int
        BY <1>1, <2>4, <3>1
      <4>4. WaitingOf(d)' = WaitingOf(d) \ {j}
        BY <2>1, <3>1 DEF WaitingOf
      <4>5. cellsOf'[d] = Weight(WaitingOf(d) \ {j}) /\ cellsOf'[d] <= ShareCells
        BY <1>1, <2>3, <4>2, <4>3
      <4>. QED  BY <4>4, <4>5 DEF WaitingOf
    <3>2. CASE d # c
      BY <1>1, <2>1, <2>4, <3>2 DEF WaitingOf
    <3>. QED  BY <3>1, <3>2
  <2>. QED  BY <2>5, <2>6 DEF Counting, CountersExact, Bounded, Weight, WaitingOf
<1>5. ASSUME UNCHANGED <<waiting, cells, cellsOf>> PROVE Counting'
  BY <1>5 DEF Counting, CountersExact, Bounded, Waiting, WaitingOf, Weight
<1>. QED
  BY <1>3, <1>4, <1>5 DEF Next, Submit, OwnerStep, RefuseTooLarge, RefuseBusy, Acquire, Sleep, BeginTake,
     BeginRound, Skip, EndRound, EndTake, KernelAnswers, KernelFails, AnswerJob, FailJob, CountFailure,
     Publish, vars, queueVars

THEOREM CountingHolds == Spec => [](Orderly /\ Placed /\ Counting)
<1>1. Init => Orderly /\ Placed /\ Counting
  BY OrderlyInit, PlacedInit, CountingInit
<1>2. Orderly /\ Placed /\ Counting /\ [Next]_vars => (Orderly /\ Placed /\ Counting)'
  BY OrderlyStep, PlacedStep, CountingStep
<1>. QED  BY <1>1, <1>2, PTL DEF Spec

\* The running counters are the queues' contents, and so what waits is
\* within the queue's bound and every caller's part within its share.
THEOREM CountersAreExact == Spec => []CountersExact
<1>1. Orderly /\ Placed /\ Counting => CountersExact
  BY DEF Counting
<1>. QED  BY <1>1, CountingHolds, PTL

THEOREM QueueIsBounded == Spec => []QueueBounded
<1>1. Orderly /\ Placed /\ Counting => QueueBounded
  BY DEF Counting, CountersExact, Bounded, QueueBounded
<1>. QED  BY <1>1, CountingHolds, PTL

\* One caller's burst cannot take the queue from the rest.
THEOREM ABurstLeavesRoom == Spec => []BurstLeavesRoom
<1>1. Orderly /\ Placed /\ Counting => BurstLeavesRoom
  <2>. SUFFICES ASSUME Orderly, Placed, Counting,
                       NEW j \in Jobs, CellsOf[j] <= ShareCells,
                       \A c, d \in Callers : waiting[c] # <<>> /\ waiting[d] # <<>> => c = d
                PROVE  Weight(Waiting) + CellsOf[j] <= MaxCells
    BY DEF BurstLeavesRoom
  <2>. USE OwnerAssumption, HalfShare
  <2>1. Weight(Waiting) \in Nat /\ Weight(Waiting) <= ShareCells
    <3>1. CASE \E c \in Callers : waiting[c] # <<>>
      <4>1. PICK c \in Callers : waiting[c] # <<>>
        BY <3>1
      <4>2. \A d \in Callers : d # c => WaitingOf(d) = {}
        BY <4>1 DEF WaitingOf, ToSet
      <4>3. Waiting = WaitingOf(c)
        BY <4>2 DEF Waiting
      <4>4. Waiting \subseteq Jobs
        BY WaitingFacts DEF Placed
      <4>. QED  BY <4>1, <4>3, <4>4, JobsWeigh DEF Counting, CountersExact, Bounded
    <3>2. CASE \A c \in Callers : waiting[c] = <<>>
      <4>1. Waiting = {}
        BY <3>2 DEF Waiting, WaitingOf, ToSet
      <4>2. Weight({}) = 0
        BY AmountEmpty DEF Weight
      <4>. QED  BY <4>1, <4>2
    <3>. QED  BY <3>1, <3>2
  <2>2. CellsOf[j] \in Nat
    OBVIOUS
  <2>. QED  BY <2>1, <2>2
<1>. QED  BY <1>1, CountingHolds, PTL

\* Both at once, as a run checks them.
THEOREM TheQueuePushesBack == Spec => []PushesBack
<1>1. QueueBounded /\ BurstLeavesRoom => PushesBack
  BY DEF PushesBack
<1>. QED  BY <1>1, QueueIsBounded, ABurstLeavesRoom, PTL

-----------------------------------------------------------------------------
(* The cycle. *)

Cycled ==
    /\ IsInjective(taken)
    /\ pc \in {"round", "turn"} =>
          /\ \A i \in DOMAIN taken : Bands(taken[i]) /\ MembersOf[taken[i]] = MembersOf[taken[1]]
          /\ budget = CycleCells - Weight(ToSet(taken))
    /\ pc = "round" /\ taken = <<>> => order # <<>>
    /\ pc = "turn" /\ taken = <<>> => turns # <<>>
    /\ CycleSound
    /\ CycleBudget

LEMMA CycledInit == Init => Cycled
<1>. SUFFICES ASSUME Init PROVE Cycled
  OBVIOUS
<1>1. taken = <<>> /\ pc = "lock"
  BY DEF Init
<1>2. IsInjective(taken) /\ Len(taken) = 0
  BY <1>1 DEF IsInjective
<1>. QED  BY <1>1, <1>2 DEF Cycled, CycleSound, CycleBudget

\* What one more job does to the cycle.
LEMMA TakeCycle ==
    ASSUME Orderly, Placed, Cycled, TakeJob
    PROVE  Cycled'
<1>. USE OwnerAssumption
<1>. DEFINE j == Head(waiting[Head(turns)])
<1>1. j \in Jobs /\ j \notin ToSet(taken) /\ IsInjective(taken)
  BY TakePlace
<1>2. /\ pc = "turn" /\ RideAlong(j) /\ budget' = budget - CellsOf[j] /\ taken' = Append(taken, j)
      /\ pc' = IF Bands(j) THEN pc ELSE "serve"
  BY DEF TakeJob
<1>. HIDE DEF j
<1>3. taken \in Seq(Jobs) /\ budget \in Int
  BY DEF Orderly, TypeOK
<1>4. /\ taken' \in Seq(Jobs) /\ taken' # <<>> /\ IsInjective(taken')
      /\ ToSet(taken') = ToSet(taken) \union {j}
  BY <1>1, <1>2, <1>3, AppendFacts
<1>5. /\ Len(taken') = Len(taken) + 1 /\ Len(taken) \in Nat
      /\ \A i \in DOMAIN taken : taken'[i] = taken[i]
      /\ taken'[Len(taken) + 1] = j
      /\ DOMAIN taken' = 1 .. Len(taken) + 1 /\ DOMAIN taken = 1 .. Len(taken)
  BY <1>1, <1>2, <1>3
<1>6. ToSet(taken) \subseteq Jobs
  BY <1>3, ToSetType
<1>7. budget' = CycleCells - Weight(ToSet(taken'))
  <2>1. Weight(ToSet(taken')) = Weight(ToSet(taken)) + CellsOf[j] /\ Weight(ToSet(taken)) \in Nat
    BY <1>1, <1>4, <1>6, JobsWeigh
  <2>2. budget = CycleCells - Weight(ToSet(taken))
    BY <1>2 DEF Cycled
  <2>3. CellsOf[j] \in Nat /\ CycleCells \in Nat
    BY <1>1
  <2>. QED  BY <1>2, <2>1, <2>2, <2>3
<1>8. ASSUME taken # <<>>
      PROVE  /\ Bands(j) /\ CellsOf[j] <= budget
             /\ \A i \in DOMAIN taken' : Bands(taken'[i]) /\ MembersOf[taken'[i]] = MembersOf[taken'[1]]
  <2>1. Bands(j) /\ MembersOf[j] = MembersOf[taken[1]] /\ CellsOf[j] <= budget
    BY <1>2, <1>8 DEF RideAlong
  <2>2. 1 \in DOMAIN taken /\ taken'[1] = taken[1]
    <3>1. 1 \in DOMAIN taken
      BY <1>3, <1>8
    <3>. QED  BY <1>5, <3>1
  <2>3. \A i \in DOMAIN taken : Bands(taken[i]) /\ MembersOf[taken[i]] = MembersOf[taken[1]]
    BY <1>2 DEF Cycled
  <2>4. ASSUME NEW i \in DOMAIN taken'
        PROVE  Bands(taken'[i]) /\ MembersOf[taken'[i]] = MembersOf[taken'[1]]
    <3>1. CASE i \in DOMAIN taken
      BY <1>5, <2>2, <2>3, <3>1
    <3>2. CASE i = Len(taken) + 1
      BY <1>5, <2>1, <2>2, <3>2
    <3>. QED  BY <1>5, <3>1, <3>2
  <2>. QED  BY <2>1, <2>4
<1>9. CycleBudget'
  <2>. SUFFICES ASSUME Len(taken') > 1 PROVE Weight(ToSet(taken')) <= CycleCells
    BY DEF CycleBudget, Weight
  <2>1. taken # <<>>
    BY <1>5
  <2>2. CellsOf[j] <= budget /\ CellsOf[j] \in Nat
    BY <1>1, <1>8, <2>1
  <2>3. Weight(ToSet(taken')) \in Nat /\ CycleCells \in Nat
    BY <1>1, <1>4, <1>6, JobsWeigh
  <2>. QED  BY <1>2, <1>3, <1>7, <2>2, <2>3
<1>10. CycleSound'
  <2>1. CASE taken = <<>>
    BY <1>4, <1>5, <2>1 DEF CycleSound
  <2>2. CASE taken # <<>>
    BY <1>4, <1>8, <2>2 DEF CycleSound, Bands
  <2>. QED  BY <2>1, <2>2
<1>11. ASSUME pc' \in {"round", "turn"}
       PROVE  \A i \in DOMAIN taken' : Bands(taken'[i]) /\ MembersOf[taken'[i]] = MembersOf[taken'[1]]
  <2>1. CASE taken = <<>>
    BY <1>2, <1>5, <1>11, <2>1
  <2>2. CASE taken # <<>>
    BY <1>8, <2>2
  <2>. QED  BY <2>1, <2>2
<1>. QED  BY <1>4, <1>7, <1>9, <1>10, <1>11 DEF Cycled, Bands, Weight

LEMMA CycledStep == Orderly /\ Placed /\ Cycled /\ [Next]_vars => Cycled'
<1>. SUFFICES ASSUME Orderly, Placed, Cycled, [Next]_vars PROVE Cycled'
  OBVIOUS
<1>. USE OwnerAssumption
<1>1. ASSUME NEW j \in Jobs, RefuseTooLarge(j) \/ RefuseBusy(j) \/ Admit(j) PROVE Cycled'
  <2>1. /\ pc \notin {"round", "turn"} /\ pc' \notin {"round", "turn"}
        /\ pc' \in Serving => pc \in Serving
        /\ taken' = taken
    BY <1>1 DEF RefuseTooLarge, RefuseBusy, Admit, MaySubmit, Woken, takeVars
  <2>. QED  BY <2>1 DEF Cycled, CycleSound, CycleBudget, Bands, Weight
<1>2. ASSUME Acquire \/ Sleep \/ KernelAnswers \/ KernelFails \/ AnswerJob \/ FailJob \/ CountFailure
      PROVE  Cycled'
  <2>1. /\ pc' \notin {"round", "turn"} /\ taken' = taken
        /\ pc' \in Serving => pc \in Serving
    BY <1>2 DEF Acquire, Sleep, KernelAnswers, KernelFails, AnswerJob, FailJob, CountFailure, takeVars
  <2>. QED  BY <2>1 DEF Cycled, CycleSound, CycleBudget, Bands, Weight
<1>3. CASE BeginTake
  <2>1. /\ taken' = <<>> /\ budget' = CycleCells /\ pc' = "round" /\ order' = order /\ order # <<>>
    BY <1>3 DEF BeginTake, queueVars
  <2>2. ToSet(taken') = {} /\ IsInjective(taken') /\ Len(taken') = 0 /\ DOMAIN taken' = {}
    BY <2>1 DEF ToSet, IsInjective
  <2>3. budget' = CycleCells - Weight(ToSet(taken))'
    <3>1. Weight(ToSet(taken))' = 0
      BY <2>2, AmountEmpty DEF Weight
    <3>. QED  BY <2>1, <3>1
  <2>4. CycleSound' /\ CycleBudget'
    BY <2>1, <2>2 DEF CycleSound, CycleBudget
  <2>. QED  BY <2>1, <2>2, <2>3, <2>4 DEF Cycled
<1>4. CASE BeginRound \/ Skip \/ EndRound
  <2>1. /\ UNCHANGED <<taken, budget, order>> /\ pc \in {"round", "turn"} /\ pc' \in {"round", "turn"}
    BY <1>4 DEF BeginRound, Skip, EndRound, queueVars, takeVars
  <2>2. pc' = "round" => taken # <<>>
    BY <1>4 DEF BeginRound, Skip, EndRound, Cycled
  <2>3. pc' = "turn" /\ taken = <<>> => turns' # <<>>
    BY <1>4 DEF BeginRound, Skip, EndRound, RideAlong
  <2>. QED  BY <2>1, <2>2, <2>3 DEF Cycled, CycleSound, CycleBudget, Bands, Weight
<1>5. CASE TakeJob
  BY <1>5, TakeCycle
<1>6. CASE EndTake
  <2>1. /\ pc \in {"round", "turn"} /\ pc' = "serve" /\ UNCHANGED taken /\ taken # <<>>
    BY <1>6 DEF EndTake, takeVars, Cycled
  <2>2. CycleSound'
    BY <2>1 DEF Cycled, CycleSound, Bands
  <2>. QED  BY <2>1, <2>2 DEF Cycled, CycleBudget, Weight
<1>7. CASE Publish
  <2>1. taken' = <<>> /\ pc' = "lock"
    BY <1>7 DEF Publish
  <2>2. IsInjective(taken') /\ Len(taken') = 0
    BY <2>1 DEF IsInjective
  <2>. QED  BY <2>1, <2>2 DEF Cycled, CycleSound, CycleBudget
<1>8. CASE UNCHANGED vars
  BY <1>8 DEF Cycled, CycleSound, CycleBudget, Bands, Weight, vars, takeVars, queueVars
<1>. QED
  BY <1>1, <1>2, <1>3, <1>4, <1>5, <1>6, <1>7, <1>8 DEF Next, Submit, OwnerStep

THEOREM CycledHolds == Spec => [](Orderly /\ Placed /\ Cycled)
<1>1. Init => Orderly /\ Placed /\ Cycled
  BY OrderlyInit, PlacedInit, CycledInit
<1>2. Orderly /\ Placed /\ Cycled /\ [Next]_vars => (Orderly /\ Placed /\ Cycled)'
  BY OrderlyStep, PlacedStep, CycledStep
<1>. QED  BY <1>1, <1>2, PTL DEF Spec

\* A cycle is never empty, and one exclusive job or band jobs of one
\* ensemble size: what `_loop` and `_serve` take for granted of it.
THEOREM CyclesAreSound == Spec => []CycleSound
<1>1. Orderly /\ Placed /\ Cycled => CycleSound
  BY DEF Cycled
<1>. QED  BY <1>1, CycledHolds, PTL

\* The budget bounds every cycle of several jobs.
THEOREM CyclesKeepTheirBudget == Spec => []CycleBudget
<1>1. Orderly /\ Placed /\ Cycled => CycleBudget
  BY DEF Cycled
<1>. QED  BY <1>1, CycledHolds, PTL

\* Both at once, as a run checks them.
THEOREM CyclesAreKept == Spec => []CycleKept
<1>1. CycleSound /\ CycleBudget => CycleKept
  BY DEF CycleKept
<1>. QED  BY <1>1, CyclesAreSound, CyclesKeepTheirBudget, PTL

-----------------------------------------------------------------------------
(* The turn. *)

LEMMA AheadIsBefore == \A c, d : Ahead(c, d) <=> Before(order, c, d)
BY DEF Ahead, Before

\* Serving a caller moves nobody but it, and it nowhere but last.
LEMMA ServedOrder ==
    ASSUME Orderly, turns # <<>>
    PROVE  LET c == Head(turns)
           IN  /\ \A x, y : Before(Served(c), x, y) /\ y # c => Before(order, x, y)
               /\ \A x, y : Before(order, x, y) /\ x # c /\ y # c => Before(Served(c), x, y)
               /\ c \in ToSet(Served(c)) => \A x \in ToSet(order) \ {c} : Before(Served(c), x, c)
<1>. DEFINE c == Head(turns)
            i == CHOOSE k \in DOMAIN order : order[k] = c
            r == RemoveAt(order, i)
<1>1. c \in Callers /\ c \in ToSet(order) /\ order \in Seq(Callers) /\ IsInjective(order)
  BY TurnFacts DEF Orderly, TypeOK, TurnsSound
<1>2. i \in DOMAIN order /\ order[i] = c
  BY <1>1 DEF ToSet
<1>3. Served(c) = IF Tail(waiting[c]) = <<>> THEN r ELSE Append(r, c)
  BY DEF Served, Without
<1>4. ToSet(Served(c)) = IF Tail(waiting[c]) = <<>> THEN ToSet(order) \ {c} ELSE ToSet(order)
  BY TurnFacts
<1>. HIDE DEF i
<1>5. r \in Seq(Callers) /\ ToSet(r) = ToSet(order) \ {c}
  BY <1>1, <1>2, RemoveAtFacts
<1>6. /\ \A x, y : Before(r, x, y) => Before(order, x, y)
      /\ \A x, y : Before(order, x, y) /\ x # c /\ y # c => Before(r, x, y)
  BY <1>1, <1>2, RemoveAtOrder
<1>. HIDE DEF r, c
<1>7. /\ \A x, y : Before(r, x, y) => Before(Append(r, c), x, y)
      /\ \A x \in ToSet(r) : Before(Append(r, c), x, c)
      /\ \A x, y : Before(Append(r, c), x, y) /\ y # c => Before(r, x, y)
  BY <1>1, <1>5, AppendOrder
<1>8. /\ \A x, y : Before(Served(c), x, y) /\ y # c => Before(order, x, y)
      /\ \A x, y : Before(order, x, y) /\ x # c /\ y # c => Before(Served(c), x, y)
      /\ c \in ToSet(Served(c)) => \A x \in ToSet(order) \ {c} : Before(Served(c), x, c)
  <2>1. CASE Tail(waiting[c]) = <<>>
    BY <1>3, <1>4, <1>6, <2>1
  <2>2. CASE Tail(waiting[c]) # <<>>
    BY <1>3, <1>5, <1>6, <1>7, <2>2
  <2>. QED  BY <2>1, <2>2
<1>. QED  BY <1>8 DEF c

\* The callers a take has served so far.
ServedSoFar == {CallerOf[j] : j \in ToSet(taken)}

LEMMA PassedOverInit == Init => PassedOverGoFirst
BY DEF Init, PassedOverGoFirst

LEMMA PassedOverStep ==
    Orderly /\ Placed /\ PassedOverGoFirst /\ [Next]_vars => PassedOverGoFirst'
<1>. SUFFICES ASSUME Orderly, Placed, PassedOverGoFirst, [Next]_vars PROVE PassedOverGoFirst'
  OBVIOUS
<1>1. ASSUME pc' \notin {"round", "turn"} PROVE PassedOverGoFirst'
  BY <1>1 DEF PassedOverGoFirst
<1>2. ASSUME UNCHANGED <<order, taken>>, pc \in {"round", "turn"} PROVE PassedOverGoFirst'
  BY <1>2 DEF PassedOverGoFirst, Ahead
<1>3. CASE BeginTake
  <2>1. ToSet(taken') = {}
    BY <1>3 DEF BeginTake, ToSet
  <2>. QED  BY <2>1 DEF PassedOverGoFirst
<1>4. CASE TakeJob
  <2>. DEFINE c == Head(turns)
              j == Head(waiting[c])
  <2>1. /\ pc = "turn" /\ turns # <<>> /\ order' = Served(c) /\ taken' = Append(taken, j)
    BY <1>4 DEF TakeJob
  <2>2. c \in Callers /\ j \in Jobs /\ j \in WaitingOf(c)
    BY <1>4, TakePlace
  <2>3. CallerOf[j] = c
    BY <2>2 DEF Placed, PendingHeldOnce
  <2>4. /\ \A x, y : Before(order, x, y) /\ x # c /\ y # c => Before(Served(c), x, y)
        /\ c \in ToSet(Served(c)) => \A x \in ToSet(order) \ {c} : Before(Served(c), x, c)
        /\ ToSet(Served(c)) \subseteq ToSet(order)
    BY <2>1, ServedOrder, TurnFacts
  <2>. HIDE DEF c, j
  <2>5. ToSet(taken') = ToSet(taken) \union {j}
    BY <2>1, <2>2, AppendFacts DEF Orderly, TypeOK
  <2>6. ServedSoFar' = ServedSoFar \union {c}
    BY <2>3, <2>5 DEF ServedSoFar
  <2>7. \A x \in ToSet(order) \ ServedSoFar, y \in ToSet(order) \intersect ServedSoFar : Before(order, x, y)
    BY <2>1, AheadIsBefore DEF PassedOverGoFirst, ServedSoFar
  <2>8. ASSUME NEW x \in ToSet(order') \ ServedSoFar', NEW y \in ToSet(order') \intersect ServedSoFar'
        PROVE  Before(order', x, y)
    <3>1. x \in ToSet(order) \ ServedSoFar /\ x # c
      BY <2>1, <2>4, <2>6
    <3>2. CASE y = c
      BY <2>1, <2>4, <3>1, <3>2
    <3>3. CASE y # c
      <4>1. y \in ToSet(order) \intersect ServedSoFar
        BY <2>1, <2>4, <2>6, <3>3
      <4>. QED  BY <2>1, <2>4, <2>7, <3>1, <3>3, <4>1
    <3>. QED  BY <3>2, <3>3
  <2>. QED  BY <2>8 DEF PassedOverGoFirst, ServedSoFar, Ahead, Before
<1>5. ASSUME NEW j \in Jobs, RefuseTooLarge(j) \/ RefuseBusy(j) \/ Admit(j) PROVE pc' \notin {"round", "turn"}
  BY <1>5 DEF RefuseTooLarge, RefuseBusy, Admit, MaySubmit, Woken
<1>6. CASE BeginRound \/ Skip \/ EndRound
  BY <1>2, <1>6 DEF BeginRound, Skip, EndRound, queueVars, takeVars
<1>7. CASE Acquire \/ Sleep \/ EndTake \/ KernelAnswers \/ KernelFails \/ AnswerJob \/ FailJob
           \/ CountFailure \/ Publish
  BY <1>1, <1>7 DEF Acquire, Sleep, EndTake, KernelAnswers, KernelFails, AnswerJob, FailJob, CountFailure, Publish
<1>8. CASE UNCHANGED vars
  BY <1>1, <1>2, <1>8 DEF vars, queueVars, takeVars
<1>. QED
  BY <1>1, <1>3, <1>4, <1>5, <1>6, <1>7, <1>8 DEF Next, Submit, OwnerStep

\* Whoever a take passes over stands ahead of everybody it serves.
THEOREM WhoIsPassedOverGoesFirst == Spec => []PassedOverGoFirst
<1>1. Init => Orderly /\ Placed /\ PassedOverGoFirst
  BY OrderlyInit, PlacedInit, PassedOverInit
<1>2. Orderly /\ Placed /\ PassedOverGoFirst /\ [Next]_vars => (Orderly /\ Placed /\ PassedOverGoFirst)'
  BY OrderlyStep, PlacedStep, PassedOverStep
<1>. QED  BY <1>1, <1>2, PTL DEF Spec

\* Nobody overtakes a caller whose oldest job waits on.
LEMMA NobodyOvertakes ==
    ASSUME Orderly, Placed, [Next]_vars,
           NEW c \in ToSet(order), waiting'[c] # <<>>, Head(waiting'[c]) = Head(waiting[c])
    PROVE  AheadOf(c)' \subseteq AheadOf(c)
<1>. USE OwnerAssumption
<1>0. order \in Seq(Callers) /\ waiting \in [Callers -> Seq(Jobs)] /\ c \in Callers
  BY ToSetType DEF Orderly, TypeOK
<1>1. SUFFICES ASSUME NEW d \in Callers, Before(order', d, c) PROVE Before(order, d, c)
  BY DEF AheadOf, Ahead, Before
<1>2. CASE order' = order
  BY <1>1, <1>2
<1>3. ASSUME NEW j \in Jobs, Admit(j) PROVE Before(order, d, c)
  <2>1. order' = Joined(CallerOf[j])
    BY <1>3 DEF Admit
  <2>2. CASE waiting[CallerOf[j]] = <<>>
    <3>1. CallerOf[j] \in Callers /\ CallerOf[j] \notin ToSet(order)
      BY <2>2 DEF Orderly, TurnsSound
    <3>2. order' = Append(order, CallerOf[j]) /\ c # CallerOf[j]
      BY <2>1, <2>2, <3>1 DEF Joined
    <3>. QED  BY <1>0, <1>1, <3>1, <3>2, AppendOrder
  <2>3. CASE waiting[CallerOf[j]] # <<>>
    BY <1>1, <2>1, <2>3 DEF Joined
  <2>. QED  BY <2>2, <2>3
<1>4. CASE TakeJob
  <2>. DEFINE e == Head(turns)
  <2>1. /\ turns # <<>> /\ order' = Served(e) /\ waiting' = [waiting EXCEPT ![e] = Tail(@)]
    BY <1>4 DEF TakeJob
  <2>2. e \in Callers /\ waiting[e] \in Seq(Jobs) /\ waiting[e] # <<>>
    BY <2>1, TurnFacts
  <2>3. \A x, y : Before(Served(e), x, y) /\ y # e => Before(order, x, y)
    BY <2>1, ServedOrder
  <2>. HIDE DEF e
  <2>4. c # e
    <3>. SUFFICES ASSUME c = e PROVE FALSE
      OBVIOUS
    <3>. DEFINE s == waiting[e]
    <3>1. waiting'[e] = Tail(s) /\ Tail(s) # <<>> /\ Head(Tail(s)) = Head(s)
      BY <1>0, <2>1, <2>2
    <3>2. IsInjective(s)
      BY <2>2 DEF Placed, PendingHeldOnce
    <3>3. s \in Seq(Jobs) /\ s # <<>>
      BY <2>2
    <3>. HIDE DEF s
    <3>4. Tail(s) \in Seq(Jobs) /\ ToSet(Tail(s)) = ToSet(s) \ {Head(s)}
      BY <3>2, <3>3, TailFacts
    <3>5. Head(Tail(s)) \in ToSet(Tail(s))
      BY <3>1, <3>4, ToSetType
    <3>. QED  BY <3>1, <3>4, <3>5
  <2>. QED  BY <1>1, <2>1, <2>3, <2>4
<1>. QED
  BY <1>2, <1>3, <1>4 DEF Next, Submit, OwnerStep, RefuseTooLarge, RefuseBusy, Acquire, Sleep, BeginTake,
     BeginRound, Skip, EndRound, EndTake, KernelAnswers, KernelFails, AnswerJob, FailJob, CountFailure,
     Publish, vars, queueVars

\* Who is ahead of a waiting caller never grows.
THEOREM NobodyIsOvertaken == Spec => NoOvertaking
<1>1. Orderly /\ Placed /\ [Next]_vars =>
        [\A c \in ToSet(order) :
            waiting'[c] # <<>> /\ Head(waiting'[c]) = Head(waiting[c])
                => AheadOf(c)' \subseteq AheadOf(c)]_vars
  BY NobodyOvertakes
<1>. QED  BY <1>1, PlacedHolds, PTL DEF Spec, NoOvertaking

-----------------------------------------------------------------------------
(* The promise of FairQueue: every step of the owner is a join, a turning    *)
(* away, a hearing, or nothing at all to the lines.                          *)

LEMMA JobsRegroup == \A s, t, u \in Seq(Jobs) : (s \o t) \o u = s \o (t \o u)
BY ConcatAssociative

\* A caller's own among no jobs, among one more job, and with the first apart.
LEMMA OwnFacts ==
    ASSUME NEW c \in Callers, NEW s \in Seq(Jobs)
    PROVE  /\ OwnOf(s, c) \in Seq(Jobs)
           /\ s = <<>> => OwnOf(s, c) = <<>>
           /\ \A j \in Jobs : OwnOf(Append(s, j), c)
                                = OwnOf(s, c) \o (IF CallerOf[j] = c THEN <<j>> ELSE <<>>)
           /\ s # <<>> => OwnOf(s, c)
                            = (IF CallerOf[Head(s)] = c THEN <<Head(s)>> ELSE <<>>) \o OwnOf(Tail(s), c)
<1>. DEFINE Part(j) == IF CallerOf[j] = c THEN <<j>> ELSE <<>>
            Parts(t) == [k \in DOMAIN t |-> Part(t[k])]
<1>0. \A t : OwnOf(t, c) = FlattenSeq(Parts(t))
  BY DEF OwnOf
<1>1. \A j \in Jobs : Part(j) \in Seq(Jobs)
  OBVIOUS
<1>. HIDE DEF Part
<1>2. \A t \in Seq(Jobs) : /\ Parts(t) \in PartsOf(Jobs)
                           /\ Len(Parts(t)) = Len(t) /\ \A k \in 1 .. Len(t) : Parts(t)[k] = Part(t[k])
  <2>. SUFFICES ASSUME NEW t \in Seq(Jobs)
                PROVE  /\ Parts(t) \in PartsOf(Jobs)
                       /\ Len(Parts(t)) = Len(t) /\ \A k \in 1 .. Len(t) : Parts(t)[k] = Part(t[k])
    OBVIOUS
  <2>1. DOMAIN t = 1 .. Len(t) /\ Len(t) \in Nat /\ \A k \in 1 .. Len(t) : t[k] \in Jobs
    OBVIOUS
  <2>2. \A k \in 1 .. Len(t) : Parts(t)[k] \in Seq(Jobs)
    BY <1>1, <2>1
  <2>. QED  BY <2>1, <2>2 DEF PartsOf
<1>3. OwnOf(s, c) \in Seq(Jobs)
  <2>1. Parts(s) \in PartsOf(Jobs)
    BY <1>2
  <2>. HIDE DEF Parts
  <2>. QED  BY <1>0, <2>1, FlattenFacts
<1>4. s = <<>> => OwnOf(s, c) = <<>>
  <2>1. s = <<>> => Parts(s) = <<>>
    OBVIOUS
  <2>. QED  BY <1>0, <2>1, FlattenEmpty
<1>5. ASSUME NEW j \in Jobs PROVE OwnOf(Append(s, j), c) = OwnOf(s, c) \o Part(j)
  <2>1. Append(s, j) \in Seq(Jobs) /\ Len(Append(s, j)) = Len(s) + 1
    OBVIOUS
  <2>2. /\ Parts(s) \in PartsOf(Jobs) /\ Len(Parts(s)) = Len(s)
        /\ \A k \in 1 .. Len(s) : Parts(s)[k] = Part(s[k])
    BY <1>2
  <2>3. /\ Parts(Append(s, j)) \in PartsOf(Jobs) /\ Len(Parts(Append(s, j))) = Len(s) + 1
        /\ \A k \in 1 .. Len(s) + 1 : Parts(Append(s, j))[k] = Part(Append(s, j)[k])
    BY <1>2, <2>1
  <2>. DEFINE p == Parts(s)
              q == Parts(Append(s, j))
  <2>4. /\ p \in PartsOf(Jobs) /\ q \in PartsOf(Jobs) /\ Len(q) = Len(p) + 1 /\ Len(p) = Len(s)
        /\ \A k \in 1 .. Len(s) : p[k] = Part(s[k])
        /\ \A k \in 1 .. Len(s) + 1 : q[k] = Part(Append(s, j)[k])
    BY <2>2, <2>3
  <2>5. OwnOf(s, c) = FlattenSeq(p) /\ OwnOf(Append(s, j), c) = FlattenSeq(q)
    BY <1>0
  <2>. HIDE DEF p, q
  <2>6. q = Append(p, Part(j))
    <3>1. \A k \in 1 .. Len(s) : Append(s, j)[k] = s[k]
      OBVIOUS
    <3>2. Append(s, j)[Len(s) + 1] = j
      OBVIOUS
    <3>3. \A k \in 1 .. Len(q) : q[k] = Append(p, Part(j))[k]
      <4>. SUFFICES ASSUME NEW k \in 1 .. Len(s) + 1 PROVE q[k] = Append(p, Part(j))[k]
        BY <2>4
      <4>1. Len(s) \in Nat /\ p \in Seq(Seq(Jobs)) /\ Part(j) \in Seq(Jobs)
        BY <1>1, <2>4 DEF PartsOf
      <4>2. CASE k = Len(s) + 1
        BY <2>4, <3>2, <4>1, <4>2
      <4>3. CASE k \in 1 .. Len(s)
        BY <2>4, <3>1, <4>1, <4>3
      <4>4. k = Len(s) + 1 \/ k \in 1 .. Len(s)
        BY <4>1
      <4>. QED  BY <4>2, <4>3, <4>4
    <3>. QED  BY <1>1, <2>4, <3>3 DEF PartsOf
  <2>. QED  BY <1>1, <2>4, <2>5, <2>6, FlattenAppend
<1>6. ASSUME s # <<>> PROVE OwnOf(s, c) = Part(Head(s)) \o OwnOf(Tail(s), c)
  <2>. DEFINE p == Parts(s)
              q == Parts(Tail(s))
  <2>1. /\ Tail(s) \in Seq(Jobs) /\ Len(Tail(s)) = Len(s) - 1 /\ Len(s) \in Nat \ {0}
        /\ \A k \in 1 .. Len(s) - 1 : Tail(s)[k] = s[k + 1]
        /\ Head(s) = s[1]
    BY <1>6
  <2>2. /\ p \in PartsOf(Jobs) /\ Len(p) = Len(s) /\ \A k \in 1 .. Len(s) : p[k] = Part(s[k])
    BY <1>2
  <2>3. /\ q \in PartsOf(Jobs) /\ Len(q) = Len(Tail(s)) /\ \A k \in 1 .. Len(Tail(s)) : q[k] = Part(Tail(s)[k])
    BY <1>2, <2>1
  <2>4. OwnOf(s, c) = FlattenSeq(p) /\ OwnOf(Tail(s), c) = FlattenSeq(q)
    BY <1>0
  <2>. HIDE DEF p, q
  <2>5. p # <<>> /\ Head(p) = Part(Head(s)) /\ Tail(p) = q
    <3>1. p \in Seq(Seq(Jobs)) /\ q \in Seq(Seq(Jobs)) /\ Len(q) = Len(p) - 1 /\ Len(p) \in Nat \ {0}
      BY <2>1, <2>2, <2>3 DEF PartsOf
    <3>2. \A k \in 1 .. Len(q) : q[k] = p[k + 1]
      <4>. SUFFICES ASSUME NEW k \in 1 .. Len(s) - 1 PROVE q[k] = p[k + 1]
        BY <2>1, <2>3
      <4>1. k + 1 \in 1 .. Len(s)
        BY <2>1
      <4>. QED  BY <2>1, <2>2, <2>3, <4>1
    <3>3. p # <<>> /\ Head(p) = p[1]
      BY <3>1
    <3>4. Tail(p) = q
      <4>1. Tail(p) \in Seq(Seq(Jobs)) /\ Len(Tail(p)) = Len(p) - 1 /\ \A k \in 1 .. Len(p) - 1 : Tail(p)[k] = p[k + 1]
        BY <3>1, <3>3
      <4>. QED  BY <3>1, <3>2, <4>1
    <3>. QED  BY <2>1, <2>2, <3>3, <3>4
  <2>. QED  BY <2>2, <2>4, <2>5, FlattenCons
<1>. QED  BY <1>3, <1>4, <1>5, <1>6 DEF Part

\* Who is in whose line, and who waits for the cycle to reach it.
Rest == SubSeq(taken, at, Len(taken))

LEMMA LineFacts ==
    ASSUME Orderly
    PROVE  /\ Rest \in Seq(Jobs) /\ (at > Len(taken) => Rest = <<>>)
           /\ \A c \in Callers : Line[c] = OwnOf(Rest, c) \o waiting[c]
           /\ DOMAIN Line = Callers
<1>1. taken \in Seq(Jobs) /\ at \in Nat \ {0} /\ Len(taken) \in Nat
  BY DEF Orderly, TypeOK
<1>2. Rest \in Seq(Jobs)
  BY <1>1 DEF Rest
<1>3. at > Len(taken) => Rest = <<>>
  BY <1>1 DEF Rest
<1>. QED  BY <1>2, <1>3 DEF Line, LineOf, Rest

\* A step that moves neither a queue nor what is left of the cycle leaves every line as it was.
LEMMA SameLines ==
    ASSUME waiting' = waiting, Rest' = Rest
    PROVE  Line' = Line
BY DEF Line, LineOf, Rest

LEMMA InitPromised == Init => Promise!Init
<1>. SUFFICES ASSUME Init PROVE Promise!Init
  OBVIOUS
<1>. USE OwnerAssumption
<1>1. Orderly
  BY OrderlyInit
<1>2. Rest = <<>> /\ \A c \in Callers : waiting[c] = <<>>
  BY <1>1, LineFacts DEF Init
<1>3. \A c \in Callers : Line[c] = <<>>
  <2>. SUFFICES ASSUME NEW c \in Callers PROVE Line[c] = <<>>
    OBVIOUS
  <2>1. OwnOf(Rest, c) = <<>>
    BY <1>1, <1>2, LineFacts, OwnFacts
  <2>. QED  BY <1>1, <1>2, <2>1, LineFacts
<1>4. Line = [c \in Callers |-> <<>>]
  BY <1>3 DEF Line
<1>. QED  BY <1>4 DEF Promise!Init, Init

\* An admitted request joins the end of its caller's line.
LEMMA AdmitPromised ==
    ASSUME Orderly, Placed, NEW j \in Jobs, Admit(j)
    PROVE  Promise!Join(j)
<1>. USE OwnerAssumption
<1>. DEFINE c == CallerOf[j]
<1>1. /\ future[j] # "pending" /\ future' = [future EXCEPT ![j] = "pending"]
      /\ waiting' = [waiting EXCEPT ![c] = Append(@, j)] /\ UNCHANGED <<taken, at>>
  BY DEF Admit, MaySubmit, Tell, takeVars
<1>2. c \in Callers /\ waiting \in [Callers -> Seq(Jobs)] /\ Orderly'
  <2>1. Next
    BY DEF Next, Submit
  <2>. QED  BY <2>1, OrderlyStep DEF Orderly, TypeOK
<1>. HIDE DEF c
<1>3. Rest' = Rest
  BY <1>1 DEF Rest
<1>4. Line' = [Line EXCEPT ![c] = Append(@, j)]
  <2>1. ASSUME NEW d \in Callers PROVE Line'[d] = IF d = c THEN Append(Line[c], j) ELSE Line[d]
    <3>1. Line'[d] = OwnOf(Rest, d) \o waiting'[d] /\ Line[d] = OwnOf(Rest, d) \o waiting[d]
      BY <1>2, <1>3, LineFacts DEF Line, LineOf, Rest
    <3>2. OwnOf(Rest, d) \in Seq(Jobs) /\ waiting[d] \in Seq(Jobs)
      BY <1>2, LineFacts, OwnFacts
    <3>3. waiting'[d] = IF d = c THEN Append(waiting[d], j) ELSE waiting[d]
      BY <1>1, <1>2
    <3>4. OwnOf(Rest, d) \o Append(waiting[d], j) = Append(OwnOf(Rest, d) \o waiting[d], j)
      BY <3>2
    <3>. QED  BY <3>1, <3>3, <3>4
  <2>. QED  BY <1>2, <2>1 DEF Line
<1>. QED  BY <1>1, <1>4 DEF Promise!Join, c

\* A request too large or refused for a busy queue is turned away, and the
\* latter only while somebody waits.
LEMMA RefusePromised ==
    ASSUME Orderly, Counting, NEW j \in Jobs, RefuseTooLarge(j) \/ RefuseBusy(j)
    PROVE  Promise!TurnAway(j)
<1>. USE OwnerAssumption, HalfShare
<1>1. future[j] # "pending" /\ UNCHANGED <<waiting, taken, at>>
  BY DEF RefuseTooLarge, RefuseBusy, MaySubmit, queueVars, takeVars
<1>2. Line' = Line
  BY <1>1, SameLines DEF Rest
<1>3. CASE RefuseTooLarge(j)
  BY <1>1, <1>2, <1>3 DEF Promise!TurnAway, RefuseTooLarge, Tell
<1>4. CASE RefuseBusy(j)
  <2>1. CallerOf[j] \in Callers /\ CellsOf[j] \in Nat /\ CellsOf[j] <= ShareCells /\ ~Fits(j)
    BY <1>4 DEF RefuseBusy
  <2>2. \E c \in Callers : Line[c] # <<>>
    <3>. SUFFICES ASSUME \A c \in Callers : Line[c] = <<>> PROVE FALSE
      OBVIOUS
    <3>1. \A c \in Callers : waiting[c] = <<>>
      <4>. SUFFICES ASSUME NEW c \in Callers PROVE waiting[c] = <<>>
        OBVIOUS
      <4>1. OwnOf(Rest, c) \in Seq(Jobs) /\ waiting[c] \in Seq(Jobs) /\ OwnOf(Rest, c) \o waiting[c] = <<>>
        BY LineFacts, OwnFacts DEF Orderly, TypeOK
      <4>. QED  BY <4>1
    <3>2. Waiting = {} /\ \A c \in Callers : WaitingOf(c) = {}
      BY <3>1 DEF Waiting, WaitingOf, ToSet
    <3>3. Weight({}) = 0
      BY AmountEmpty DEF Weight
    <3>4. cells = 0 /\ cellsOf[CallerOf[j]] = 0
      BY <2>1, <3>2, <3>3 DEF Counting, CountersExact
    <3>. QED  BY <2>1, <3>4 DEF Fits
  <2>. QED  BY <1>1, <1>2, <1>4, <2>2 DEF Promise!TurnAway, RefuseBusy, Tell
<1>. QED  BY <1>3, <1>4

\* A job taken goes from the front of its queue to the end of the cycle: its
\* caller's line is the same, for everything taken before was in front of it.
LEMMA TakePromised ==
    ASSUME Orderly, Placed, TakeJob
    PROVE  Line' = Line
<1>. USE OwnerAssumption
<1>. DEFINE c == Head(turns)
            j == Head(waiting[c])
<1>1. c \in Callers /\ j \in Jobs /\ j \in WaitingOf(c)
  BY TakePlace
<1>2. /\ waiting[c] \in Seq(Jobs) /\ waiting[c] # <<>> /\ CallerOf[j] = c
  <2>1. waiting[c] \in Seq(Jobs) /\ waiting[c] # <<>>
    BY TurnFacts DEF TakeJob
  <2>. QED  BY <1>1, <2>1 DEF Placed, PendingHeldOnce
<1>3. /\ waiting' = [waiting EXCEPT ![c] = Tail(@)] /\ taken' = Append(taken, j) /\ at' = at
      /\ at = 1
  BY DEF TakeJob, Placed
<1>4. <<j>> \o Tail(waiting[c]) = waiting[c] /\ Tail(waiting[c]) \in Seq(Jobs)
  BY <1>2
<1>. HIDE DEF j, c
<1>5. waiting \in [Callers -> Seq(Jobs)] /\ taken \in Seq(Jobs)
  BY DEF Orderly, TypeOK
<1>6. Rest = taken /\ Rest' = Append(taken, j)
  <2>1. \A s \in Seq(Jobs) : SubSeq(s, 1, Len(s)) = s
    OBVIOUS
  <2>2. Append(taken, j) \in Seq(Jobs)
    BY <1>1, <1>5
  <2>. QED  BY <1>3, <1>5, <2>1, <2>2 DEF Rest
<1>7. ASSUME NEW d \in Callers PROVE Line'[d] = Line[d]
  <2>1. Line'[d] = OwnOf(Append(taken, j), d) \o waiting'[d] /\ Line[d] = OwnOf(taken, d) \o waiting[d]
    BY <1>6 DEF Line, LineOf, Rest
  <2>2. OwnOf(taken, d) \in Seq(Jobs) /\ waiting[d] \in Seq(Jobs)
    BY <1>5, OwnFacts
  <2>3. OwnOf(Append(taken, j), d) = OwnOf(taken, d) \o (IF CallerOf[j] = d THEN <<j>> ELSE <<>>)
    BY <1>1, <1>5, OwnFacts
  <2>4. CASE d = c
    <3>1. waiting'[d] = Tail(waiting[d])
      BY <1>3, <1>5, <2>4
    <3>2. (OwnOf(taken, d) \o <<j>>) \o Tail(waiting[d]) = OwnOf(taken, d) \o (<<j>> \o Tail(waiting[d]))
      <4>. DEFINE before == OwnOf(taken, d)
                  one == <<j>>
                  after == Tail(waiting[d])
      <4>1. before \in Seq(Jobs) /\ one \in Seq(Jobs) /\ after \in Seq(Jobs)
        BY <1>1, <1>4, <2>2, <2>4
      <4>. HIDE DEF before, one, after
      <4>2. (before \o one) \o after = before \o (one \o after)
        BY <4>1, JobsRegroup, Zenon
      <4>. QED  BY <4>2 DEF before, one, after
    <3>. QED  BY <1>2, <1>4, <2>1, <2>3, <2>4, <3>1, <3>2
  <2>5. CASE d # c
    <3>1. waiting'[d] = waiting[d]
      BY <1>3, <1>5, <2>5
    <3>2. OwnOf(taken, d) \o <<>> = OwnOf(taken, d)
      BY <2>2
    <3>. QED  BY <1>2, <2>1, <2>3, <2>5, <3>1, <3>2
  <2>. QED  BY <2>4, <2>5
<1>. QED  BY <1>7 DEF Line

\* The job whose client hears is the first of its caller's line.
LEMMA TellPromised ==
    ASSUME Orderly, Placed, AnswerJob \/ FailJob
    PROVE  \E c \in Callers : Promise!Hear(c)
<1>. USE OwnerAssumption
<1>. DEFINE j == taken[at]
            c == CallerOf[j]
<1>1. /\ at \in DOMAIN taken /\ j \in Jobs /\ c \in Callers
      /\ at \in Nat \ {0} /\ taken \in Seq(Jobs) /\ future \in [Jobs -> Statuses]
      /\ waiting \in [Callers -> Seq(Jobs)]
  <2>1. at <= Len(taken)
    BY DEF AnswerJob, FailJob
  <2>2. /\ at \in Nat \ {0} /\ taken \in Seq(Jobs) /\ future \in [Jobs -> Statuses]
        /\ waiting \in [Callers -> Seq(Jobs)]
    BY DEF Orderly, TypeOK
  <2>3. at \in DOMAIN taken /\ j \in Jobs
    BY <2>1, <2>2
  <2>. QED  BY <2>2, <2>3
<1>2. at' = at + 1 /\ UNCHANGED <<queueVars, takeVars>>
  BY DEF AnswerJob, FailJob
<1>3. \E status \in Told : future' = [future EXCEPT ![j] = status]
  <2>1. j \in Unheard
    BY <1>1 DEF Unheard
  <2>2. future[j] = "pending"
    BY <1>1, <2>1 DEF Placed, PendingHeldOnce
  <2>3. CASE AnswerJob
    BY <2>3 DEF AnswerJob, NextToTell, Tell, Told
  <2>4. CASE FailJob
    BY <2>2, <2>4 DEF FailJob, NextToTell, Tell, Told
  <2>. QED  BY <2>3, <2>4
<1>4. Rest \in Seq(Jobs) /\ Rest # <<>> /\ Head(Rest) = j /\ Rest' = Tail(Rest)
  <2>1. at \in 1 .. Len(taken) /\ Len(taken) \in at .. Len(taken)
    BY <1>1
  <2>2. Head(Rest) = j /\ Tail(Rest) = SubSeq(taken, at + 1, Len(taken))
    BY <1>1, <2>1, HeadTailOfSubSeq DEF Rest
  <2>3. Rest' = SubSeq(taken, at + 1, Len(taken))
    BY <1>2 DEF Rest, takeVars
  <2>4. Rest \in Seq(Jobs) /\ Rest # <<>>
    <3>1. Rest \in Seq(Jobs)
      BY LineFacts
    <3>2. Len(SubSeq(taken, at, Len(taken))) = Len(taken) - at + 1
      <4>1. \A i \in at .. Len(taken) : taken[i] \in Jobs
        BY <1>1
      <4>2. at \in Int /\ Len(taken) \in Int /\ at <= Len(taken)
        BY <2>1
      <4>. QED  BY <4>1, <4>2, SubSeqProperties
    <3>3. Len(<<>>) = 0 /\ Len(taken) - at + 1 # 0
      BY <2>1
    <3>. HIDE DEF Rest
    <3>4. Len(Rest) # 0
      BY <3>2, <3>3 DEF Rest
    <3>. QED  BY <3>1, <3>3, <3>4
  <2>. QED  BY <2>2, <2>3, <2>4
<1>. HIDE DEF j
<1>5. ASSUME NEW d \in Callers
      PROVE  /\ Line[d] \in Seq(Jobs)
             /\ d = c => Line[d] # <<>> /\ Head(Line[d]) = j /\ Line'[d] = Tail(Line[d])
             /\ d # c => Line'[d] = Line[d]
  <2>. DEFINE t == OwnOf(Tail(Rest), d)
  <2>1. Line[d] = OwnOf(Rest, d) \o waiting[d] /\ Line'[d] = t \o waiting[d]
    BY <1>2, <1>4 DEF Line, LineOf, Rest, queueVars
  <2>2. OwnOf(Rest, d) = (IF c = d THEN <<j>> ELSE <<>>) \o t
    BY <1>4, OwnFacts
  <2>3. t \in Seq(Jobs) /\ waiting[d] \in Seq(Jobs)
    <3>1. Tail(Rest) \in Seq(Jobs)
      BY <1>4
    <3>. QED  BY <1>1, <3>1, OwnFacts
  <2>. HIDE DEF t, c
  <2>4. CASE d = c
    <3>1. Line[d] = (<<j>> \o t) \o waiting[d]
      BY <2>1, <2>2, <2>4
    <3>2. /\ (<<j>> \o t) \o waiting[d] = <<j>> \o (t \o waiting[d])
          /\ t \o waiting[d] \in Seq(Jobs)
      <4>. DEFINE one == <<j>>
                  after == waiting[d]
      <4>1. one \in Seq(Jobs) /\ t \in Seq(Jobs) /\ after \in Seq(Jobs)
        BY <1>1, <2>3
      <4>. HIDE DEF one, after
      <4>2. (one \o t) \o after = one \o (t \o after)
        BY <4>1, JobsRegroup, Zenon
      <4>3. t \o after \in Seq(Jobs)
        BY <4>1, ConcatProperties
      <4>. QED  BY <4>2, <4>3 DEF one, after
    <3>. DEFINE u == t \o waiting[d]
    <3>3. Line[d] = <<j>> \o u /\ Line'[d] = u /\ u \in Seq(Jobs)
      BY <2>1, <3>1, <3>2
    <3>. HIDE DEF u
    <3>4. <<j>> \o u \in Seq(Jobs) /\ <<j>> \o u # <<>> /\ Head(<<j>> \o u) = j /\ Tail(<<j>> \o u) = u
      <4>1. j \in Jobs /\ u \in Seq(Jobs)
        BY <1>1, <3>3
      <4>. QED  BY <4>1, InFront, Zenon
    <3>. QED  BY <2>4, <3>3, <3>4
  <2>5. CASE d # c
    <3>1. <<>> \o t = t
      BY <2>3, ConcatEmptySeq
    <3>2. t \o waiting[d] \in Seq(Jobs)
      <4>. DEFINE after == waiting[d]
      <4>1. after \in Seq(Jobs)
        BY <2>3
      <4>. HIDE DEF after
      <4>2. t \o after \in Seq(Jobs)
        BY <2>3, <4>1, ConcatProperties
      <4>. QED  BY <4>2 DEF after
    <3>. QED  BY <2>1, <2>2, <2>5, <3>1, <3>2
  <2>. QED  BY <2>4, <2>5
<1>. HIDE DEF c
<1>6. Line' = [Line EXCEPT ![c] = Tail(@)]
  BY <1>1, <1>5 DEF Line
<1>7. Line[c] # <<>> /\ Head(Line[c]) = j
  BY <1>1, <1>5
<1>8. \E outcome \in Promise!Told : future' = [future EXCEPT ![Head(Line[c])] = outcome]
  BY <1>3, <1>7 DEF Promise!Told, Told
<1>. QED  BY <1>1, <1>6, <1>7, <1>8 DEF Promise!Hear

LEMMA StepPromised == Orderly /\ Placed /\ Counting /\ [Next]_vars => [Promise!Next]_(Promise!vars)
<1>. SUFFICES ASSUME Orderly, Placed, Counting, [Next]_vars
              PROVE  Promise!Next \/ (Line' = Line /\ future' = future)
  BY DEF Promise!vars
<1>1. ASSUME NEW j \in Jobs, RefuseTooLarge(j) \/ RefuseBusy(j) PROVE Promise!Next
  BY <1>1, RefusePromised DEF Promise!Next
<1>2. ASSUME NEW j \in Jobs, Admit(j) PROVE Promise!Next
  BY <1>2, AdmitPromised DEF Promise!Next
<1>3. CASE AnswerJob \/ FailJob
  BY <1>3, TellPromised DEF Promise!Next
<1>4. CASE TakeJob
  BY <1>4, TakePromised DEF TakeJob
<1>5. CASE Acquire \/ Sleep \/ BeginRound \/ Skip \/ EndRound \/ EndTake \/ KernelAnswers
           \/ KernelFails \/ CountFailure
  <2>1. UNCHANGED <<waiting, taken, at, future>>
    BY <1>5 DEF Acquire, Sleep, BeginRound, Skip, EndRound, EndTake, KernelAnswers, KernelFails,
                CountFailure, queueVars, takeVars
  <2>. QED  BY <2>1, SameLines DEF Rest
<1>6. CASE BeginTake
  <2>1. UNCHANGED <<waiting, taken, at, future>>
    BY <1>6 DEF BeginTake, Placed, queueVars
  <2>. QED  BY <2>1, SameLines DEF Rest
<1>7. CASE Publish
  <2>1. /\ at > Len(taken) /\ taken' = <<>> /\ at' = 1 /\ UNCHANGED <<waiting, future>>
    BY <1>7 DEF Publish, queueVars, Placed
  <2>2. Rest = <<>>
    BY <2>1, LineFacts
  <2>3. Rest' = <<>>
    BY <2>1 DEF Rest
  <2>. QED  BY <2>1, <2>2, <2>3, SameLines
<1>8. CASE UNCHANGED vars
  BY <1>8, SameLines DEF vars, queueVars, takeVars, Rest
<1>. QED
  BY <1>1, <1>2, <1>3, <1>4, <1>5, <1>6, <1>7, <1>8 DEF Next, Submit, OwnerStep

\* The owner, its rounds, its budget and its failures are, to its callers, one
\* line each that is heard from the front, and nobody turned away as busy
\* while nobody waits.
THEOREM OwnerKeepsLines == Spec => Promise!InOrder
<1>1. Init => Orderly /\ Placed /\ Counting
  BY OrderlyInit, PlacedInit, CountingInit
<1>2. Orderly /\ Placed /\ Counting /\ [Next]_vars => (Orderly /\ Placed /\ Counting)'
  BY OrderlyStep, PlacedStep, CountingStep
<1>. QED  BY <1>1, <1>2, InitPromised, StepPromised, PTL DEF Spec, Promise!InOrder

=============================================================================
