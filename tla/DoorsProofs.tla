---------------------------- MODULE DoorsProofs ----------------------------
(***************************************************************************)
(* The doors' safety properties, for every set of requests and tokens and  *)
(* every bound.                                                            *)
(***************************************************************************)
EXTENDS Doors, FiniteSetTheorems, TLAPS

\* What a handler knows of its token while it checks it.
Checked(r) ==
    /\ stage[r] \in {"verify", "keep"} => token[r] \in Tokens /\ mode = "tokens"
    /\ stage[r] = "keep" =>
          AccountOf[token[r]] # None /\ ExpOf[token[r]] + Skew > began[r]

\* The signal tells the doors and the server together, and a process is gone
\* only when its handlers are.
Stopping ==
    /\ should_exit => draining
    /\ server = "gone" => \A r \in Requests : stage[r] = "away"

Doorway ==
    /\ DoorsTypeOK
    /\ Stopping
    /\ IsFiniteSet(kept)
    /\ \A r \in Requests : began[r] <= now /\ Checked(r)

-----------------------------------------------------------------------------
LEMMA DoorwayInit == Init => Doorway
  <1> SUFFICES ASSUME Init PROVE Doorway
    OBVIOUS
  <1>1. DoorsTypeOK
    <2>1. mode \in Modes /\ server \in {"serving", "closing", "gone"} /\ draining \in BOOLEAN /\ should_exit \in BOOLEAN
      BY DEF Init
    <2>2. stage \in [Requests -> {"away"} \union InHandler] /\ token \in [Requests -> Tokens \union {None}]
      BY DEF Init
    <2>3. now \in 0 .. Horizon /\ began \in [Requests -> 0 .. Horizon]
      BY DoorsAssumption DEF Init
    <2> QED
      BY <2>1, <2>2, <2>3 DEF Init, DoorsTypeOK
  <1>2. Stopping
    BY DEF Init, Stopping
  <1>3. IsFiniteSet(kept)
    BY FS_EmptySet DEF Init
  <1>4. \A r \in Requests : began[r] <= now /\ Checked(r)
    BY DEF Init, Checked
  <1> QED
    BY <1>1, <1>2, <1>3, <1>4 DEF Doorway

\* A step that only moves request r on, and does not touch the table.
LEMMA MovedOn ==
  ASSUME Doorway, NEW r \in Requests, NEW to \in {"away", "auth", "verify", "keep", "body", "waiting"},
         to # "away" => server # "gone",
         GoOn(r, to),
         token' \in [Requests -> Tokens \union {None}],
         \A s \in Requests : s # r => token'[s] = token[s],
         began' \in [Requests -> 0 .. Horizon],
         \A s \in Requests : s # r => began'[s] = began[s],
         began'[r] <= now, Checked(r)',
         UNCHANGED <<process, now, kept>>, queue' \subseteq Requests, answered' \subseteq Requests
  PROVE  Doorway'
  BY DoorsAssumption
     DEF Doorway, DoorsTypeOK, Stopping, Checked, InHandler, GoOn, process

\* So is one that tells it a status.
LEMMA ToldAStatus ==
  ASSUME Doorway, NEW r \in Requests, Tell(r),
         UNCHANGED <<process, now, kept>>, queue' \subseteq Requests, answered' \subseteq Requests
  PROVE  Doorway'
  <1>1. GoOn(r, "away") /\ token' = [token EXCEPT ![r] = None] /\ began' = [began EXCEPT ![r] = 0]
    BY DEF Tell, Forget
  <1>2. began' \in [Requests -> 0 .. Horizon] /\ began'[r] <= now
    BY <1>1, DoorsAssumption DEF Doorway, DoorsTypeOK
  <1>3. Checked(r)'
    BY <1>1 DEF GoOn, Doorway, DoorsTypeOK, Checked
  <1>4. token' \in [Requests -> Tokens \union {None}]
    BY <1>1 DEF Doorway, DoorsTypeOK
  <1>5. \A s \in Requests : s # r => token'[s] = token[s] /\ began'[s] = began[s]
    BY <1>1 DEF Doorway, DoorsTypeOK
  <1> QED
    BY <1>1, <1>2, <1>3, <1>4, <1>5, MovedOn

\* And one that lets it in.
LEMMA LetIn ==
  ASSUME Doorway, NEW r \in Requests, ComeIn(r), stage[r] # "away",
         UNCHANGED <<process, now, kept>>, queue' \subseteq Requests, answered' \subseteq Requests
  PROVE  Doorway'
  <1>1. GoOn(r, "body") /\ token' = [token EXCEPT ![r] = None] /\ began' = [began EXCEPT ![r] = 0]
    BY DEF ComeIn, Forget
  <1>2. began' \in [Requests -> 0 .. Horizon] /\ began'[r] <= now
    BY <1>1, DoorsAssumption DEF Doorway, DoorsTypeOK
  <1>3. Checked(r)'
    BY <1>1 DEF GoOn, Doorway, DoorsTypeOK, Checked
  <1>4. token' \in [Requests -> Tokens \union {None}]
    BY <1>1 DEF Doorway, DoorsTypeOK
  <1>5. \A s \in Requests : s # r => token'[s] = token[s] /\ began'[s] = began[s]
    BY <1>1 DEF Doorway, DoorsTypeOK
  <1>6. server # "gone"
    BY DEF Doorway, Stopping
  <1> QED
    BY <1>1, <1>2, <1>3, <1>4, <1>5, <1>6, MovedOn

LEMMA DoorwayStep == Doorway /\ [Next]_vars => Doorway'
  <1> SUFFICES ASSUME Doorway, [Next]_vars PROVE Doorway'
    OBVIOUS
  <1> USE DoorsAssumption
  <1>0. UNCHANGED futures => queue' \subseteq Requests /\ answered' \subseteq Requests
    BY DEF futures, Doorway, DoorsTypeOK
  <1>1. ASSUME NEW r \in Requests, SendBack(r) PROVE Doorway'
    BY <1>0, <1>1, ToldAStatus DEF SendBack
  <1>2. ASSUME NEW r \in Requests, Enter(r) PROVE Doorway'
    <2>1. server = "serving" /\ stage[r] = "away" /\ GoOn(r, "auth")
      BY <1>2 DEF Enter
    <2>2. /\ UNCHANGED <<process, now, kept, began, futures>>
          /\ \E t \in Tokens \union {None} : token' = [token EXCEPT ![r] = t]
      BY <1>2 DEF Enter
    <2>3. token' \in [Requests -> Tokens \union {None}] /\ \A s \in Requests : s # r => token'[s] = token[s]
      BY <2>2 DEF Doorway, DoorsTypeOK
    <2>4. Checked(r)'
      BY <2>1 DEF GoOn, Doorway, DoorsTypeOK, Checked
    <2> QED
      BY <1>0, <2>1, <2>2, <2>3, <2>4, MovedOn DEF Doorway, DoorsTypeOK
  <1>3. ASSUME NEW r \in Requests, CheckKey(r) PROVE Doorway'
    BY <1>0, <1>3, LetIn, ToldAStatus DEF CheckKey
  <1>4. ASSUME NEW r \in Requests, FindKept(r) PROVE Doorway'
    BY <1>0, <1>4, LetIn, ToldAStatus DEF FindKept, ListedOrNot
  <1>5. ASSUME NEW r \in Requests, FindNotKept(r) PROVE Doorway'
    <2>1. /\ stage[r] = "auth" /\ mode = "tokens" /\ token[r] # None /\ GoOn(r, "verify")
          /\ began' = [began EXCEPT ![r] = now] /\ UNCHANGED <<process, now, kept, token, futures>>
      BY <1>5 DEF FindNotKept
    <2>2. server # "gone"
      BY <2>1 DEF Doorway, Stopping
    <2>3. began' \in [Requests -> 0 .. Horizon] /\ began'[r] <= now
      BY <2>1 DEF Doorway, DoorsTypeOK
    <2>4. Checked(r)'
      BY <2>1 DEF GoOn, Doorway, DoorsTypeOK, Checked, process
    <2> QED
      BY <1>0, <2>1, <2>2, <2>3, <2>4, MovedOn DEF Doorway, DoorsTypeOK
  <1>6. ASSUME NEW r \in Requests, Verify(r) PROVE Doorway'
    <2>1. CASE Verifies(token[r])
      <3>1. ExpOf[token[r]] \in Nat /\ began[r] \in Int /\ now \in Int
        BY <1>6 DEF Verify, Doorway, DoorsTypeOK, Checked
      <3>2. ExpOf[token[r]] + Skew > began[r]
        BY <3>1, <2>1 DEF Verifies, Doorway
      <3> QED
        BY <1>0, <1>6, <2>1, <3>2, MovedOn
           DEF Verify, Verifies, GoOn, Doorway, DoorsTypeOK, Stopping, Checked, process
    <2>2. CASE ~Verifies(token[r])
      BY <1>0, <1>6, <2>2, ToldAStatus DEF Verify
    <2> QED
      BY <2>1, <2>2
  <1>7. ASSUME NEW r \in Requests, VerifyRaises(r) PROVE Doorway'
    BY <1>0, <1>7, ToldAStatus DEF VerifyRaises
  <1>8. ASSUME NEW r \in Requests, Keep(r) PROVE Doorway'
    <2>1. IsFiniteSet(kept \ Stale(began[r]))
      BY FS_Subset DEF Doorway
    <2>2. IsFiniteSet(kept')
      BY <1>8, <2>1, FS_AddElement DEF Keep
    <2>3. kept' \subseteq Tokens /\ \A t \in kept' : AccountOf[t] # None
      BY <1>8 DEF Keep, Doorway, DoorsTypeOK, Checked
    <2> QED
      BY <1>8, <2>2, <2>3
         DEF Keep, ListedOrNot, ComeIn, Tell, Forget, GoOn, Doorway, DoorsTypeOK,
             Stopping, Checked, InHandler, process, futures
  <1>9. ASSUME NEW r \in Requests, BodyRefused(r) \/ TurnedAway(r) PROVE Doorway'
    BY <1>0, <1>9, ToldAStatus DEF BodyRefused, TurnedAway
  <1>10. ASSUME NEW r \in Requests, Admit(r) PROVE Doorway'
    BY <1>10, MovedOn
       DEF Admit, Admitted, GoOn, Doorway, DoorsTypeOK, Stopping, Checked, process
  <1>11. ASSUME NEW r \in Requests, Hear(r) PROVE Doorway'
    BY <1>11, ToldAStatus DEF Hear, Doorway, DoorsTypeOK
  <1>12. ASSUME NEW r \in Requests, OwnerAnswers(r) PROVE Doorway'
    BY <1>12 DEF OwnerAnswers, process, handler, Doorway, DoorsTypeOK, Stopping, Checked
  <1>13. CASE Signal
    BY <1>13 DEF Signal, handle_exit, futures, handler, Doorway, DoorsTypeOK, Stopping, Checked
  <1>14. CASE Close \/ Leave
    BY <1>14 DEF Close, Leave, futures, handler, Doorway, DoorsTypeOK, Stopping, Checked
  <1>15. CASE Start
    BY <1>15, FS_EmptySet DEF Start, Doorway, DoorsTypeOK, Stopping, Checked
  <1>16. CASE Tick
    BY <1>16 DEF Tick, futures, process, handler, Doorway, DoorsTypeOK, Stopping, Checked
  <1>17. CASE UNCHANGED vars
    BY <1>17 DEF vars, futures, process, handler, Doorway, DoorsTypeOK, Stopping, Checked
  <1> QED
    BY <1>1, <1>2, <1>3, <1>4, <1>5, <1>6, <1>7, <1>8, <1>9, <1>10, <1>11, <1>12, <1>13, <1>14, <1>15, <1>16, <1>17
       DEF Next, HandlerStep

\* The invariant holds throughout.
THEOREM DoorwayHolds == DoorsSpec => []Doorway
  BY DoorwayInit, DoorwayStep, PTL DEF DoorsSpec

\* Every variable of the doors keeps its type, and a token is kept only if it
\* verified and names an account, of a caller or not: it is stored before the
\* list is looked at (`_account`, `_caller`).
THEOREM DoorsAreTyped == DoorsSpec => []DoorsTypeOK
  <1>1. Doorway => DoorsTypeOK
    BY DEF Doorway
  <1> QED
    BY <1>1, DoorwayHolds, PTL

-----------------------------------------------------------------------------
\* Once the server has been told to stop no handler begins (`handle_exit`).
THEOREM NobodyStartsAfterTheSignal == DoorsSpec => NothingStartsAfterTheSignal
  <1>1. ASSUME Doorway, [Next]_vars, should_exit, NEW r \in Requests, stage[r] = "away"
        PROVE  stage'[r] = "away"
    <2>1. draining
      BY <1>1 DEF Doorway, Stopping
    <2> QED
      BY <1>1, <2>1
         DEF Next, HandlerStep, SendBack, Enter, CheckKey, FindKept, FindNotKept, Verify, VerifyRaises, Keep,
             BodyRefused, Admit, Admitted, TurnedAway, Hear, OwnerAnswers, ListedOrNot, ComeIn, Tell, GoOn, Signal, Close,
             Leave, Start, Tick, vars, handler, Doorway, DoorsTypeOK
  <1>2. Doorway /\ [Next]_vars =>
          [should_exit => \A r \in Requests : stage[r] = "away" => stage'[r] = "away"]_vars
    BY <1>1
  <1> QED
    BY <1>2, DoorwayHolds, PTL DEF DoorsSpec, NothingStartsAfterTheSignal

\* Who enters by a token has a live one of a listed account, kept from an
\* earlier request or verified for this one (`_caller`, `_account`).
THEOREM OnlyTheLiveEnter == DoorsSpec => OnlyLiveTokensEnter
  <1> DEFINE Live(r) ==
        /\ AccountOf[token[r]] \in Callers
        /\ ExpOf[token[r]] + (IF stage[r] = "auth" THEN 0 ELSE Skew)
              > (IF stage[r] = "auth" THEN now ELSE began[r])
  <1>1. ASSUME Doorway, [Next]_vars, mode = "tokens", NEW r \in Requests,
               stage[r] # "body", stage'[r] = "body"
        PROVE  Live(r)
    <2>1. CheckKey(r) \/ FindKept(r) \/ Keep(r)
      BY <1>1
         DEF Next, HandlerStep, SendBack, Enter, CheckKey, FindKept, FindNotKept, Verify, VerifyRaises, Keep,
             BodyRefused, Admit, Admitted, TurnedAway, Hear, OwnerAnswers, ListedOrNot, ComeIn, Tell, GoOn, Signal, Close,
             Leave, Start, Tick, vars, handler, Doorway, DoorsTypeOK
    <2>2. CASE CheckKey(r)
      BY <1>1, <2>2 DEF CheckKey, KeyAccepted, Tell, GoOn, Doorway, DoorsTypeOK
    <2>3. CASE FindKept(r)
      <3>1. AccountOf[token[r]] \in Callers /\ stage[r] = "auth" /\ ExpOf[token[r]] > now
        BY <1>1, <2>3 DEF FindKept, IsKept, ListedOrNot, Tell, GoOn, Doorway, DoorsTypeOK
      <3>2. ExpOf[token[r]] \in Nat
        BY <1>1, <2>3, DoorsAssumption DEF FindKept, IsKept, Doorway, DoorsTypeOK
      <3> QED
        BY <3>1, <3>2
    <2>4. CASE Keep(r)
      BY <1>1, <2>4 DEF Keep, ListedOrNot, Tell, GoOn, Doorway, DoorsTypeOK, Checked
    <2> QED
      BY <2>1, <2>2, <2>3, <2>4
  <1>2. Doorway /\ [Next]_vars =>
          [mode = "tokens" =>
              \A r \in Requests : stage[r] # "body" /\ stage'[r] = "body" => Live(r)]_vars
    BY <1>1
  <1> QED
    BY <1>2, DoorwayHolds, PTL DEF DoorsSpec, OnlyLiveTokensEnter

\* The table of tokens passes its cap by live ones only (`_account`).
THEOREM OnlyTheLivePassTheCap == DoorsSpec => OnlyLiveTokensPastTheCap
  <1>1. ASSUME Doorway, [Next]_vars, kept' \ kept # {}, Cardinality(kept') > TokenCap + 1
        PROVE  \E r \in Requests :
                  /\ stage[r] = "keep" /\ stage'[r] # "keep"
                  /\ \A t \in kept' \intersect kept : ExpOf[t] > began[r]
    <2>1. PICK r \in Requests : Keep(r)
      BY <1>1
         DEF Next, HandlerStep, SendBack, Enter, CheckKey, FindKept, FindNotKept, Verify, VerifyRaises,
             BodyRefused, Admit, TurnedAway, Hear, OwnerAnswers, Signal, Close, Leave, Start, Tick, vars
    <2>2. stage[r] = "keep" /\ stage'[r] # "keep"
      BY <2>1, <1>1 DEF Keep, ListedOrNot, ComeIn, Tell, GoOn, Doorway, DoorsTypeOK
    <2>3. token[r] \notin kept
      BY <1>1, <2>1 DEF Keep
    <2>4. Cardinality(kept) > TokenCap
      <3>1. SUFFICES ASSUME ~(Cardinality(kept) > TokenCap) PROVE FALSE
        OBVIOUS
      <3>2. kept' = kept \union {token[r]}
        BY <2>1, <3>1 DEF Keep, Stale
      <3>3. Cardinality(kept') = Cardinality(kept) + 1
        BY <1>1, <2>3, <3>2, FS_AddElement DEF Doorway
      <3>4. Cardinality(kept) \in Nat
        BY <1>1, FS_CardinalityType DEF Doorway
      <3> QED
        BY <1>1, <3>1, <3>3, <3>4, DoorsAssumption
    <2>5. ASSUME NEW t \in kept' \intersect kept PROVE ExpOf[t] > began[r]
      <3>1. ~(ExpOf[t] <= began[r])
        BY <2>1, <2>3, <2>4, <2>5 DEF Keep, Stale
      <3>2. ExpOf[t] \in Nat /\ began[r] \in Int
        BY <1>1, <2>5, DoorsAssumption DEF Doorway, DoorsTypeOK
      <3> QED
        BY <3>1, <3>2
    <2> QED
      BY <2>2, <2>5
  <1>2. Doorway /\ [Next]_vars =>
          [kept' \ kept # {} /\ Cardinality(kept') > TokenCap + 1 =>
              \E r \in Requests :
                  /\ stage[r] = "keep" /\ stage'[r] # "keep"
                  /\ \A t \in kept' \intersect kept : ExpOf[t] > began[r]]_vars
    BY <1>1
  <1> QED
    BY <1>2, DoorwayHolds, PTL DEF DoorsSpec, OnlyLiveTokensPastTheCap

=============================================================================
