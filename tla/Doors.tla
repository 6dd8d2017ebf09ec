------------------------------- MODULE Doors -------------------------------
(***************************************************************************)
(* The doors (app.py, __main__.py): a request from its arrival to its      *)
(* status, over who is asking, its body, the owner's queue and the owner's *)
(* answer, with the host's signal to stop at any point.                    *)
(*                                                                         *)
(* Handlers run on one event loop and give way where they await: the       *)
(* token's check and the parsing in threads, the body, the future.  The    *)
(* table of verified tokens is shared by the threads, its lock not held    *)
(* while a token is verified.  Of the owner there is only what it          *)
(* promises: who waits is heard.                                           *)
(***************************************************************************)
EXTENDS Integers, FiniteSets

CONSTANTS
    Requests,      \* the requests in flight at once
    Tokens,        \* the bearers that may come
    AccountOf,     \* token -> the account it names, None where it is not Google's
    ExpOf,         \* token -> when it expires
    Callers, Keys, \* GLOSSKERNELS_CALLERS, GLOSSKERNELS_KEYS
    Modes,         \* which way of authentication is set
    TokenCap,      \* the table's size past which it is cleaned (1024)
    Skew,          \* the verifier's tolerance
    Horizon,       \* where the model's clock stops
    None

ASSUME DoorsAssumption ==
    /\ None \notin Tokens /\ Keys \subseteq Tokens
    /\ ExpOf \in [Tokens -> Nat]
    /\ Modes \subseteq {"open", "keys", "tokens"} /\ Modes # {}
    /\ TokenCap \in Nat /\ Skew \in Nat /\ Horizon \in Nat

VARIABLES
    mode,          \* how this instance authenticates
    server,        \* uvicorn's: "serving", "closing" its connections, "gone"
    draining,      \* DRAINING
    should_exit,   \* uvicorn's
    now,           \* the clock
    kept,          \* the tokens in _TOKENS
    stage,         \* request -> where its handler is
    token,         \* request -> the bearer it carries, or None
    began,         \* request -> the time `_account` read
    queue,         \* the requests the owner has
    answered       \* those whose futures it has set, their handlers still to be told

process == <<mode, server, draining, should_exit>>
handler == <<stage, token, began>>
futures == <<queue, answered>>
vars    == <<process, now, kept, handler, futures>>

InHandler == {"auth", "verify", "keep", "body", "waiting"}

-----------------------------------------------------------------------------
Init ==
    /\ mode \in Modes
    /\ server = "serving" /\ draining = FALSE /\ should_exit = FALSE
    /\ now = 0 /\ kept = {}
    /\ stage = [r \in Requests |-> "away"]
    /\ token = [r \in Requests |-> None]
    /\ began = [r \in Requests |-> 0]
    /\ queue = {} /\ answered = {}

GoOn(r, to) == stage' = [stage EXCEPT ![r] = to]

\* Its locals: the bearer, and the time its check began.
Forget(r) == token' = [token EXCEPT ![r] = None] /\ began' = [began EXCEPT ![r] = 0]

\* The caller is named.
ComeIn(r) == GoOn(r, "body") /\ Forget(r)

\* The handler returns with a status; which one is said where it does.
Tell(r) == GoOn(r, "away") /\ Forget(r)

-----------------------------------------------------------------------------
(* A request arrives. *)

\* 503, to come again.
SendBack(r) ==
    /\ server = "serving" /\ stage[r] = "away" /\ draining
    /\ Tell(r)
    /\ UNCHANGED <<process, now, kept, futures>>

Enter(r) ==
    /\ server = "serving" /\ stage[r] = "away" /\ ~draining
    /\ \E t \in Tokens \union {None} : token' = [token EXCEPT ![r] = t]
    /\ GoOn(r, "auth")
    /\ UNCHANGED <<process, now, kept, began, futures>>

-----------------------------------------------------------------------------
(* Who is asking, in a thread. *)

KeyAccepted(r) == mode = "open" \/ (mode = "keys" /\ token[r] \in Keys)

\* Open, or by a shared key; nobody, without a token (401).
CheckKey(r) ==
    /\ stage[r] = "auth" /\ (mode # "tokens" \/ token[r] = None)
    /\ IF KeyAccepted(r) THEN ComeIn(r) ELSE Tell(r)
    /\ UNCHANGED <<process, now, kept, futures>>

\* The account is one of the listed ones, or nobody's (401).
ListedOrNot(r) ==
    IF AccountOf[token[r]] \in Callers THEN ComeIn(r) ELSE Tell(r)

KeptAtAll(r) == token[r] \in kept  \* faulty: expired or not

IsKept(r) == token[r] \in kept /\ ExpOf[token[r]] > now

FindKept(r) ==
    /\ stage[r] = "auth" /\ mode = "tokens" /\ token[r] # None /\ IsKept(r)
    /\ ListedOrNot(r)
    /\ UNCHANGED <<process, now, kept, futures>>

FindNotKept(r) ==
    /\ stage[r] = "auth" /\ mode = "tokens" /\ token[r] # None /\ ~IsKept(r)
    /\ began' = [began EXCEPT ![r] = now]
    /\ GoOn(r, "verify")
    /\ UNCHANGED <<process, now, kept, token, futures>>

VerifiesNobody(t) == ExpOf[t] + Skew > now  \* faulty: whoever signed it

\* Google's verifier, without the lock.
Verifies(t) == AccountOf[t] # None /\ ExpOf[t] + Skew > now

Verify(r) ==
    /\ stage[r] = "verify"
    /\ IF Verifies(token[r]) THEN GoOn(r, "keep") /\ UNCHANGED <<token, began>> ELSE Tell(r)
    /\ UNCHANGED <<process, now, kept, futures>>

VerifyAgain(r) ==  \* faulty: tried again for as long as the verifier raises
    /\ stage[r] = "verify"
    /\ GoOn(r, "auth") /\ UNCHANGED <<token, began>>
    /\ UNCHANGED <<process, now, kept, futures>>

\* What it raises beside ValueError (its own network's failures) leaves the
\* endpoint (500): the caller is named before the `try`.
VerifyRaises(r) ==
    /\ stage[r] = "verify"
    /\ Tell(r)
    /\ UNCHANGED <<process, now, kept, futures>>

StaleNever(time) == {}  \* faulty: nothing is cleaned

\* The kept tokens that had expired, once the table is over its cap.
Stale(time) == IF Cardinality(kept) > TokenCap THEN {t \in kept : ExpOf[t] <= time} ELSE {}

Keep(r) ==
    /\ stage[r] = "keep"
    /\ kept' = (kept \ Stale(began[r])) \union {token[r]}
    /\ ListedOrNot(r)
    /\ UNCHANGED <<process, now, futures>>

-----------------------------------------------------------------------------
(* The body, the queue, the answer. *)

\* Too long, by its header or read (413), not JSON or not what the read
\* parses (400); or a fault in the parsing (500).
BodyRefused(r) ==
    /\ stage[r] = "body"
    /\ Tell(r)
    /\ UNCHANGED <<process, now, kept, futures>>

\* The owner has it, and its handler awaits the future.
Admitted(r) ==
    /\ queue' = queue \union {r}
    /\ GoOn(r, "waiting") /\ UNCHANGED <<token, began>>

Admit(r) ==
    /\ stage[r] = "body"
    /\ Admitted(r)
    /\ UNCHANGED <<process, now, kept, answered>>

\* `Busy` (429, when to come again) or `TooLarge` (413), which the owner raises
\* before it has the request.
TurnedAway(r) ==
    /\ stage[r] = "body"
    /\ Tell(r)
    /\ UNCHANGED <<process, now, kept, futures>>

\* The owner's thread, in its own time, sets the future: to an answer or to
\* what failed.
OwnerAnswers(r) ==
    /\ r \in queue
    /\ queue' = queue \ {r} /\ answered' = answered \union {r}
    /\ UNCHANGED <<process, now, kept, handler>>

\* Its answer (200), its own refusal (a context unknown 404, a read the kernel
\* refuses 422), or the failure of its cycle or of what is made of the
\* answer (500).
Hear(r) ==
    /\ stage[r] = "waiting" /\ r \in answered
    /\ answered' = answered \ {r}
    /\ Tell(r)
    /\ UNCHANGED <<process, now, kept, queue>>

-----------------------------------------------------------------------------
(* The process. *)

ExitBeforeTheDoorsKnow ==  \* faulty: DRAINING is not set
    should_exit' = TRUE /\ UNCHANGED draining

DrainForEver ==  \* faulty: the server is not told
    draining' = TRUE /\ UNCHANGED should_exit

\* The doors are told first, then the server.
handle_exit == draining' = TRUE /\ should_exit' = TRUE

Signal ==
    /\ server = "serving" /\ ~draining
    /\ handle_exit
    /\ UNCHANGED <<mode, server, now, kept, handler, futures>>

\* The server's next tick: it stops accepting and closes what is idle.
Close ==
    /\ server = "serving" /\ should_exit
    /\ server' = "closing"
    /\ UNCHANGED <<mode, draining, should_exit, now, kept, handler, futures>>

Leave ==
    /\ server = "closing" /\ \A r \in Requests : stage[r] = "away"
    /\ server' = "gone"
    /\ UNCHANGED <<mode, draining, should_exit, now, kept, handler, futures>>

\* The host starts another instance.
Start ==
    /\ server = "gone"
    /\ server' = "serving" /\ draining' = FALSE /\ should_exit' = FALSE
    /\ kept' = {} /\ queue' = {} /\ answered' = {}
    /\ UNCHANGED <<mode, now, stage, token, began>>

Tick ==
    /\ now < Horizon /\ now' = now + 1
    /\ UNCHANGED <<process, kept, handler, futures>>

-----------------------------------------------------------------------------
HandlerStep(r) ==
    \/ CheckKey(r) \/ FindKept(r) \/ FindNotKept(r) \/ Verify(r) \/ VerifyRaises(r) \/ Keep(r)
    \/ BodyRefused(r) \/ Admit(r) \/ TurnedAway(r) \/ Hear(r)

Next ==
    \/ \E r \in Requests : SendBack(r) \/ Enter(r) \/ HandlerStep(r) \/ OwnerAnswers(r)
    \/ Signal \/ Close \/ Leave \/ Start \/ Tick

DoorsSpec == Init /\ [][Next]_vars

\* The event loop runs every handler on, the threads and the owner answer,
\* and the server ticks.
FairDoorsSpec ==
    /\ DoorsSpec
    /\ \A r \in Requests : WF_vars(HandlerStep(r)) /\ WF_vars(OwnerAnswers(r))
    /\ WF_vars(Close) /\ WF_vars(Leave)

-----------------------------------------------------------------------------
(* Properties. *)

\* Types; and that what is kept are tokens that name an account, listed or not.
DoorsTypeOK ==
    /\ mode \in Modes /\ server \in {"serving", "closing", "gone"}
    /\ draining \in BOOLEAN /\ should_exit \in BOOLEAN
    /\ now \in 0 .. Horizon /\ kept \subseteq Tokens
    /\ stage \in [Requests -> {"away"} \union InHandler]
    /\ token \in [Requests -> Tokens \union {None}]
    /\ began \in [Requests -> 0 .. Horizon]
    /\ queue \subseteq Requests /\ answered \subseteq Requests
    /\ \A t \in kept : AccountOf[t] # None

\* "On SIGTERM what is in flight is finished and a request on a kept
\* connection is sent back to retry": no handler begins once the server has
\* been told to stop.
NothingStartsAfterTheSignal ==
    [][should_exit =>
          \A r \in Requests : stage[r] = "away" => stage'[r] = "away"]_vars

\* Where ID tokens gate the doors, who comes in has one that names a listed
\* account and had not expired (but for the verifier's skew) when its check
\* began, kept from an earlier request or not.
OnlyLiveTokensEnter ==
    [][mode = "tokens" =>
          \A r \in Requests :
              stage[r] # "body" /\ stage'[r] = "body" =>
                  /\ AccountOf[token[r]] \in Callers
                  /\ ExpOf[token[r]] + (IF stage[r] = "auth" THEN 0 ELSE Skew)
                        > (IF stage[r] = "auth" THEN now ELSE began[r])]_vars

\* The table of tokens grows past its cap by live ones only: whenever one is
\* added beyond it, none of those kept had expired when the adder's check began.
OnlyLiveTokensPastTheCap ==
    [][kept' \ kept # {} /\ Cardinality(kept') > TokenCap + 1 =>
          \E r \in Requests :
              /\ stage[r] = "keep" /\ stage'[r] # "keep"
              /\ \A t \in kept' \intersect kept : ExpOf[t] > began[r]]_vars

\* What is in flight is finished: every request that came in is told its
\* status, a stopping instance or not.
EveryRequestTold == \A r \in Requests : stage[r] = "auth" ~> stage[r] = "away"

\* A stopping instance stops, whatever still comes on its connections.
DrainEnds == draining ~> server = "gone"

=============================================================================
