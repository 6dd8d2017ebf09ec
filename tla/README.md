# glosskernels in TLA+

glosskernels serves two reads over HTTP, `bands` (quantiles for query rows,
from a tabular model and series voices) and `misfit` (a density per row), from
one process with one device. What can go wrong in it is not the models but the
scheduling around them: many callers, one thread that owns the device, a queue
that has to push back, a cache in the device's memory, and failures that must
stay with the caller they belong to. This directory models that part.

Paths below are relative to `src/` of the repository (`src/glosskernels/...`
is the package).

## Inventory

| part | state | operations | what is hard | what makes it correct | modelled |
|---|---|---|---|---|---|
| `owner.py` Owner | `_waiting` (an OrderedDict of deques), `_cells`, `_cells_of`, futures, `stats` | `bands`/`exclusive` -> `_admit` (handlers); `_take`, `_serve`, `_recover`, `_loop` (one thread) | handlers interleave with the thread, one condition variable; a turn kept in a dictionary's order while it is walked; cycles that fail | every admitted request heard once, in turn; bounds by what waits; the thread outlives any cycle | `Owner` |
| `contexts.py` Contexts | `_held`, an OrderedDict by (caller, id) | `get`, `has`, `put`, `drop` | two eviction loops with different victims | budget and shares; what was just put stays; callers do not push one another out | `Contexts` |
| `kernels.py` `answer`, `_keep`, `_series_voices` | none of its own; calls Contexts | a cycle's reads in order: batch, kept contexts, voices | one read's refusal beside the others' answers; a context that is gone between reads | each read gets its own answer or its own refusal | `Kernels`, over `Contexts` |
| `kernels.py` `bands_many`, `prepare.py` | the worker pool | group by shape, stack, cut in passes, scatter back | indices through four regroupings; a worker that dies | a read has its own views' answers; it is refused alone, or with all of its shape | `Batch` |
| `kernels.py` `misfit` | none | conditionals over threads, folds | what is conditioned on what, where noise is drawn, folds that do not divide the rows | every column once on every other; no row in the context that scores it | `Misfit`: the plan, not the threads |
| `app.py`, `__main__.py` doors | `DRAINING`, `_TOKENS`, `_OWNER` | an endpoint's life, `handle_exit`, `/healthz` | SIGTERM at any await; exceptions to statuses | in flight is finished, nothing begins after the signal, only live tokens enter | `Doors`; `/healthz` not |
| `app.py` `Bands` | none | `parse`, `serve` | one row of quantiles for alphas, percentiles and a record's levels; raw and as read | bands, PITs and blend are each of what they are documented to be of | `Served` |
| `voices.py`, `calibration.py` | a loaded pipeline; shipped records | `seasonal_naive`, `blend`, `pit`, `levels`, `recalibrate` | edges of a histogram; lags | a record is read where its PITs fell; a season back is a season back; a blend is a band | `Voices`, `Calibration` |
| `telemetry.py` | OpenTelemetry's | logs, spans | - | - | no: I/O |
| `harness/score.py`, `harness/voices.py` | `_Once._answers`; `Calibrated._pending`, `._pits` | `walk`, `project`; a voice's `step` | answers shared by key among voices; PITs that wait for their month under a key made of the panel; months and sums read in turn | a record has what has landed, all of it, and nothing later; nobody hears another call's answer; no feature is later than its label allows | `Harness`, `Recipes`; not the scores |
| `measure.py`, `parity.py`, `harness/whatif.py`, `harness/defaults.py` | none | offline scripts | - | - | no: they time, compare and print, run by hand |

How they interact. A handler (`app._door`) parses a body in a thread pool,
calls `Owner.bands` or `Owner.exclusive`, and awaits the future it gets, or
turns `Busy`/`TooLarge` into a status. The owner's thread sleeps on `_wake`;
when it has taken a cycle it calls `Kernels.answer` (or an exclusive job's
`run`), which is the only user of Contexts, the device and the pool, and
resolves the futures. `/healthz` reads the owner's counters without its lock.

The harness is another program over the same pure parts: it walks panels with
`voices.py` and `calibration.py`, keeps the records a caller of the service
would keep, and so grades what the service will read through them.

The hazards of this code, each at its line, are listed in `PROJECT.json`.

## The modules

**`Owner`** is `owner.py`. A job is a *slot*: a client that sends one shape of
request (caller, kind, ensemble size, cells) and may send it again once it has
heard, so three or four slots keep a queue full for ever. `waiting` and
`order` are the OrderedDict: the deques, and the order of the keys. `pc` is
where the owner's thread stands:

- `lock` it needs the lock (at start, after a cycle, or notified), `asleep` it
  waits on the condition;
- `look`, `round`, `turn` it holds the lock: the `while not self._waiting`, the
  outer and the inner loop of `_take`. No handler runs then (`MaySubmit`),
  which is what the lock gives;
- `serve`, `answer`, `fail`, `publish` it is in a cycle without the lock:
  handlers are admitted between any two of these steps.

A handler's `_admit` is under the lock from end to end, so it is one action:
`RefuseTooLarge`, `RefuseBusy` or `Admit`. The kernel comes back with an answer
or a refusal for every read (`KernelAnswers`, then one `AnswerJob` per job, the
futures being resolved one at a time) or not at all (`KernelFails`, then one
`FailJob` per job). An exclusive job that is refused raises, so its refusal
takes the failure's way. `Publish` writes the counters last, as the code does.

**`FairQueue`** is what the owner promises, without lock, cells, budget or
cycles: a line per caller, first come first heard, and no line unheard for
ever. **`OwnerPromise`** maps the owner to it: a caller's line is its part of
the cycle that has not heard, then its queue.

**`Contexts`** is `contexts.py`. Only the owner's thread touches it; `put` is
nevertheless taken one eviction at a time, since what is in question is what
its two loops evict and whether they end. `drop` is a loop too, one entry at a
time (`DropOne`), until the caller has none. Entries
may be larger than a share: `put` does not check, and `Kernels._keep` checks an
estimate only. What an entry holds (`fitted`) is open here, and is what
`Kernels` puts in.

**`Kernels`** is `answer` with `_keep`, `_series_voices` and `recover`, over
the operations of `Contexts` (its variables are instantiated, not copied): a
cycle of reads is given (`Begin`), the plain ones are answered together
(`Batch`), the others one after another (`Keep...`, `Build`, `MakeRoom`,
`Get...`), then the voices speak. What the package and the device do is open: a
pass may raise, and may leave the allocator in fragments (`spent`); `Device` is
there because on CUDA a context's failed build hands its memory back at once. What an
estimator was fitted to (`[by, rows, members]`) travels with the context and
with the answer, and is what the properties are about.
**`MCKernels`** has the tables and requests of the instance.

**`Batch`** is `bands_many` with `prepare.py`: the checks (`Check`), the
preparation in line or by a pool, chunk by chunk (`PrepareInLine`,
`MapOverPool`, `WorkerPrepares`, `PoolAnswers`), then for each shape the stack,
its passes and the scatter (`Pass`, `PassRaises`, `Scatter`), and the answers
put together (`Finish`). The pool outlives the call, and may break in it
(`WorkerDies`). A read is its shape, its levels and what will be refused in it;
the views it is prepared into are numbered, and an answer is the view it was
read from and the levels it was read at. As in the code, whose a stacked row is
comes from an array laid beside the stack (`Owner`): a pass regroups its rows by the
levels their owners ask (`LevelsAt`, `RowsAsking`), reads each group off together,
and puts each slot's answer back at its row (`Told`); and a failing pass refuses the
reads in that array (`OwnersOf`). The package's pipelines (how it shares the members
out) are external.

**`Doors`** is the endpoint of `app.py` with `__main__.py`. `stage` is where a
request's handler stands between two awaits: `auth`, `verify`, `keep` in a
thread, `body`, `waiting` for its future; `away` before and after. The locked
parts of `_account` are one action each and the verifier, which runs without the
lock, is between them; it takes a token for the skew after its expiry, whose
last instant, which the library decides, the model leaves out. Of the owner
there is its promise (`FairQueue`'s): its thread, in its own time, sets the
future of a request it has (`OwnerAnswers`), and the handler is then told
(`Hear`). `handle_exit` is one action: it is a signal's handler, which the event
loop's thread runs from end to end, and no other thread reads what it sets.
Statuses are not state; each action that tells one names it: 503 `SendBack`, 401
`CheckKey`, `ListedOrNot` and `Verify`, 400 and 413 `BodyRefused`, 429 and 413
`TurnedAway`, 200, 404, 422 and 500 `Hear`, and the framework's own 500
`VerifyRaises`. A stopping process goes `serving`, `closing`, `gone`, and the
host starts another, with an empty table.

**`Calibration`**, **`Voices`**, **`Recipes`**, **`Served`** and **`Misfit`**
have no state. They are the pure parts of `calibration.py`, `voices.py`, the
harness's feature rows, `app.Bands` and `Kernels.misfit`, each with what is asked
of it (`LevelsAreTheRecords`, `NaiveLooksBack`, `RowsLookBack`, `ServedAsAsked`,
`ConditionsOnceOnEach`, ...), and **`Readings`** asks it over every small input.
Shares and levels are fractions, so nothing is rounded; a series is which of its
months are known; a feature is the months it is made of; a hash that places a tie
is any draw. In `Served` a quantile is a term: who answered and at which level, or
a row of percentiles read at one, or a mean of such, so that an answer says where
it comes from; what an answer may lack, `raw` and `pit`, is a sequence of one or
none. A body has what `parse` refuses it for where levels, voices,
horizons, histories and contexts are concerned.

**`Harness`** is `harness/score.py` and `harness/voices.py`. `plan` is one `walk`
or `project` with its origins and its burn; `stage`, `t` and `turn` are the loops
over origins, voices and reads (`NextRead`, `NextOrigin`). A call is taken voice
by voice from the outermost in (`Ask`, `AskInner`), each with the window it is
handed, and answered from the innermost out: from what `_Once` has (`FindAnswer`),
by a raw voice or a blend (`Speak`), by a calibrated one (`Recalibrate`: what has
landed, what is now pending, the record it is read through). An answer is
represented by what it was made from: the voice, the panel as handed, the horizon,
the parts of a blend, the record. `_Once`'s keys and the panel's key are the bytes
the code takes, as columns of values. `called` is for the properties only: what
each calibrated voice was asked. **`MCHarness`** has the panels, plans and voices.

**`Amounts`** is the sum of a size over a finite set. It is written as the
cardinality of a set of units, not by recursion, so that **`DataFacts`** can
prove what one element adds to it. `DataFacts` also has the lemmas on
sequences without duplicates (append, tail, remove, and who stands before
whom) that the proofs about the OrderedDict's order rest on, and those on
flattened sequences that the owner's lines and `Batch`'s stacks are.
**`Sorting`** is `numpy.sort` (`InOrder`), by the place each element comes to.

## The runs

| run | what it asks | instance |
|---|---|---|
| `owner` | the safety of the owner and its queue, liveness, and that `Owner` implements `FairQueue` | 3 callers, 6 slots, queue 8 cells, share 4, cycle budget 3 |
| `contexts` | the cache | 3 callers x 2 ids, sizes 1, 2, 4, budget 6, share 3 |
| `kernels` | a cycle's reads, and that it ends | 3 callers, 9 requests, cycles of 1 or 2 reads, 1 or 2 members, share 4, budget 8, slack 1 |
| `kernels_resend` | who sends the rows is never told they are unknown (documented; refuted) | as `kernels` |
| `kernels_memory` | a failed pass's memory is handed back (documented; refuted) | 2 callers' plain reads, no voice, on CUDA; else as `kernels` |
| `batch` | many reads at once against each alone | lists of up to 5 reads of 6 kinds, 1 or 3 members, 3 tables or 4 cells a pass, 2 workers, a pool from 3 reads |
| `batch_pool` | a failing call fails its own callers only (documented; refuted) | as `batch`, up to 4 reads |
| `readings` | the pure parts against what they are for | 3 bins of 0..2 PITs, quarters; 9 months, seasons 1, 2, 4, a year of 4; 1 to 3 voices and bodies of every history, context and horizon over them; 5 columns; up to 7 rows in every order, up to 4 folds |
| `readings_gaps` | a series a voice cannot band is refused (documented; refuted) | as `readings` |
| `doors` | a request from arrival to status, and the drain | 2 requests, 4 tokens, 3 ways of authentication, a table cleaned past 1, clock 0..2, skew 1 |
| `harness` | records, what is heard, and the burn | 2 panels of 2 series and 12 months, 6 plans, 9 voices of which 6 are walked, a key of 4 months |
| `harness_early` | what was answered joins the record once it has landed (documented; refuted) | as `harness`, one plan that begins before the key's months |

The slots are chosen so that what the code distinguishes happens: `a1` is an
exclusive job; `a1`..`a3` together pass `a`'s share, so `a` is refused as busy
by its own share; `c1` fills a share alone and is larger than a cycle's budget;
all together pass the queue's bound, so a request meets a full queue; `b2` has
another ensemble size, so it is passed over; `a2` and `a3` ride in one cycle of
two rounds; `c2` is too large for a share. Three callers are the least
with which one can be overtaken by another on account of a third. The state
spaces are complete: slots bound the queues, and the only cut is `StatCap`,
where the model stops counting: the service's counters grow for ever and
nothing but `/healthz` reads them. At `StatCap = 0` they are absent from the run;
the proofs hold for every value. Deadlock is checked in every run.

The requests of `kernels` bring tables of two sizes, one of which builds to a
share and, with the slack, past it; two callers send the same bytes, so that
their contexts have one id; one names a context that another built; one asks
for voices with a series too short for them, one with a long one. A cycle of
two reads is the least in which one read evicts, refuses or outlives another's;
what two reads cannot do in one cycle they do over several, since the contexts
stay.

In `batch` two small tables go in a pass, so that a stack of three or more views
is cut, between the views of one read too; a large table has more cells than a
pass and goes alone; reads that differ only in their levels share a pass. Three
reads go to the pool in chunks of one, four in two of two, five in two of two
and a last one of one; and four give a group of one shape around one of another.
In `readings` three bins hold an empty one between two that are not, and the
default's weight is above the least history as in the code; nine months are
longer than twice the least history and a season of four. A body of `readings`
is asked of one voice and of three, in two orders, with no record, a short one,
one that reads low and one of a wrong length for any of them, at one alpha, at
all of them in order, and at two that fall. In `harness` one panel has a series
that begins late, the other gaps; horizons 1, 2, 3 and 4 give totals apart from
months and, at 1, the same; two scored origins let what was asked at one land at
the other; a blend holds a calibrated voice and is itself calibrated, and two
calibrated voices share one raw one, so an answer is found that another asked
for. Every plan of `harness` begins at the key's months or later; the one of
`harness_early` does not. In `doors` two of the tokens may be kept beyond the
cap; the clock passes one expiry, then the other, and reaches into the skew. Two
requests are the least with which one's verification meets the other's, or one
is sent back while the other is finished.

Fairness. `FairSpec` asks for weak fairness of the owner's steps only: its
thread is scheduled, gets the lock again and again (a handler holds it for a
few statements), and a kernel call returns or raises. Nothing is assumed of
the callers: they may never ask, or ask for ever. `FairCacheSpec` asks that the
loops of a `put` and of a `drop` are run. `FairKernelsSpec` asks that the thread
that answers goes on, which is the fairness `FairSpec` has for the kernel call.
`FairDoorsSpec` asks it of each handler (the event loop and the threads run it
on), of the owner's answer to each request it has (which `EveryRequestHeard`
supports), and of the server's two ticks
(`Close`, `Leave`). A request's arrival, the signal, the clock and a new process
have none. `BatchSpec`, `HarnessSpec` and `ReadingsSpec` have none and ask nothing in
time.

### What the runs show

Of the owner: the counters by which `_admit` refuses are exact
(`CountersExact`), so what waits is within the queue's bound and the shares, and a
caller with nothing waiting is admitted beside one caller that floods
(`PushesBack`); the callers in the dictionary are those that wait, so `_take`
looks up nothing that is gone (`TurnsSound`); a request whose client waits is in
one place, once (`PendingHeldOnce`), so no future is lost or resolved twice,
through failing cycles too; a cycle is never empty, never mixes what must not be
mixed, and with several jobs is within its budget (`CycleKept`); who is passed
over stands ahead of who was served (`PassedOverGoFirst`) and nobody overtakes a
caller that waits (`NoOvertaking`). With fairness, every admitted request is heard
(`EveryRequestHeard`), no wake-up being lost, and `FairQueue` is implemented
(`KeepsPromise`).

Of the cache: what a caller holds is within its share and all of it within the
budget whenever no `put` is at work (`WithinShares`); what was put last stays,
unless it alone is over its caller's share (`JustPutStays`); `put` and `drop`
end (`CallsEnd`). The one a reader may not expect is `EvictsAnotherOnlyForThree`:
with the default share of a half, two callers can never evict one another's
contexts.

Of a cycle's answers: an answer is read from rows its own caller sent, across
cycles, evictions, and the same bytes sent by others (`AnswersAreOwn`); no read
is left open or answered in part (`EveryReadSettled`); a read that sends its
rows is told its context is unknown only if its estimate was within the slack
of a share (`UnknownOnlyNearTheShare`); and `answer` comes back (`CycleEnds`),
which is what the owner's fairness takes for granted.

Of many reads at once: through chunks, groups, stacks, passes and levels, each
read that is not refused has the answer of each of its own views, in order, at
the levels it asked (`OwnViewsOwnLevels`); and refused are the reads that would be
alone, and all reads of a shape one of whose passes failed, no other
(`RefusedWithItsShape`). So a pass that fails takes other callers' reads of its shape
along, those an earlier pass has answered included (kernels.py:418-423), although
`bands_many` says at kernels.py:338 that "reads from different callers must not fail
each other". That sentence is kept for what is wrong with a read, not for what
happens to a pass; the property says what the code does, not what the sentence does.

Of the doors: once the
server knows of the signal no handler begins (`NothingStartsAfterTheSignal`);
those in flight are told and the process leaves, whatever comes on its
connections (`EveryRequestTold`, `DrainEnds`); who enters by a token has a live
one of a listed account, kept or verified (`OnlyLiveTokensEnter`), and the table
of tokens passes its cap by live ones only (`OnlyLiveTokensPastTheCap`).

Of the pure parts: a record is read at the level under which the asked share of
it fell, in order, a grid is re-read level by level off itself, and PITs follow
the actuals through ties (`RecordsAreReadRight`); the seasonal voice starts from a
known month, as far before the month asked as its moves are long, and the
harness's rows hold nothing later than their horizon allows and the last season
that is known (`NothingLooksAhead`); a voice's bands are its own at the alphas
asked, its PIT of its raw answer, its reading through a record of its own
percentiles and its own levels, the blend of the voices as read, whatever the
order and number of voices; and what is sorted on the way stands by its alpha if
the alphas rise (`AnswersAreAsRead`); over the two default orderings
every column is conditioned once on every other and the shares make up the score
(`MisfitCoversTheChain`); the folds score every row once, and never from a context
it is in (`NoRowScoresItself`).

Of the harness: a record has PITs of known months only, each of an answer about
the panel (the months, or their sums) it is taken against
(`RecordIsPointInTime`); what was asked is in it once, at its own horizon, as soon
as the voice is asked with the month known, and not before (`NothingIsLost`); what
is heard in a call, by a listener, a blend or a calibrated voice, is of this call's
panel, origin, horizon and shipped record, though `_Once`'s key has neither panel
nor window (`HeardIsOwn`); and when scoring begins every earlier call has landed
(`BurnHasLanded`). `HeardIsOwn` rests on `ColumnsTell`, the comment's own premise
that a panel's last column tells its months from their sums, and on the names'
grammar `build` gives.

Five statements of the repository are refuted:

- *a caller whose context is unknown sends the rows again* (contexts.py): a
  context that was admitted by its estimate, and is larger than it and than a
  share, is evicted by its own `put`; the read that brought the rows hears that
  its context is unknown, and hears it again however often it sends them. What
  holds is `UnknownOnlyNearTheShare`.
- *after a failed pass the memory is handed back* (kernels.py, `recover`): a
  pass that fails inside a batch, or in a prediction, is a refusal; the cycle
  does not fail and nothing recovers.
- *a cycle that fails fails its own callers* (README.md:77): a worker process
  that dies breaks the pool, which is kept; every later call of 64 plain reads
  or more is handed it and fails.
- *a series a voice will not call is refused* (voices.py:31, kernels.py:338): a
  series long enough but with gaps may have no two known months a lag apart; the
  quantile of no moves is an error that is no refusal, and the cycle fails.
- *a panel is known by its first two years, the same under every origin*
  (harness/voices.py:285): under an origin before month 24 the key is all that is
  known, another at every origin, so what was answered there is never found again
  and its PIT joins no record. `project` with a burn on a panel of 60 months has
  such origins. What holds is that nothing is lost from month 24 on
  (`NothingIsLostFromThere`).

A condition of `AnswersAreAsRead` is worth a word. `_alphas` takes probabilities in
any order, but the bands of one voice read through a record are sorted
(app.py:421), and so are the rows a blend is the mean of (voices.py:98). With
alphas that do not rise such bands do not stand by their alphas, though
README.md:44 calls them rows x alphas, while `raw` and each voice's own bands among
several do. So `ReadAtTheirAlphas` is asked for alphas that rise (`Rises`), and all
else for alphas in any order.

## The proofs

`OwnerProofs` proves for every set of callers, every finite set of slots, all
sizes and bounds (under `OwnerAssumption`, and `HalfShare` where it matters)
that the owner has the properties listed under "theorems" of `PROJECT.json`.
The properties are not inductive as they stand. The invariants that are, each
resting on those before it:

1. `Orderly`: the types and `TurnsSound`; that the callers still to be
   visited in a round are distinct; and that an owner asleep has an empty
   order. Without the second, a caller could be visited again after its last
   job was taken.
2. `Placed`: `PendingHeldOnce`, with where `at` and `taken` are reset.
3. `Counting`: `CountersExact`, with the two bounds on the counters.
4. `Cycled`: what the cycle being taken holds, and that `budget` is what
   `CycleCells` leaves of it; from which `CycleSound` and `CycleBudget`.
5. The turn: a caller passed over stands ahead of those already served
   (`PassedOverGoFirst`), and from it that nobody overtakes (`NoOvertaking`).

Each is proved by an `...Init` and an `...Step` lemma with one step per action,
and a theorem joins them by temporal logic. `TurnFacts`, `AdmitPlace`,
`TakePlace` and `TellPlace` say once what an action does to the queues and the
futures.

`OwnerKeepsLines` is the refinement: the owner implements `Promise!InOrder`, the
initial state and the steps of `FairQueue` (its fairness, and so the rest of
`KeepsPromise`, stays with TLC). A caller's line is its part of the cycle that has
not heard, flattened, then its queue. Two facts carry it. Taking a job moves it from
the head of its caller's queue to the end of that caller's part of the cycle, so no
line changes; and the job that hears next is the first of its caller's line, since
jobs of one caller stand in the cycle in the order they were taken. Every other step
is an admission at the end of a line, a turning away of a job that is in none, or a
stutter.

So all the safety properties of `owner` are theorems: `PushesBack` is
`QueueBounded` and `BurstLeavesRoom`, `CycleKept` is `CycleSound` and
`CycleBudget`, and that no wake-up is lost (`NoLostWakeup`) is proved beside them.

`ContextsProofs` proves the four safety properties of the cache. Its inductive
invariant is `Shape`: `held` is a dictionary (each key once), what is being put
is its last entry or gone, and `put` and `drop` do not overlap. `WithinShares` is
inductive over it, the loops of `put` leaving one only where its condition is
met. `EvictsAnotherOnlyForThree` rests on arithmetic alone: while a caller
other than the one that puts is evicted, the total is over the budget, and two
shares are not.

`KernelsProofs` proves of a cycle of every length, under `KernelsAssumption`
(two shares are within the budget, as in `Contexts`), that answers are a read's
own. The property says nothing of the cache, so the invariant (`Answering`) must:
every kept context was fitted to its own caller's rows, and its id names those
rows and the ensemble (`Shelf`); with the types, and the property itself for each
outcome (`Outcomes`). `CacheIsUsedAsMeant` shows that every step of a cycle is a
step of `Contexts` or none, so the theorems of `ContextsProofs`, taken as an
instance, hold of the cache here. One of them, `JustPutStays`, is what
`UnknownIsNearTheShare` needs: what the turn puts is the turn's own and is still
there when its put is done, or was over a share (`Sent`); from which the answer
"context unknown" is told to a read that sends its rows only near the share.
`EveryReadIsSettled` has an invariant of its own (`Settling`): by the stage of the
cycle, which reads may still be open (none that is plain after the batch, none
that the turn has passed, none once the voices speak) and which voices an answer
has. So all the safety properties of `kernels` are theorems.

`BatchProofs` proves the three properties of `batch` for lists of reads of any
length, any ensembles, shapes, passes and workers. What a read is prepared into
is known where the workers' chunks are put together again (`Prepared` is
`sound`, though the last chunk is short): a table per pipeline, whose views are
the read's members in order. The invariant (`Batched`) has, beside the types
(`Typed`): which reads have been refused by then, and why (`Judged`); that the
tables are what was made of the sound reads, each unanswered or with its own
views' answers (`Tabled`); that of the group being passed the first `lo` places
of the stack have their own view's answer at its own read's levels (`Passing`);
that a table whose group is done has its own views' answers, unless its reads
were refused (`Grouped`); and that refused are, beside those judged, the reads
of the shapes that failed, which have no table answered (`Refusing`). The owners
laid beside the stack are the reads of its views, place by place (`OwnerFacts`,
by `FlattenMapped`), so what a pass puts back at a row, regrouped by levels on
the way, is that row's own (`ToldFacts`). The stack and what `Scatter` cuts from
it are flattened sequences, and the lemmas say where in one its parts stand. An
answer is then what the read's own tables, flattened, were answered with.

`DoorsProofs` proves the safety properties of `Doors` for any requests, tokens
and clock. Its invariant (`Doorway`) has the types; that the server's flag is up only with the
doors' own; and what a handler knows of its token between two of `_account`'s locks:
it was verified, names an account (the list is looked at later, and the table keeps
the token of an unlisted one), and had not expired, but for the skew, when the
request's check began.
The finiteness of the table, which its cap needs, is part of it.

`HarnessProofs` proves the five properties of `harness` (`NothingIsLost` where the walk
begins late enough) for every panel, plan and set of voices, under
`HarnessAssumption`. Its invariants, each over those before:

1. `Walking`: where the walk stands; an origin is within the panel, a burn's
   at or before `BurnEnd`.
2. `Heard`: whoever is being asked has the read's window, or no use for one
   (`Asking`); what was said is of this read (`Hearing`); and what `_Once` keeps
   under a key is what that voice answers to the key's origin and horizon, of a
   panel with the key's column (`Once`). `ColumnsTell` is what makes that panel
   the one of the call. From it `HeardIsOwn`.
3. `Keeping`: what is pending is of an origin and a panel it was asked at, with
   that panel's key, and a PIT of a month that was known. A key holds at least one
   column, so it too tells the months from their sums. From it
   `RecordIsPointInTime`.
4. `Burnt`: at a scored origin the furthest call of every earlier one has landed.
   From it `BurnHasLanded`.
5. `Lossless`, for walks that begin at `KeyMonths` or later, where every origin's
   key is the same: every call is pending until it has come, and then in the
   record, in one place and once (`Filed`). From it `NothingIsLost`;
   `harness_early` shows that the condition is needed.
6. `Apart`, for the types: a voice keeps its answers or its record, never both.

`ReadingsProofs` proves the five properties of `readings` for inputs of every size,
under `ReadingsAssumption` (horizons and seasons of a month at least, and the types
of what a body may hold) and the assumptions of the pure modules. The only invariant
(`InputsAreReal`) is that what is asked is of the types the lemmas need.

`NothingEverLooksAhead`: `NaiveBack` for the
voice that needs no model, `LookBack` and `LastKnown` for the feature rows. The
arithmetic is that of whole seasons: `Divided` and `LeftOver` state division as
multiplication, `BackFacts` that `back(h)` is the least whole number of years that
covers the horizon, `SeasonFacts` that a month of the season that is known is
`back(h)` months old or a year more, and `LastTwo` that two such are the latest two.
`FoldsAlwaysHoldOut` rests on the same division, and on the shuffled order having
every row once.

`ChainAlwaysCovered`: of two columns one stands before the other in the first
default ordering, and after it in the second, so each is conditioned on the other
once; and a fitted column has one conditional in each ordering, any other none.

`RecordsAlwaysReadRight`: the sum of a record's first bins rises by a bin's count at
a time, so an alpha's share of the whole falls in one bin (`levels` is then exact in
it, in fractions); what is cut at the ends keeps its order; a PIT moves with the
quantiles under an actual and with those tied with it.

`AnswersAlwaysAsRead`: what is asked in one row is cut apart where it was put
together (`CutApart`); levels that rise are left where they stand by sorting
(`RisingStays`), which the alphas, the percentiles and what a record is read at
for either are (`ReadingsRise`, `ClippedRise`, `ReadStays`); and what `parse`
lets through is what `serve` looks up (`ParsedIsUnderstood`). Alphas are in any
order; only that bands which were sorted stand by their alphas is said for
alphas that rise. That a blend rises and lies between its voices is
`BlendHolds`: sorting leaves a row of the same numbers that rises (`SortRises`,
by the places being an injection), and a sum of larger amounts is larger
(`AmountMore`).

Induction over data has no proof rule here that takes a property. Where a sum or a
flattened sequence needs one, it is done over a set of numbers: that 0 is in it, and
n + 1 with n, makes it all of `Nat`. `SelectSeq`, `SortSeq` and the operators for single
pairs and overriding of functions have no definition the provers can use: this is why
lines and stacks are flattened, sorting is `InOrder`, and answers are written as
functions over their names.

Every safety invariant and action property the passing runs check is so a theorem.
Only model-checked are liveness (`EveryRequestHeard`, `CallsEnd`, `CycleEnds`,
`EveryRequestTold`, `DrainEnds`) and the fairness of `KeepsPromise`, which are out of
the proof system's reach, `NothingIsLost` for walks that begin before `KeyMonths`
(where it does not hold), and what the runs that expect a violation show.

## What is left out

- `retry_after` and the smoothed rate behind it: a number of seconds, clamped
  to 1..60, that no step of the service depends on.
- A client cancelled while it waits, which happens when the process is stopped
  by force: its future is then resolved beside the owner.
- Of the doors: what a body's numbers are validated for, `/healthz` (its counters
  are written after the futures, without the lock, so a client may have its answer
  and read counters without it), and a client that goes away.
- The first job of a cycle is taken whatever it holds (owner.py:135), so the budget
  bounds a cycle of several jobs only, as `CycleKept` says;
  docs/deployment-design.md:211 reads as if it bounded every one.
- Of the harness: the scores; panels and their loading; a column of zeros or of
  nothing but absent values, whose key is the same for the months and their sums
  (assumed away by `ColumnsTell`); a burn longer than the panel, whose origins are
  negative; a calibrated voice under another one, which `build` would accept and
  whose window is lost on the way.
- Of `misfit`: the threads. A task reads only the frame and its own noise, and
  `map` gives results in the tasks' order, so the plan is what there is to check.
- Floating point: fits, forward passes, interpolation within a bin or a grid, the
  hash that places a tie.
- `telemetry.py`, `measure.py`, `parity.py`, `harness/whatif.py`,
  `harness/defaults.py`: I/O, and scripts that print numbers.
- Sizes are cells or bytes in small whole numbers; a read's arrays, and what
  the kernel computes from them, are left out of `Owner`.
- Python integers do not overflow; there is no width to model.

## The plan

Done, the most important behaviour first: `Owner`, `FairQueue`, `OwnerPromise`,
`Contexts`, `Kernels`, `Batch`, `Doors`, the pure parts with `Served` and
`Recipes`, and `Harness`, with the proofs above. What would come next:

1. Compositions: `Doors` over `Owner` in place of its promise, with cancelled
   clients at a forced exit; `Batch` against an abstract specification of one
   read at a time.
2. The harness's scores over small grids; `Misfit`'s threads as actions.
3. Proofs: that `bands_many` implements one read at a time, once that is specified;
   the lemmas on sums without the units they are counted by.
