------------------------------ MODULE Kernels ------------------------------
(***************************************************************************)
(* A cycle's reads answered (kernels.py, `answer`): the ones that bring    *)
(* their rows and keep nothing in one batch, then one after another those  *)
(* against a kept context, built first where it is not held, then the      *)
(* voices that read the series.  Each read ends with its answer or with    *)
(* its refusal in place; an error that leaves `answer` fails the cycle,    *)
(* and the owner has the device recover.                                   *)
(*                                                                         *)
(* Only the owner's thread runs this, one cycle at a time.  What the       *)
(* package and the device do is open: a pass, a fit or a prediction may    *)
(* raise, and may raise for want of memory.                                *)
(***************************************************************************)
EXTENDS Integers, SequencesExt

CONSTANTS
    Callers,
    Tables,       \* training rows, by their bytes
    TableOf,      \* table -> its rows, columns, and what the checks ask of it
    Ensembles,    \* the sizes a cycle may have (members)
    Requests,     \* the reads that may come
    MaxReads,     \* the longest cycle
    Budget, Share,
    Slack,        \* by how much a built context may pass its estimate
    Device,       \* what the kernel runs on
    None

\* What is fitted: an ensemble to a caller's rows.
Estimators == [by : Callers, rows : Tables, members : Ensembles]
Ids == Tables \X Ensembles
Sizes == 1 .. Share + Slack

ASSUME KernelsAssumption ==
    /\ TableOf \in [Tables -> [rows : Nat \ {0}, cols : Nat \ {0}, sound : BOOLEAN, varies : BOOLEAN]]
    /\ Requests \subseteq [caller : Callers, rows : Tables \union {None}, context : Ids \union {None},
                           cache : BOOLEAN, cols : Nat \ {0}, levels : STRING,
                           voices : SUBSET {"seasonal_naive", "chronos2"}, long : BOOLEAN]
    /\ \A r \in Requests : r.rows = None <=> r.context # None     \* the door sees to it
    /\ Ensembles \subseteq Nat \ {0} /\ MaxReads \in Nat /\ Slack \in Nat
    /\ Budget \in Nat /\ Share \in Nat /\ 2 * Share <= Budget
    /\ Device \in {"cuda", "mps", "cpu"}
    /\ None \notin Callers \union [caller : Callers, id : Ids, fitted : Estimators, nbytes : Sizes]

VARIABLES
    held, putting, dropping,    \* the contexts kept between requests; nothing calls `drop`
    pc,               \* where `answer` is
    reads, members,   \* the cycle
    out,              \* its outcomes, in the reads' places
    at,               \* the next of them
    spent             \* whether a pass ran out of memory that was not handed back

cacheVars == <<held, putting, dropping>>
cycleVars == <<reads, members>>
vars == <<cacheVars, cycleVars, pc, out, at, spent>>

Cache == INSTANCE Contexts

-----------------------------------------------------------------------------
(* Outcomes. *)

Open == [is |-> "open", from |-> None, context |-> None, voices |-> {}]
KernelError == [Open EXCEPT !.is = "kernel error"]
ContextUnknown == [Open EXCEPT !.is = "context unknown"]
Answered(from, id) == [is |-> "answered", from |-> from, context |-> id, voices |-> {}]

IsAnswered(i) == out[i].is = "answered"

SettleNext(i, outcome) == out' = Append(out, outcome)  \* faulty: not in its read's place

Settle(i, outcome) == out' = [out EXCEPT ![i] = outcome]

-----------------------------------------------------------------------------
(* What the checks of a read ask. *)

Plain(i) == reads[i].context = None /\ ~reads[i].cache

Shape(i) == <<TableOf[reads[i].rows].rows, TableOf[reads[i].rows].cols>>

\* At least two rows, as many values; query rows as wide; for an ensemble,
\* a column that varies.
Sound(i) ==
    LET t == TableOf[reads[i].rows]
    IN  t.sound /\ reads[i].cols = t.cols /\ (members > 1 => t.varies)

contextId(t, m) == <<t, m>>

\* The read's rows, fitted.
Fitted(i) == [by |-> reads[i].caller, rows |-> reads[i].rows, members |-> members]

\* The read's own rows, or the context it names.
IdOf(i) == IF reads[i].context # None THEN reads[i].context ELSE contextId(reads[i].rows, members)

\* What a context is expected to take, and may take.
Estimate(t, m) == TableOf[t].rows * m
Built(t, m) == Estimate(t, m) .. Estimate(t, m) + Slack

Fits(n) == n <= Share

-----------------------------------------------------------------------------
Init ==
    /\ Cache!Init
    /\ pc = "idle" /\ reads = <<>> /\ members \in Ensembles
    /\ out = <<>> /\ at = 1
    /\ spent = FALSE

Begin ==
    /\ pc = "idle"
    /\ reads' \in UNION {[1 .. n -> Requests] : n \in 1 .. MaxReads}
    /\ members' \in Ensembles
    /\ out' = [i \in DOMAIN reads' |-> Open] /\ at' = 1
    /\ pc' = "batch"
    /\ UNCHANGED <<cacheVars, spent>>

\* The plain reads ride together, those of one shape stacked: what their
\* passes raise refuses all of them, a want of memory too.  `ready` are
\* the reads the package prepares, `broken` the shapes whose passes raise.
Batch ==
    /\ pc = "batch"
    /\ \E ready \in SUBSET {i \in DOMAIN reads : Plain(i) /\ Sound(i)} :
          \E broken \in SUBSET {Shape(i) : i \in ready} :
             /\ out' = [i \in DOMAIN reads |->
                          IF ~Plain(i) THEN Open
                          ELSE IF i \in ready /\ Shape(i) \notin broken
                               THEN Answered(Fitted(i), None)
                               ELSE KernelError]
             /\ spent' \in {spent, spent \/ broken # {}}
    /\ pc' = "kept"
    /\ UNCHANGED <<cacheVars, cycleVars, at>>

PassBy ==
    /\ pc = "kept" /\ at <= Len(reads) /\ out[at].is # "open"
    /\ at' = at + 1
    /\ UNCHANGED <<cacheVars, cycleVars, pc, out, spent>>

\* The read whose turn it is among those that are not plain.
Turn == pc = "kept" /\ at <= Len(reads) /\ out[at].is = "open"

NameContext ==
    /\ Turn /\ reads[at].context # None
    /\ pc' = "get"
    /\ UNCHANGED <<cacheVars, cycleVars, out, at, spent>>

\* `_keep`: the rows are checked, the context looked for, its size
\* estimated, and only then is it built.
Keeping ==
    /\ Turn /\ reads[at].context = None
    /\ UNCHANGED cycleVars

\* `_keep` asks whether the caller's context is there.
IsHeldByAnyone == \E c \in Callers : Cache!has(c, IdOf(at))  \* faulty

IsHeld == Cache!has(reads[at].caller, IdOf(at))

KeepRefuses ==
    /\ Keeping
    /\ \/ ~TableOf[reads[at].rows].sound
       \/ ~IsHeld /\ ~Fits(Estimate(reads[at].rows, members))
    /\ Settle(at, KernelError) /\ at' = at + 1
    /\ UNCHANGED <<cacheVars, pc, spent>>

KeepFinds ==
    /\ Keeping /\ TableOf[reads[at].rows].sound /\ IsHeld
    /\ pc' = "get"
    /\ UNCHANGED <<cacheVars, out, at, spent>>

MayBuild ==
    /\ Keeping /\ TableOf[reads[at].rows].sound /\ ~IsHeld
    /\ Fits(Estimate(reads[at].rows, members))

\* On CUDA a want of memory in a build is handed back at once, elsewhere
\* it is an error like any other.
BuildFails ==
    /\ MayBuild
    /\ Settle(at, KernelError) /\ at' = at + 1
    /\ spent' \in {spent, Device # "cuda"}
    /\ UNCHANGED <<cacheVars, pc>>

Build ==
    /\ MayBuild
    /\ \E n \in Built(reads[at].rows, members) :
          Cache!Put([caller |-> reads[at].caller, id |-> IdOf(at), nbytes |-> n,
                     fitted |-> Fitted(at)])
    /\ pc' = "room"
    /\ UNCHANGED <<out, at, spent>>

MakeRoom ==
    /\ pc = "room"
    /\ \/ (Cache!EvictOwn \/ Cache!EvictOldest) /\ pc' = pc
       \/ Cache!PutDone /\ pc' = "get"
    /\ UNCHANGED <<cycleVars, out, at, spent>>

GetUnknown ==
    /\ pc = "get" /\ ~Cache!has(reads[at].caller, IdOf(at))
    /\ Settle(at, ContextUnknown) /\ at' = at + 1 /\ pc' = "kept"
    /\ UNCHANGED <<cacheVars, cycleVars, spent>>

\* A found context is the most recent one, whatever becomes of the read.
GetAndAnswer ==
    /\ pc = "get" /\ Cache!Get(reads[at].caller, IdOf(at))
    /\ LET est == held'[Len(held')].fitted
           fit == reads[at].cols = TableOf[est.rows].cols
       IN  \/ fit /\ Settle(at, Answered(est, IdOf(at))) /\ UNCHANGED spent
           \/ Settle(at, KernelError) /\ spent' \in {spent, spent \/ fit}
    /\ at' = at + 1 /\ pc' = "kept"
    /\ UNCHANGED cycleVars

-----------------------------------------------------------------------------
(* The voices that read the series, for the reads answered so far. *)

Asking(voice) == {i \in DOMAIN reads : IsAnswered(i) /\ voice \in reads[i].voices}

SpeakOnly(i, voice) == [out[i] EXCEPT !.voices = {voice}]  \* faulty: over the others

Speak(i, voice) == [out[i] EXCEPT !.voices = @ \union {voice}]

\* A series too short is its own read's refusal.
NaiveSpeaks ==
    /\ pc = "kept" /\ at > Len(reads)
    /\ out' = [i \in DOMAIN reads |->
                 IF i \notin Asking("seasonal_naive") THEN out[i]
                 ELSE IF reads[i].long THEN Speak(i, "seasonal_naive") ELSE KernelError]
    /\ pc' = "chronos"
    /\ UNCHANGED <<cacheVars, cycleVars, at, spent>>

\* Every series of the same levels in one batch; where the batch raises,
\* one at a time, to find whose it was.
ChronosSpeaks ==
    /\ pc = "chronos"
    /\ LET groups == {{i \in Asking("chronos2") : reads[i].levels = l} : l \in {r.levels : r \in Requests}}
           readable == {g \in groups : \A i \in g : reads[i].long}
       IN  \E whole \in SUBSET readable :
              LET alone == Asking("chronos2") \ UNION whole
              IN  \E mute \in SUBSET alone :
                     /\ {i \in alone : ~reads[i].long} \subseteq mute
                     /\ out' = [i \in DOMAIN reads |->
                                  IF i \notin Asking("chronos2") THEN out[i]
                                  ELSE IF i \in mute THEN KernelError ELSE Speak(i, "chronos2")]
                     /\ spent' \in {spent, spent \/ alone # {}}
    /\ pc' = "done"
    /\ UNCHANGED <<cacheVars, cycleVars, at>>

Rest == pc' = "idle" /\ reads' = <<>> /\ out' = <<>> /\ at' = 1 /\ UNCHANGED <<cacheVars, members>>

Return == pc = "done" /\ Rest /\ UNCHANGED spent

\* What `answer` does not catch: the pool of the batch, and what a series
\* voice raises that is not its own error.  The owner then calls `recover`,
\* which may fail too.
CycleFails ==
    /\ \/ pc = "batch" /\ \E i \in DOMAIN reads : Plain(i)
       \/ pc = "kept" /\ at > Len(reads) /\ Asking("seasonal_naive") # {}
    /\ Rest /\ spent' \in {FALSE, spent}

-----------------------------------------------------------------------------
AnswerStep ==
    \/ Batch \/ PassBy \/ NameContext \/ KeepRefuses \/ KeepFinds \/ BuildFails \/ Build
    \/ MakeRoom \/ GetUnknown \/ GetAndAnswer \/ NaiveSpeaks \/ ChronosSpeaks \/ Return \/ CycleFails

Next == Begin \/ AnswerStep

KernelsSpec == Init /\ [][Next]_vars

\* The thread that answers is scheduled, and the device comes back.
FairKernelsSpec == KernelsSpec /\ WF_vars(AnswerStep)

-----------------------------------------------------------------------------
(* Properties. *)

KernelsTypeOK ==
    /\ Cache!CacheTypeOK
    /\ pc \in {"idle", "batch", "kept", "room", "get", "chronos", "done"}
    /\ reads \in Seq(Requests) /\ members \in Ensembles /\ Len(out) = Len(reads)
    /\ \A i \in DOMAIN out :
          out[i] \in [is : {"open", "answered", "kernel error", "context unknown"},
                      from : Estimators \union {None}, context : Ids \union {None},
                      voices : SUBSET {"seasonal_naive", "chronos2"}]
    /\ at \in 1 .. Len(reads) + 1
    /\ spent \in BOOLEAN

\* An answer is read from rows its own caller sent: those the read brought,
\* at the cycle's ensemble size, or those of the very context it named;
\* across cycles, evictions and the same bytes sent by others.
AnswersAreOwn ==
    \A i \in DOMAIN out :
        IsAnswered(i) =>
            IF reads[i].context = None
            THEN out[i].from = Fitted(i)
            ELSE /\ out[i].from.by = reads[i].caller
                 /\ reads[i].context = <<out[i].from.rows, out[i].from.members>>

\* A cycle leaves no read open, and answers none in part: who is answered
\* has every voice it asked, and its context's id if it has one.
EveryReadSettled ==
    pc = "done" =>
        \A i \in DOMAIN out :
            /\ out[i].is # "open"
            /\ IsAnswered(i) => /\ out[i].voices = reads[i].voices
                                /\ out[i].context = IF Plain(i) THEN None ELSE IdOf(i)

\* A read that sends its rows is told its context is unknown only where the
\* estimate that admitted it was within the slack of a share: evictions for
\* other reads and other callers never take it.
UnknownOnlyNearTheShare ==
    \A i \in DOMAIN out :
        out[i].is = "context unknown" /\ reads[i].rows # None
            => Estimate(reads[i].rows, members) + Slack > Share

\* What the owner takes for granted of the kernel: it comes back.
CycleEnds == pc # "idle" ~> pc = "idle"

\* What contexts.py says of the answer "context unknown": the caller sends
\* the rows again, and can always rebuild its context.  (One that is larger
\* than its estimate and than a share is gone before it is read.)
RowsAreNeverUnknown ==
    \A i \in DOMAIN out : out[i].is = "context unknown" => reads[i].rows = None

\* What `recover` says of itself: after a failed pass the memory is handed
\* back, so the next cycle does not start in the failed one's fragments.
\* (A pass that fails inside a batch is a refusal, and nothing recovers.)
MemoryHandedBack == pc = "idle" => ~spent

=============================================================================
