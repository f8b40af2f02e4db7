----------------------------- MODULE LocalState -----------------------------
(* The cumulative counters of the proxy and the cache that carries them over
   a restart: the token registry, the compression statistics and the warden
   statistics, each recorded by requests in several separate steps, copied by
   a flush loop in several separate steps, saved as one blob, and restored
   when the process starts again.  The three trackers share nothing but the
   store, so a behaviour follows one of them (kind).

   Abstractions: a counter's three numbers (input, output, requests) are one;
   requests use one model route, since a snapshot goes through the routes one
   after the other; the warden's findings are those it counts whatever their
   verdict; a process that dies keeps what was committed to the file. *)
EXTENDS Integers, Sequences, FiniteSets, FiniteSetsExt

CONSTANTS
    Recorders,   \* requests that may record at the same time
    Uses,        \* kind -> the paths a request may be counted under
    MaxRecords,  \* bound: requests recorded in a behaviour
    MaxBoots     \* bound: starts of the process

Kinds == {"token", "compress", "warden"}

\* How many components of its path name the counter of a level: a model route,
\* a credpool of that route, a key of that pool; the rest count everything.
Depth(level) ==
    CASE level \in {"model", "type"} -> 1
      [] level = "pool" -> 2
      [] level = "key" -> 3
      [] OTHER -> 0

Cell(level, use) == <<level, SubSeq(use, 1, Depth(level))>>

\* The levels a request adds to, in order; what is added under one lock is one step.
TokenAdds == <<{"total"}, {"model"}, {"pool"}, {"key"}>>
CompressAdds == <<{"total"}, {"model"}>>
WardenAdds == <<{"inspected"}, {"type", "found"}>>

\* Mutant: the compression totals are read before the lock on the models.
TotalsReadFirst == <<"total", "model">>

\* The levels a snapshot reads, in order.
TokenReads == <<"total", "model", "key", "pool">>
CompressReads == <<"model", "total">>
WardenReads == <<"type", "inspected", "found">>

AddOrder(kind) ==
    CASE kind = "token" -> TokenAdds [] kind = "compress" -> CompressAdds
      [] kind = "warden" -> WardenAdds

ReadOrder(kind) ==
    CASE kind = "token" -> TokenReads [] kind = "compress" -> CompressReads
      [] kind = "warden" -> WardenReads

Levels(kind) == {ReadOrder(kind)[i] : i \in 1..Len(ReadOrder(kind))}
Cells(kind) == {Cell(l, u) : l \in Levels(kind), u \in Uses[kind]}

\* A use of the token registry names the route, the pool and the key; one of
\* the other trackers a model or a type.
ASSUME UsesAssumption ==
    /\ Uses \in [Kinds -> SUBSET Seq(STRING)]
    /\ \A k \in Kinds : IsFiniteSet(Uses[k])
    /\ \A k \in Kinds : \A u \in Uses[k] : Len(u) = IF k = "token" THEN 3 ELSE 1
ASSUME RecordersAssumption == IsFiniteSet(Recorders)
ASSUME BoundsAssumption == MaxRecords \in Nat /\ MaxBoots \in Nat

VARIABLES
    kind,      \* the tracker this behaviour follows
    up,        \* the process runs
    store,     \* "file", "memory" (nothing persists) or "closed"
    disk,      \* cell -> the count in the file
    live,      \* cell -> the count in memory
    rec,       \* recorder -> its path and the next of its steps (0: idle)
    snap,      \* the flush loop's snapshot: level being read, cells left, copy
    loop,      \* "idle", "copying", "last" (the final flush) or "ended"
    stopping,  \* Close has cancelled the loops
    added,     \* history: cell -> every addition since the first start
    records, boots

vars == <<kind, up, store, disk, live, rec, snap, loop, stopping, added, records, boots>>

Zero == [c \in Cells(kind) |-> 0]
Idle == [use |-> <<>>, step |-> 0]
NoSnapshot == [level |-> 0, todo |-> {}, pools |-> {}, vals |-> Zero]

\* The counters of a level that exist: a map entry is made by its first addition.
Existing(level) == {c \in Cells(kind) : c[1] = level /\ live[c] > 0}
-----------------------------------------------------------------------------
Init ==
    /\ kind \in Kinds
    /\ up = FALSE /\ store = "closed"
    /\ disk = Zero /\ live = Zero /\ added = Zero
    /\ rec = [r \in Recorders |-> Idle]
    /\ snap = NoSnapshot /\ loop = "ended" /\ stopping = FALSE
    /\ records = 0 /\ boots = 0

\* Mutant: a restored count is added to the counter once more.
RestoredTwice(c) == disk[c] + disk[c]

\* Mutant: the breakdown is not restored.
RestoredTotals(c) == IF Depth(c[1]) < 3 THEN disk[c] ELSE 0

\* What the tracker starts from when the file's blob is read.
Restored(c) == disk[c]

\* Opening a file that cannot be read replaces it by an empty one; a path that
\* cannot be written leaves a store in memory, and perhaps the old file.
Opened(readable) ==
    IF readable THEN {<<"file", disk>>}
    ELSE {<<"file", Zero>>, <<"memory", disk>>, <<"memory", Zero>>}

\* A blob that is missing or cannot be decoded counts as none.
Loaded(readable) == IF readable THEN [c \in Cells(kind) |-> Restored(c)] ELSE Zero

\* New opens the store and restores the counters before the loop and the first
\* request start.
Boot(readable) ==
    /\ ~up /\ boots < MaxBoots
    /\ boots' = boots + 1
    /\ up' = TRUE
    /\ \E o \in Opened(readable) : store' = o[1] /\ disk' = o[2]
    /\ live' = Loaded(readable)
    /\ loop' = "idle" /\ stopping' = FALSE
    /\ UNCHANGED <<kind, rec, snap, added, records>>

Plus(counts, target) ==
    [c \in Cells(kind) |-> IF c \in target THEN counts[c] + 1 ELSE counts[c]]

\* One step of a Record call under path u: it adds to the counters of one
\* level, or to those behind one lock, making those that do not exist.
AddStep(r, u, step) ==
    LET target == {Cell(l, u) : l \in AddOrder(kind)[step]}
    IN  /\ live' = Plus(live, target) /\ added' = Plus(added, target)
        /\ rec' = [rec EXCEPT ![r] = IF step = Len(AddOrder(kind)) THEN Idle
                                    ELSE [use |-> u, step |-> step + 1]]
        /\ UNCHANGED <<kind, up, store, disk, snap, loop, stopping, boots>>

StartRecord(r, u) ==
    /\ up /\ rec[r] = Idle /\ records < MaxRecords
    /\ records' = records + 1
    /\ AddStep(r, u, 1)

ContinueRecord(r) ==
    /\ rec[r] # Idle
    /\ AddStep(r, rec[r].use, rec[r].step)
    /\ UNCHANGED records

\* A tick, or the cancelled context: the loop begins its snapshot.
BeginFlush(last) ==
    /\ loop = "idle"
    /\ last => stopping
    /\ loop' = IF last THEN "last" ELSE "copying"
    /\ snap' = NoSnapshot
    /\ UNCHANGED <<kind, up, store, disk, live, rec, stopping, added, records, boots>>

\* The snapshot goes on to its next level and lists the counters there; the
\* pools are listed together with the keys, and read after the lock is left.
NextLevel ==
    /\ loop \in {"copying", "last"}
    /\ snap.todo = {} /\ snap.level < Len(ReadOrder(kind))
    /\ LET level == ReadOrder(kind)[snap.level + 1] IN
       snap' = [snap EXCEPT
                  !.level = @ + 1,
                  !.todo  = IF level = "pool" THEN snap.pools ELSE Existing(level),
                  !.pools = IF level = "key" THEN Existing("pool") ELSE @]
    /\ UNCHANGED <<kind, up, store, disk, live, rec, loop, stopping, added, records, boots>>

ReadCell(c) ==
    /\ loop \in {"copying", "last"} /\ c \in snap.todo
    /\ snap' = [snap EXCEPT !.todo = @ \ {c}, !.vals[c] = live[c]]
    /\ UNCHANGED <<kind, up, store, disk, live, rec, loop, stopping, added, records, boots>>

\* The loop goes on after a tick's flush, whether it was saved or not, and ends
\* after the final one.
AfterFlush == IF loop = "last" THEN "ended" ELSE "idle"

CopyDone ==
    /\ loop \in {"copying", "last"}
    /\ snap.todo = {} /\ snap.level = Len(ReadOrder(kind))

\* The copy overwrites the blob in one transaction.
Save ==
    /\ CopyDone /\ store = "file"
    /\ disk' = snap.vals
    /\ loop' = AfterFlush /\ snap' = NoSnapshot
    /\ UNCHANGED <<kind, up, store, live, rec, stopping, added, records, boots>>

\* Mutant: a write that fails ends the loop.
SaveLostEnds ==
    /\ CopyDone
    /\ loop' = "ended" /\ snap' = NoSnapshot
    /\ UNCHANGED <<kind, up, store, disk, live, rec, stopping, added, records, boots>>

\* The write fails, or goes to a store in memory or a closed one: only a warning.
SaveLost ==
    /\ CopyDone
    /\ loop' = AfterFlush /\ snap' = NoSnapshot
    /\ UNCHANGED <<kind, up, store, disk, live, rec, stopping, added, records, boots>>

\* Close cancels the loops and then closes the store, waiting for nobody.
\* Requests may go on: a stop from the admin page keeps the process.
Close ==
    /\ up /\ ~stopping
    /\ stopping' = TRUE
    /\ UNCHANGED <<kind, up, store, disk, live, rec, snap, loop, added, records, boots>>

CloseStore ==
    /\ stopping /\ store # "closed"
    /\ store' = "closed"
    /\ UNCHANGED <<kind, up, disk, live, rec, snap, loop, stopping, added, records, boots>>

\* The process ends, after Close or at any other moment.
Die ==
    /\ up
    /\ up' = FALSE /\ store' = "closed"
    /\ live' = Zero /\ rec' = [r \in Recorders |-> Idle]
    /\ snap' = NoSnapshot /\ loop' = "ended" /\ stopping' = FALSE
    /\ UNCHANGED <<kind, disk, added, records, boots>>

Flushing == (\E last \in BOOLEAN : BeginFlush(last)) \/ NextLevel \/ \E c \in snap.todo : ReadCell(c)

Next ==
    \/ \E readable \in BOOLEAN : Boot(readable)
    \/ \E r \in Recorders : ContinueRecord(r) \/ \E u \in Uses[kind] : StartRecord(r, u)
    \/ Flushing \/ Save \/ SaveLost
    \/ Close \/ CloseStore \/ Die

Spec == Init /\ [][Next]_vars

\* The ticker keeps firing and the loop keeps running; a write that can be
\* retried for ever succeeds in the end.
FairSpec == Spec /\ WF_vars(Flushing) /\ WF_vars(SaveLost) /\ SF_vars(Save)
-----------------------------------------------------------------------------
TypeOK ==
    /\ kind \in Kinds
    /\ up \in BOOLEAN /\ stopping \in BOOLEAN
    /\ store \in {"file", "memory", "closed"}
    /\ disk \in [Cells(kind) -> Nat]
    /\ live \in [Cells(kind) -> Nat]
    /\ added \in [Cells(kind) -> Nat]
    /\ rec \in [Recorders -> {Idle} \cup
                 [use : Uses[kind], step : 2..Len(AddOrder(kind))]]
    /\ snap \in [level : 0..Len(ReadOrder(kind)), todo : SUBSET Cells(kind),
                 pools : SUBSET Cells(kind), vals : [Cells(kind) -> Nat]]
    /\ loop \in {"idle", "copying", "last", "ended"}
    /\ records \in 0..MaxRecords /\ boots \in 0..MaxBoots

\* The counters that break a total down.
Parts(c) ==
    CASE c[1] = "pool" -> {k \in Cells(kind) : k[1] = "key" /\ SubSeq(k[2], 1, 2) = c[2]}
      [] c[1] = "total" /\ kind = "compress" -> {m \in Cells(kind) : m[1] = "model"}
      [] c[1] = "found" -> {t \in Cells(kind) : t[1] = "type"}
      [] OTHER -> {}

\* A report never breaks a total down into more than the total: the keys of a
\* pool into more than the pool, the models into more than all compressions, the
\* types into more than all findings.  Nothing locks the whole of a record or of
\* a snapshot; it rests on the parts being added after and read before the
\* total, also in a blob that a crash and a restart make the new baseline.
PartsCovered ==
    \A c \in Cells(kind) :
        /\ MapThenSumSet(LAMBDA p : disk[p], Parts(c)) <= disk[c]
        /\ MapThenSumSet(LAMBDA p : live[p], Parts(c)) <= live[c]

\* No restart and no flush, in whatever order with the requests that record,
\* makes a counter exceed what requests have added to it since the beginning.
CountedOnce == \A c \in Cells(kind) : disk[c] <= added[c] /\ live[c] <= added[c]

\* What one flush has persisted no later flush takes back, of this process or
\* of a later one: only a start that cannot read the file loses it.
PersistedOnlyGrows == [][up => \A c \in Cells(kind) : disk'[c] >= disk[c]]_vars

\* The file catches up with the counters whenever requests leave them alone for
\* long enough: the loop outlives writes that fail and, unless the process is
\* stopped or its store is in memory, no addition stays in memory for ever.
FileCatchesUp ==
    []<>(\/ disk = live
         \/ \E r \in Recorders : rec[r] # Idle
         \/ ~up \/ stopping \/ store # "file")
=============================================================================
