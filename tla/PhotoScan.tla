------------------------------ MODULE PhotoScan ------------------------------
(***************************************************************************)
(* The Photo Map's scan of a folder (photo-map.js): generations, the       *)
(* metadata queue, and the writer that saves results to the server's cache *)
(* in batches.                                                             *)
(*                                                                         *)
(* Opening the pane, changing the folder, the dates or pressing Refresh    *)
(* starts a new generation: the old one is cancelled, the listing is read, *)
(* the cache is read once the writes under way have settled, and the items *)
(* the cache does not know are read, several at a time.  A continuation of *)
(* an older generation returns without effect, so only its accepted        *)
(* records live on: each generation has a writer, the batches of a writer  *)
(* go out one after the other, and the batches of all writers queue up     *)
(* behind one tail.                                                        *)
(***************************************************************************)
EXTENDS Integers, Sequences, FiniteSets, SequencesExt

CONSTANTS Folders,
          ItemsOf,     \* the supported media of each folder, newest first
          Workers,     \* PHOTO_MAP_METADATA_CONCURRENCY
          Batch,       \* PHOTO_MAP_CACHE_BATCH_LIMIT
          MaxRun       \* bound: the number of generations

\* what MCParts assumes of the constants
ScanAssumption == /\ Workers \in Nat \ {0} /\ Batch \in Nat \ {0} /\ MaxRun \in Nat \ {0}
                         /\ \A f \in Folders : IsInjective(ItemsOf[f])

Items == UNION {ToSet(ItemsOf[f]) : f \in Folders}
Runs  == 1 .. MaxRun

VARIABLES pane,    \* [open, folder, map, wanted, leaflet]: the pane and its map
          gen,     \* the newest generation: [run, folder, stage, ahead, left, results]
          disk,    \* [writers, tail]: the writer of each generation, the batches sent
          server   \* the items the server's cache of each folder holds

vars == <<pane, gen, disk, server>>

Stages == {"off", "listing", "settle", "cache", "scan", "finish", "done", "failed"}
NoWriter == [folder |-> "none", pending |-> <<>>, timer |-> FALSE, batches |-> <<>>, failed |-> FALSE]

Init == /\ pane \in {[open |-> FALSE, folder |-> f, map |-> FALSE, wanted |-> 0, leaflet |-> "unloaded"] :
                       f \in Folders}
        /\ gen = [run |-> 0, folder |-> pane.folder, stage |-> "off", ahead |-> 0,
                  left |-> {}, results |-> {}]
        /\ disk = [writers |-> [r \in Runs |-> NoWriter], tail |-> <<>>]
        /\ server = [f \in Folders |-> {}]

-----------------------------------------------------------------------------
(* The writer *)

\* writeChain: the next batch of a writer joins the tail when none of its own is there
Chained(d, r) ==
    LET w == d.writers[r]
    IN IF w.batches = <<>> \/ \E n \in DOMAIN d.tail : d.tail[n].run = r THEN d
       ELSE [writers |-> [d.writers EXCEPT ![r].batches = Tail(@)],
             tail |-> Append(d.tail, [run |-> r, folder |-> w.folder, items |-> Head(w.batches)])]

\* flushNow: at most one batch leaves the pending records
FlushNow(d, r) ==
    LET w == d.writers[r]
        n == IF Len(w.pending) < Batch THEN Len(w.pending) ELSE Batch
        batch == SubSeq(w.pending, 1, n)
        flushed == [w EXCEPT !.timer = FALSE, !.pending = SubSeq(w.pending, n + 1, Len(w.pending)),
                             !.batches = IF n = 0 THEN w.batches ELSE Append(w.batches, ToSet(batch))]
    IN Chained([d EXCEPT !.writers[r] = flushed], r)

\* Slip: only the timer flushes
EnqueueUnlimited(d, r, item) ==
    [d EXCEPT !.writers[r].pending = Append(@, item), !.writers[r].timer = TRUE]

Enqueue(d, r, item) ==
    LET pending == Append(d.writers[r].pending, item)
        put == [d EXCEPT !.writers[r].pending = pending]
    IN IF Len(pending) >= Batch THEN FlushNow(put, r) ELSE [put EXCEPT !.writers[r].timer = TRUE]

\* the writer of a generation exists from the end of the cache read to the end of the scan
Writing == gen.stage \in {"scan", "finish"}
Cancelled == IF Writing THEN FlushNow(disk, gen.run) ELSE disk

-----------------------------------------------------------------------------
(* Generations *)

Begin(folder) ==
    /\ gen.run < MaxRun
    /\ disk' = Cancelled
    /\ gen' = [run |-> gen.run + 1, folder |-> folder, stage |-> "listing", ahead |-> 0,
               left |-> {}, results |-> {}]
    /\ UNCHANGED server

\* initializeMap, with Leaflet there already or still to be loaded
Activate == /\ ~pane.open
            /\ Begin(pane.folder)
            /\ pane' = [pane EXCEPT !.open = TRUE, !.map = pane.leaflet = "loaded",
                                    !.wanted = IF pane.leaflet = "unloaded" THEN gen.run + 1 ELSE 0]

Deactivate == /\ pane.open /\ gen.run < MaxRun
              /\ disk' = Cancelled
              /\ gen' = [run |-> gen.run + 1, folder |-> pane.folder, stage |-> "off", ahead |-> 0,
                         left |-> {}, results |-> {}]
              /\ pane' = [pane EXCEPT !.open = FALSE, !.map = FALSE]
              /\ UNCHANGED server

\* Refresh and the date range; the map is not asked for again
Refresh == /\ pane.open
           /\ Begin(pane.folder)
           /\ UNCHANGED pane

FolderChanged(f) == /\ f # pane.folder
                    /\ pane' = [pane EXCEPT !.folder = f]
                    /\ IF pane.open THEN Begin(f) ELSE UNCHANGED <<gen, disk, server>>

LeafletLoads == /\ pane.wanted # 0
                /\ \E ok \in BOOLEAN :
                     pane' = [pane EXCEPT !.leaflet = IF ok THEN "loaded" ELSE "broken", !.wanted = 0,
                                          !.map = ok /\ pane.open /\ pane.wanted = gen.run]
                /\ UNCHANGED <<gen, disk, server>>

ListingRead == /\ gen.stage = "listing"
               /\ gen' = [gen EXCEPT !.stage = "settle", !.ahead = Len(disk.tail)]
               /\ UNCHANGED <<pane, disk, server>>

Failed == [gen EXCEPT !.stage = "failed", !.left = {}, !.results = {}]

ListingFails == /\ gen.stage = "listing"
                /\ gen' = Failed
                /\ UNCHANGED <<pane, disk, server>>

\* await cacheWriteTail: the batches that were in the tail when the await began
Settled == /\ gen.stage = "settle" /\ gen.ahead = 0
           /\ gen' = [gen EXCEPT !.stage = "cache"]
           /\ UNCHANGED <<pane, disk, server>>

\* the cache answers or fails; what it does not hold is queued
CacheAnswers == /\ gen.stage = "cache"
                /\ \E known \in {server[gen.folder], {}} :
                     gen' = [gen EXCEPT !.stage = "scan", !.results = known,
                                        !.left = ToSet(ItemsOf[gen.folder]) \ known]
                /\ disk' = [disk EXCEPT !.writers[gen.run].folder = gen.folder]
                /\ UNCHANGED <<pane, server>>

\* the items being read: of those without a result, the first in the order of the listing
Before(i) == LET s == ItemsOf[gen.folder]
             IN {j \in gen.left : \E m, n \in DOMAIN s : m < n /\ s[m] = j /\ s[n] = i}
BeingRead == {i \in gen.left : Cardinality(Before(i)) < Workers}

\* one of them has its result, an error included
ItemRead(i) == /\ gen.stage = "scan" /\ i \in BeingRead
               /\ gen' = [gen EXCEPT !.left = @ \ {i}, !.results = @ \cup {i}]
               /\ disk' = Enqueue(disk, gen.run, i)
               /\ UNCHANGED <<pane, server>>

QueueEnds == /\ gen.stage = "scan" /\ gen.left = {}
             /\ gen' = [gen EXCEPT !.stage = "finish"]
             /\ disk' = FlushNow(disk, gen.run)
             /\ UNCHANGED <<pane, server>>

FlushTimer(r) == /\ disk.writers[r].timer
                 /\ disk' = FlushNow(disk, r)
                 /\ UNCHANGED <<pane, gen, server>>

Sent(r) == \E n \in DOMAIN disk.tail : disk.tail[n].run = r
\* Slip: the batch on its way is not waited for
QuietUnsent(r) == disk.writers[r].pending = <<>> /\ disk.writers[r].batches = <<>>
\* what finish() waits for
Quiet(r) == disk.writers[r].pending = <<>> /\ disk.writers[r].batches = <<>> /\ ~Sent(r)

\* finish() throws the first write error; the catch clears what was shown
Finished == /\ gen.stage = "finish" /\ Quiet(gen.run)
            /\ gen' = IF disk.writers[gen.run].failed THEN Failed ELSE [gen EXCEPT !.stage = "done"]
            /\ UNCHANGED <<pane, disk, server>>

WriteEnds(ok) ==
    /\ disk.tail # <<>>
    /\ LET b == Head(disk.tail)
           rest == [disk EXCEPT !.tail = Tail(@), !.writers[b.run].failed = @ \/ ~ok]
       IN /\ disk' = Chained(rest, b.run)
          /\ server' = IF ok THEN [server EXCEPT ![b.folder] = @ \cup b.items] ELSE server
    /\ gen' = [gen EXCEPT !.ahead = IF @ = 0 THEN 0 ELSE @ - 1]
    /\ UNCHANGED pane

Next == \/ Activate \/ Deactivate \/ Refresh \/ LeafletLoads
        \/ \E f \in Folders : FolderChanged(f)
        \/ ListingRead \/ ListingFails \/ Settled \/ CacheAnswers
        \/ \E i \in Items : ItemRead(i)
        \/ QueueEnds \/ Finished
        \/ \E r \in Runs : FlushTimer(r)
        \/ \E ok \in BOOLEAN : WriteEnds(ok)

Spec == Init /\ [][Next]_vars

-----------------------------------------------------------------------------
TypeOK ==
    /\ pane \in [open : BOOLEAN, folder : Folders, map : BOOLEAN, wanted : 0 .. MaxRun,
                 leaflet : {"unloaded", "loaded", "broken"}]
    /\ gen.run \in 0 .. MaxRun /\ gen.folder \in Folders /\ gen.stage \in Stages
    /\ gen.ahead \in 0 .. Len(disk.tail)
    /\ gen.results \subseteq Items /\ gen.left \subseteq Items
    /\ \A r \in Runs : Len(disk.writers[r].pending) < Batch
    /\ server \in [Folders -> SUBSET Items]

\* A scan that ends well shows a result for every item of the folder on screen,
\* and each of them is in the server's cache of that folder: no batch is lost
\* between the flush timer, the batch limit, the finish and a cancelled writer,
\* and none goes to the cache of another folder (photo-map.js createCacheWriter,
\* loadCandidates).
DoneIsSaved ==
    /\ gen.stage = "done" => /\ gen.folder = pane.folder
                             /\ gen.results = ToSet(ItemsOf[pane.folder])
                             /\ gen.results \subseteq server[pane.folder]
    /\ \A f \in Folders : server[f] \subseteq ToSet(ItemsOf[f])

\* "Records accepted before cancellation remain valid persistence work": a record
\* that has no batch yet has a timer, and a batch that is not sent has one of its
\* writer before it, whose end sends it; nothing waits for an event that will not
\* come.
NothingIsStranded ==
    \A r \in Runs : LET w == disk.writers[r]
                    IN /\ w.pending # <<>> => w.timer
                       /\ w.batches # <<>> => Sent(r)

\* What keeps the two.  The records of the model,
Writer == [folder : Folders \cup {"none"}, pending : Seq(Items), timer : BOOLEAN,
           batches : Seq(SUBSET Items), failed : BOOLEAN]
Record == [run : Runs, folder : Folders, items : SUBSET Items]
Typed == /\ TypeOK
         /\ gen \in [run : Nat, folder : Folders, stage : Stages, ahead : Nat,
                    left : SUBSET Items, results : SUBSET Items]
         /\ disk \in [writers : [Runs -> Writer], tail : Seq(Record)]

\* what a writer holds and what is on its way for it,
OnTheirWay(d, r) == UNION {d.tail[n].items : n \in {m \in DOMAIN d.tail : d.tail[m].run = r}}
Held(d, r) == ToSet(d.writers[r].pending) \cup (UNION ToSet(d.writers[r].batches)) \cup OnTheirWay(d, r)

\* all of it of one folder;
OfFolder == /\ \A r \in Runs : disk.writers[r].folder \in Folders
                  => Held(disk, r) \subseteq ToSet(ItemsOf[disk.writers[r].folder])
            /\ \A n \in DOMAIN disk.tail : disk.tail[n].folder = disk.writers[disk.tail[n].run].folder
            /\ \A r \in Runs : \/ disk.writers[r].folder \in Folders
                               \/ disk.writers[r] = NoWriter /\ ~Sent(r)

\* a writer has nothing before its scan;
Begun(r) == r < gen.run \/ (r = gen.run /\ gen.stage \in {"scan", "finish", "done", "failed"})
Unborn == \A r \in Runs : ~Begun(r) => disk.writers[r] = NoWriter /\ ~Sent(r)

\* and a result is saved or held, unless a write has failed.
Running == gen.stage \in {"scan", "finish", "done"} =>
             /\ gen.run \in Runs /\ disk.writers[gen.run].folder = gen.folder
             /\ gen.results \cup gen.left = ToSet(ItemsOf[gen.folder])
             /\ gen.stage # "scan" => gen.left = {}
             /\ \/ disk.writers[gen.run].failed
                \/ gen.results \subseteq server[gen.folder] \cup Held(disk, gen.run)
             /\ gen.stage = "done" => gen.results \subseteq server[gen.folder]
OnScreen == gen.stage # "off" => gen.run \in Runs /\ pane.open /\ gen.folder = pane.folder

IInv == Typed /\ DoneIsSaved /\ NothingIsStranded /\ OfFolder /\ Unborn /\ Running /\ OnScreen
=============================================================================
