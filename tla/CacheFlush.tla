----------------------------- MODULE CacheFlush -----------------------------
(***************************************************************************)
(* How FolderCacheManager (src/dropbox_browser/foldercache.py) gets its     *)
(* in-memory folder records onto disk.                                     *)
(*                                                                         *)
(* Every change of a record marks its path dirty under the manager lock     *)
(* and advances the path's write epoch.  After the lock is released some    *)
(* thread runs _flush_dirty_cache_writes: it takes all dirty marks and      *)
(* snapshots their records under the lock, writes each snapshot to a        *)
(* private temporary file without the lock, and takes the lock again only   *)
(* to compare epochs and replace the final file.  Meanwhile other threads   *)
(* change the records, invalidate one path or a whole tree, and a cleanup   *)
(* thread unlinks what a tree invalidation left behind.                     *)
(*                                                                         *)
(* The content of a record is its version: 1, 2, ... in the order in which  *)
(* the contents of a path come into being; 0 is "no record".  A mark says   *)
(* whether the record goes to disk as complete.  _is_disk_complete_locked,  *)
(* which some of the marks go by, is no state of this module: it looks at   *)
(* the path's pending children, and its answer changes without a mark (an   *)
(* invalidated child leaves its parent's set), so it may be either here.    *)
(***************************************************************************)
EXTENDS Naturals

CONSTANTS
  Paths,        \* remote folder paths
  Flushers,     \* threads that can be inside _flush_dirty_cache_writes
  Clearers,     \* calls of invalidate_tree that may overlap, each with its cleanup
  Tree,         \* the paths at or under the root given to invalidate_tree
  MaxVersion,   \* bound, for each path: the contents it goes through
  MaxEpoch,     \* bound, for each path: the epochs that _write_cache and a request advance
  MaxRepair,    \* bound: the epochs that a flush's own repair advances
  MaxTime,      \* bound: calls of invalidate_tree, less one
  MaxRestarts   \* bound: restarts of the server process

ASSUME TreeAssumption == Tree \subseteq Paths
ASSUME BoundsAssumption == /\ MaxVersion \in [Paths -> Nat]
                           /\ MaxEpoch \in [Paths -> Nat]
                           /\ MaxRepair \in Nat
                           /\ MaxTime \in Nat
                           /\ MaxRestarts \in Nat

VARIABLES
  mem,        \* mem[p]: version of _acc[p]
  epoch,      \* epoch[p]: _cache_write_epoch.get(p, 0)
  dirty,      \* dirty[p]: epoch of the mark in _dirty_cache_writes, 0 if none
  sticky,     \* sticky[p]: that mark's complete flag
  batch,      \* batch[f]: snapshots f still has to write
  staged,     \* staged[f]: the snapshot in f's temporary file (at most one)
  looping,    \* the threads in the flush loop that have taken marks
  disk,       \* disk[p]: the final cache file
  now,        \* time.time()
  cutoff,     \* _tree_invalidations of Tree's root, 0 if absent
  stage,      \* stage[c]: how far call c of invalidate_tree has come
  since,      \* since[c]: invalidated_at of that call
  todo,       \* todo[c]: known paths that it still has to invalidate
  sweep,      \* sweep[c]: files that its _cleanup_tree still has to examine
  chosen,     \* chosen[c]: the file its unlocked scan found old enough to unlink
  lastVer,    \* history: newest version of each path
  asked,      \* history: the complete flag of the newest mark or write of each path
  dead,       \* history: newest version of each path that was invalidated
  dropped,    \* history: paths whose current snapshot a failing flush lost
  restarts    \* bounds the restarts

memory == <<mem, epoch, dirty, sticky, asked>>
flushing == <<batch, staged, looping>>
clearing == <<cutoff, stage, since, todo, sweep, chosen>>
vars == <<mem, epoch, dirty, sticky, asked, batch, staged, looping, disk, now, cutoff,
          stage, since, todo, sweep, chosen, lastVer, dead, dropped, restarts>>

File == [ver: Nat, complete: BOOLEAN, at: Nat]
NoFile == [ver |-> 0, complete |-> FALSE, at |-> 0]
Snapshot == [path: Paths, ver: Nat, complete: BOOLEAN, epoch: Nat, at: Nat]

TypeOK ==
  /\ mem \in [Paths -> Nat]
  /\ epoch \in [Paths -> Nat]
  /\ dirty \in [Paths -> Nat]
  /\ sticky \in [Paths -> BOOLEAN]
  /\ batch \in [Flushers -> SUBSET Snapshot]
  /\ staged \in [Flushers -> SUBSET Snapshot]
  /\ looping \subseteq Flushers
  /\ disk \in [Paths -> File]
  /\ now \in Nat /\ cutoff \in Nat
  /\ stage \in [Clearers -> {"idle", "called", "dropping", "cleaning"}]
  /\ since \in [Clearers -> Nat]
  /\ todo \in [Clearers -> SUBSET Tree]
  /\ sweep \in [Clearers -> SUBSET Tree]
  /\ chosen \in [Clearers -> SUBSET Tree]
  /\ lastVer \in [Paths -> Nat]
  /\ asked \in [Paths -> BOOLEAN]
  /\ dead \in [Paths -> Nat]
  /\ dropped \subseteq Paths
  /\ restarts \in Nat

Init ==
  /\ mem = [p \in Paths |-> 0]
  /\ epoch = [p \in Paths |-> 0]
  /\ dirty = [p \in Paths |-> 0]
  /\ sticky = [p \in Paths |-> FALSE]
  /\ batch = [f \in Flushers |-> {}]
  /\ staged = [f \in Flushers |-> {}]
  /\ looping = {}
  /\ disk = [p \in Paths |-> NoFile]
  /\ now = 1 /\ cutoff = 0
  /\ stage = [c \in Clearers |-> "idle"]
  /\ since = [c \in Clearers |-> 0]
  /\ todo = [c \in Clearers |-> {}]
  /\ sweep = [c \in Clearers |-> {}]
  /\ chosen = [c \in Clearers |-> {}]
  /\ lastVer = [p \in Paths |-> 0]
  /\ asked = [p \in Paths |-> FALSE]
  /\ dead = [p \in Paths |-> 0]
  /\ dropped = {}
  /\ restarts = 0

(* What get() makes of the final file: a record at or before the cutoff of  *)
(* an invalidated tree is not returned.                                     *)
Hidden(p) == p \in Tree /\ disk[p].at <= cutoff
Visible(p) == disk[p].ver # 0 /\ ~Hidden(p)

-----------------------------------------------------------------------------
(* Changes of a record, under the manager lock                              *)

(* Slip: a path that is marked already keeps the epoch of its mark.         *)
MarkDirtyOnce(p, complete) ==
  /\ epoch' = [epoch EXCEPT ![p] = @ + 1]
  /\ dirty' = [dirty EXCEPT ![p] = IF @ # 0 THEN @ ELSE epoch[p] + 1]
  /\ sticky' = [sticky EXCEPT ![p] = complete \/ (dirty[p] # 0 /\ @)]
  /\ asked' = [asked EXCEPT ![p] = sticky'[p]]
  /\ dropped' = dropped \ {p}

(* _mark_cache_dirty_locked: the epoch advances, and a mark that is still   *)
(* waiting keeps its complete flag.                                         *)
MarkDirty(p, complete) ==
  /\ epoch' = [epoch EXCEPT ![p] = @ + 1]
  /\ dirty' = [dirty EXCEPT ![p] = epoch[p] + 1]
  /\ sticky' = [sticky EXCEPT ![p] = complete \/ (dirty[p] # 0 /\ @)]
  /\ asked' = [asked EXCEPT ![p] = sticky'[p]]
  /\ dropped' = dropped \ {p}

(* Any locked section that gives p a new record (compute, propagate,        *)
(* prime_direct_listing, ...) marks it dirty before it releases the lock.   *)
Record(p, complete) ==
  /\ lastVer[p] < MaxVersion[p]
  /\ lastVer' = [lastVer EXCEPT ![p] = @ + 1]
  /\ mem' = [mem EXCEPT ![p] = lastVer[p] + 1]
  /\ MarkDirty(p, complete)
  /\ UNCHANGED <<flushing, disk, now, clearing, dead, restarts>>

(* _request_with_depth: a request that found no complete file marks the     *)
(* record complete when _is_disk_complete_locked says so.                   *)
RequestComplete(p) ==
  /\ mem[p] # 0
  /\ epoch[p] < MaxEpoch[p]
  /\ MarkDirty(p, TRUE)
  /\ UNCHANGED <<mem, flushing, disk, now, clearing, lastVer, dead, restarts>>

(* _write_cache: the synchronous seam writes the final file under the lock  *)
(* and leaves a waiting mark where it is, with an epoch that is now stale.  *)
WriteCache(p, complete) ==
  /\ mem[p] # 0
  /\ epoch[p] < MaxEpoch[p]
  /\ epoch' = [epoch EXCEPT ![p] = @ + 1]
  /\ asked' = [asked EXCEPT ![p] = complete]
  /\ disk' = [disk EXCEPT ![p] = [ver |-> mem[p], complete |-> complete, at |-> now]]
  /\ dropped' = dropped \ {p}
  /\ UNCHANGED <<mem, dirty, sticky, flushing, now, clearing,
                 lastVer, dead, restarts>>

-----------------------------------------------------------------------------
(* _flush_dirty_cache_writes, thread f                                      *)

SnapshotOf(p) == [path |-> p, ver |-> mem[p], complete |-> sticky[p],
                  epoch |-> dirty[p], at |-> now]

(* The locked head of the loop: swap the dirty marks out, snapshot records. *)
TakeDirty(f) ==
  /\ batch[f] = {} /\ staged[f] = {}
  /\ \E p \in Paths : dirty[p] # 0
  /\ batch' = [batch EXCEPT ![f] = {SnapshotOf(p) : p \in {q \in Paths : dirty[q] # 0}}]
  /\ looping' = looping \cup {f}
  /\ dirty' = [p \in Paths |-> 0]
  /\ sticky' = [p \in Paths |-> FALSE]
  /\ UNCHANGED <<mem, epoch, asked, staged, disk, now, clearing, lastVer, dead,
                 dropped, restarts>>

(* The loop ends when no mark is left.                                      *)
Return(f) ==
  /\ f \in looping
  /\ batch[f] = {} /\ staged[f] = {}
  /\ \A p \in Paths : dirty[p] = 0
  /\ looping' = looping \ {f}
  /\ UNCHANGED <<memory, batch, staged, disk, now, clearing, lastVer, dead, dropped, restarts>>

(* First epoch check, under the lock: a stale snapshot is skipped ...       *)
SkipStale(f) ==
  \E e \in batch[f] :
    /\ staged[f] = {}
    /\ epoch[e.path] # e.epoch
    /\ batch' = [batch EXCEPT ![f] = @ \ {e}]
    /\ UNCHANGED <<memory, staged, looping, disk, now, clearing, lastVer, dead, dropped, restarts>>

(* ... and a current one goes to its temporary file, without the lock.      *)
Stage(f) ==
  \E e \in batch[f] :
    /\ staged[f] = {}
    /\ epoch[e.path] = e.epoch
    /\ batch' = [batch EXCEPT ![f] = @ \ {e}]
    /\ staged' = [staged EXCEPT ![f] = {e}]
    /\ UNCHANGED <<memory, looping, disk, now, clearing, lastVer, dead, dropped, restarts>>

(* Slip: the second epoch check is left out.                                *)
ReplaceUnchecked(f) ==
  \E e \in staged[f] :
    /\ disk' = [disk EXCEPT ![e.path] =
                  [ver |-> e.ver, complete |-> e.complete, at |-> e.at]]
    /\ staged' = [staged EXCEPT ![f] = @ \ {e}]
    /\ UNCHANGED <<memory, batch, looping, now, clearing, lastVer, dead, dropped, restarts>>

(* Second epoch check, under the lock: the temporary file replaces the      *)
(* final one only when nothing has marked, written or invalidated p since.  *)
Replace(f) ==
  \E e \in staged[f] :
    /\ epoch[e.path] = e.epoch
    /\ disk' = [disk EXCEPT ![e.path] =
                  [ver |-> e.ver, complete |-> e.complete, at |-> e.at]]
    /\ staged' = [staged EXCEPT ![f] = @ \ {e}]
    /\ UNCHANGED <<memory, batch, looping, now, clearing, lastVer, dead, dropped, restarts>>

(* Superseded while the temporary file was written: a live record is        *)
(* marked again from its current state, an invalidated one is let go.       *)
Supersede(f) ==
  \E e \in staged[f] :
    /\ epoch[e.path] # e.epoch
    /\ mem[e.path] # 0 => epoch[e.path] < MaxRepair
    /\ staged' = [staged EXCEPT ![f] = @ \ {e}]
    /\ IF mem[e.path] # 0 THEN \E complete \in BOOLEAN : MarkDirty(e.path, complete)
                          ELSE UNCHANGED <<epoch, dirty, sticky, asked, dropped>>
    /\ UNCHANGED <<mem, batch, looping, disk, now, clearing, lastVer, dead, restarts>>

(* An OSError other than FileNotFoundError leaves the function: the staged  *)
(* snapshot and the rest of the batch are lost.                             *)
Lost(f) == {e.path : e \in {x \in staged[f] \cup batch[f] : x.epoch = epoch[x.path]}}
FlushFails(f) ==
  /\ staged[f] # {}
  /\ dropped' = dropped \cup Lost(f)
  /\ batch' = [batch EXCEPT ![f] = {}]
  /\ staged' = [staged EXCEPT ![f] = {}]
  /\ looping' = looping \ {f}
  /\ UNCHANGED <<memory, disk, now, clearing, lastVer, dead, restarts>>

Flush(f) == TakeDirty(f) \/ SkipStale(f) \/ Stage(f) \/ Replace(f) \/ Supersede(f) \/ Return(f)

-----------------------------------------------------------------------------
(* Invalidation                                                             *)

(* Slip: invalidation leaves the write epoch where it is.                   *)
ForgetKeepsEpoch(p) ==
  /\ dirty' = [dirty EXCEPT ![p] = 0]
  /\ sticky' = [sticky EXCEPT ![p] = FALSE]
  /\ asked' = [asked EXCEPT ![p] = FALSE]
  /\ mem' = [mem EXCEPT ![p] = 0]
  /\ disk' = [disk EXCEPT ![p] = NoFile]
  /\ dead' = [dead EXCEPT ![p] = lastVer[p]]
  /\ dropped' = dropped \ {p}
  /\ UNCHANGED epoch

(* invalidate: one locked section forgets the record, retires marks and     *)
(* snapshots by the epoch, and unlinks the file.                            *)
Forget(p) ==
  /\ epoch' = [epoch EXCEPT ![p] = @ + 1]
  /\ dirty' = [dirty EXCEPT ![p] = 0]
  /\ sticky' = [sticky EXCEPT ![p] = FALSE]
  /\ asked' = [asked EXCEPT ![p] = FALSE]
  /\ mem' = [mem EXCEPT ![p] = 0]
  /\ disk' = [disk EXCEPT ![p] = NoFile]
  /\ dead' = [dead EXCEPT ![p] = lastVer[p]]
  /\ dropped' = dropped \ {p}

Invalidate(p) ==
  /\ dead[p] < lastVer[p]
  /\ Forget(p)
  /\ UNCHANGED <<flushing, now, clearing, lastVer, restarts>>

(* invalidate_tree reads the clock before it takes the lock.  The clock     *)
(* moves on before the next snapshot is taken.                              *)
ReadClock(c) ==
  /\ stage[c] \in {"idle", "cleaning"} /\ sweep[c] = {} /\ chosen[c] = {}
  /\ now < MaxTime
  /\ stage' = [stage EXCEPT ![c] = "called"]
  /\ since' = [since EXCEPT ![c] = now]
  /\ now' = now + 1
  /\ UNCHANGED <<memory, flushing, disk, cutoff, todo, sweep, chosen, lastVer, dead,
                 dropped, restarts>>

(* Slip: every known path is invalidated, inside the tree or not.            *)
InvalidateAll(c, known) ==
  /\ stage[c] = "called"
  /\ stage' = [stage EXCEPT ![c] = "dropping"]
  /\ cutoff' = since[c]
  /\ todo' = [todo EXCEPT ![c] = known \cup (Paths \ Tree)]
  /\ UNCHANGED <<memory, flushing, disk, now, since, sweep, chosen, lastVer, dead,
                 dropped, restarts>>

(* Its first locked section records the cutoff, over a later one of another *)
(* call too, and collects the paths the manager knows, which include every  *)
(* path with a record.  A file of any other path is hidden by the cutoff.   *)
InvalidateTree(c, known) ==
  /\ stage[c] = "called"
  /\ {p \in Tree : mem[p] # 0} \subseteq known
  /\ stage' = [stage EXCEPT ![c] = "dropping"]
  /\ cutoff' = since[c]
  /\ todo' = [todo EXCEPT ![c] = known]
  /\ dead' = [p \in Paths |-> IF p \in Tree \ known THEN lastVer[p] ELSE dead[p]]
  /\ UNCHANGED <<memory, flushing, disk, now, since, sweep, chosen, lastVer, dropped, restarts>>

(* Its loop over the known paths, one locked invalidate each.               *)
InvalidateKnown(c, p) ==
  /\ p \in todo[c]
  /\ todo' = [todo EXCEPT ![c] = @ \ {p}]
  /\ Forget(p)
  /\ UNCHANGED <<flushing, now, cutoff, stage, since, sweep, chosen, lastVer, restarts>>

(* _cleanup_tree, which starts after that loop, lists the files; its scan   *)
(* reads one without the lock and may choose it, ...                        *)
StartCleanup(c) ==
  /\ stage[c] = "dropping" /\ todo[c] = {}
  /\ stage' = [stage EXCEPT ![c] = "cleaning"]
  /\ sweep' = [sweep EXCEPT ![c] = {p \in Tree : disk[p].ver # 0}]
  /\ UNCHANGED <<memory, flushing, disk, now, cutoff, since, todo, chosen, lastVer, dead,
                 dropped, restarts>>

CleanupScan(c, p) ==
  /\ p \in sweep[c] /\ chosen[c] = {}
  /\ sweep' = [sweep EXCEPT ![c] = @ \ {p}]
  /\ chosen' = [chosen EXCEPT ![c] = IF disk[p].ver # 0 /\ disk[p].at <= since[c] THEN {p} ELSE {}]
  /\ UNCHANGED <<memory, flushing, disk, now, cutoff, stage, since, todo, lastVer, dead,
                 dropped, restarts>>

(* Slip: the locked part trusts the scan.                                   *)
CleanupUnlinkBlind(c, p) ==
  /\ p \in chosen[c]
  /\ chosen' = [chosen EXCEPT ![c] = {}]
  /\ disk' = [disk EXCEPT ![p] = NoFile]
  /\ UNCHANGED <<memory, flushing, now, cutoff, stage, since, todo, sweep, lastVer, dead,
                 dropped, restarts>>

(* ... and the locked part reads it again before it unlinks it.             *)
CleanupUnlink(c, p) ==
  /\ p \in chosen[c]
  /\ chosen' = [chosen EXCEPT ![c] = {}]
  /\ disk' = IF disk[p].at <= since[c] THEN [disk EXCEPT ![p] = NoFile] ELSE disk
  /\ UNCHANGED <<memory, flushing, now, cutoff, stage, since, todo, sweep, lastVer, dead,
                 dropped, restarts>>

(* The process stops anywhere and starts again: memory, epochs, temporary   *)
(* files and the cutoff are gone, the final files stay.  A hidden file that *)
(* the cleanup had not reached is an ordinary record again.                 *)
Restart ==
  /\ restarts < MaxRestarts
  /\ restarts' = restarts + 1
  /\ mem' = [p \in Paths |-> 0]
  /\ epoch' = [p \in Paths |-> 0]
  /\ dirty' = [p \in Paths |-> 0]
  /\ sticky' = [p \in Paths |-> FALSE]
  /\ batch' = [f \in Flushers |-> {}]
  /\ asked' = [p \in Paths |-> FALSE]
  /\ staged' = [f \in Flushers |-> {}]
  /\ looping' = {}
  /\ cutoff' = 0
  /\ stage' = [c \in Clearers |-> "idle"]
  /\ since' = [c \in Clearers |-> 0]
  /\ todo' = [c \in Clearers |-> {}]
  /\ sweep' = [c \in Clearers |-> {}]
  /\ chosen' = [c \in Clearers |-> {}]
  /\ dropped' = {}
  /\ dead' = [p \in Paths |-> IF disk[p].ver # 0 /\ disk[p].ver <= dead[p]
                              THEN disk[p].ver - 1 ELSE dead[p]]
  /\ UNCHANGED <<disk, now, lastVer>>

Next ==
  \/ \E p \in Paths, complete \in BOOLEAN : Record(p, complete)
  \/ \E p \in Paths : RequestComplete(p)
  \/ \E p \in Paths, complete \in BOOLEAN : WriteCache(p, complete)
  \/ \E f \in Flushers : Flush(f)
  \/ \E f \in Flushers : FlushFails(f)
  \/ \E p \in Paths : Invalidate(p)
  \/ \E c \in Clearers : ReadClock(c)
  \/ \E c \in Clearers, known \in SUBSET Tree : InvalidateTree(c, known)
  \/ \E c \in Clearers, p \in Paths : InvalidateKnown(c, p)
  \/ \E c \in Clearers : StartCleanup(c)
  \/ \E c \in Clearers, p \in Paths : CleanupScan(c, p)
  \/ \E c \in Clearers, p \in Paths : CleanupUnlink(c, p)
  \/ Restart

Spec == Init /\ [][Next]_vars

(* A thread that has taken marks stays in the flush loop until none is left *)
(* or a write fails.  That a thread which marks a path also enters the loop *)
(* is not assumed: a request that only repairs a folder does not.           *)
FairSpec == Spec /\ \A f \in Flushers : WF_vars(f \in looping /\ Flush(f))

-----------------------------------------------------------------------------
(* Properties                                                               *)

(* A record that was invalidated is never served again: no late flush, and  *)
(* no flush of several, brings back a content older than the invalidation   *)
(* ("must not recreate the invalidated record").                            *)
NoResurrection == \A p \in Paths : Visible(p) => disk[p].ver > dead[p]

(* p's record is marked, is held as a snapshot by some flusher, is on disk. *)
Waiting(p) == dirty[p] # 0 /\ dirty[p] = epoch[p]
InFlight(p) == \E f \in Flushers : \E e \in batch[f] \cup staged[f] :
                 e.path = p /\ e.epoch = epoch[p]
OnDisk(p) == disk[p].ver = mem[p] /\ disk[p].complete = asked[p]

(* No write that was asked for is lost: the newest marked record of a path, *)
(* with the complete flag its mark had, is on disk unless exactly that mark *)
(* or a snapshot of it is still on its way or a failing write lost it.      *)
(* Skipping and repairing stale snapshots, invalidations and the cleanup    *)
(* thread do not break this.  (A subtree that becomes complete because a    *)
(* child is invalidated is not marked; a later request does that.)          *)
NoLostUpdate ==
  \A p \in Paths : (mem[p] # 0 /\ p \notin dropped) =>
    OnDisk(p) \/ Waiting(p) \/ InFlight(p)

(* A late flush never replaces a newer record by an older one, nor turns    *)
(* the complete record of a content into a partial one that nobody asked    *)
(* for.                                                                     *)
Forward(p) == (disk[p].ver # 0 /\ disk'[p].ver # 0) =>
                \/ disk'[p].ver > disk[p].ver
                \/ disk'[p].ver = disk[p].ver
                   /\ ((asked'[p] /\ disk[p].complete) => disk'[p].complete)
NeverBackwards == [][\A p \in Paths : Forward(p)]_vars

(* To the callers of get() the write path is a RecordStore: only live       *)
(* records are written, a path is gone from its own invalidation on and the *)
(* others of its tree from the call's, no live file is unlinked, and what a *)
(* crash brings back is what the files hold.                                *)
Kept == [p \in Paths |-> disk[p].ver]
Served == [p \in Paths |-> IF Visible(p) THEN disk[p].ver ELSE 0]
Leaving == UNION {todo[c] : c \in Clearers}
Store == INSTANCE RecordStore WITH
  newest <- lastVer, live <- mem, kept <- Kept, served <- Served, leaving <- Leaving
ImplementsStore == Store!Spec

(* Once a thread is in the flush loop every change reaches the disk, unless *)
(* it is overtaken: the record gets a newer content, is invalidated, or a   *)
(* failing write loses it or leaves it marked for the next flush.           *)
Holds(p, v) == mem[p] = v /\ looping # {}
IsOver(p, v) == disk[p].ver >= v \/ mem[p] # v \/ p \in dropped \/ (looping = {} /\ dirty[p] # 0)
EventuallyOnDisk ==
  \A p \in Paths : \A v \in 1..MaxVersion[p] : Holds(p, v) ~> IsOver(p, v)
=============================================================================
