-------------------------- MODULE CacheFlushProofs --------------------------
(***************************************************************************)
(* Proofs about CacheFlush, for every set of paths, threads and bounds.     *)
(*                                                                         *)
(* The argument: the epoch of a path singles out at most the newest mark or *)
(* snapshot of its current record.  So a snapshot that passes the second    *)
(* epoch check is a snapshot of the record that is still in memory, and     *)
(* that record is younger than every invalidation of its path.              *)
(***************************************************************************)
EXTENDS CacheFlush, TLAPS

Held(f) == batch[f] \cup staged[f]

(* Versions are handed out in order; an invalidated record leaves memory.   *)
VersionsOrdered ==
  \A p \in Paths : /\ mem[p] <= lastVer[p]
                   /\ disk[p].ver <= lastVer[p]
                   /\ dead[p] <= lastVer[p]
                   /\ mem[p] # 0 => dead[p] < mem[p] /\ disk[p].ver <= mem[p]

(* A file not newer than the last invalidation is one that a recursive      *)
(* invalidation has hidden and the cleanup thread has yet to unlink.        *)
DeadFilesHidden ==
  \A p \in Paths : disk[p].ver # 0 /\ disk[p].ver <= dead[p] => Hidden(p)

(* A file without a record in memory is from before a restart: a call that  *)
(* has read the clock but not taken the lock is younger than it, so its     *)
(* cutoff will hide the file, and will go on hiding one that is hidden.     *)
OldFiles ==
  \A p \in Paths : disk[p].ver # 0 /\ (mem[p] = 0 \/ disk[p].ver <= dead[p]) =>
    \A c \in Clearers : stage[c] = "called" => disk[p].at <= since[c]

(* Times: nothing is stamped after now, and the cutoff lies strictly before *)
(* now, so that what is snapshot from here on is not hidden by it; no stamp *)
(* is 0, the cutoff of a tree that was never invalidated.                   *)
TimesOrdered ==
  /\ cutoff < now
  /\ \A c \in Clearers : since[c] < now
  /\ \A p \in Paths : disk[p].at <= now /\ (disk[p].ver # 0 => disk[p].at # 0)
  /\ \A f \in Flushers : \A e \in Held(f) : e.at # 0

(* A mark belongs to a live record; unless _write_cache has overtaken it,   *)
(* it carries the complete flag that was asked for last.                    *)
MarksLive ==
  \A p \in Paths : dirty[p] # 0 =>
    /\ mem[p] # 0
    /\ dirty[p] <= epoch[p]
    /\ dirty[p] = epoch[p] => sticky[p] = asked[p]

(* What is stamped at time t for p is hidden only while some call has yet to *)
(* invalidate p, and is too young for the cleanup of a call that has not.   *)
Going(p) == \E c \in Clearers : p \in todo[c]
Young(p, t) ==
  /\ p \in Tree /\ t <= cutoff => Going(p)
  /\ \A c \in Clearers :
       stage[c] \in {"dropping", "cleaning"} /\ p \in Tree /\ t <= since[c] => p \in todo[c]

(* A held snapshot with the current epoch is the record in memory, nothing  *)
(* marks it again, and it is young enough not to be hidden.                 *)
SnapshotsCurrent ==
  \A f \in Flushers : \A e \in Held(f) :
    /\ 0 < e.epoch /\ e.epoch <= epoch[e.path]
    /\ e.epoch = epoch[e.path] =>
         /\ e.ver = mem[e.path] /\ e.ver # 0
         /\ e.complete = asked[e.path]
         /\ dirty[e.path] = 0
         /\ e.at <= now
         /\ Young(e.path, e.at)

(* The current record's own file is hidden only while invalidate_tree has   *)
(* yet to invalidate that path; a cleanup thread then does not choose it.   *)
LiveFilesKept ==
  \A p \in Paths : mem[p] # 0 /\ disk[p].ver = mem[p] => Young(p, disk[p].at)

(* What the cleanup of a call may unlink was dead when the call took the    *)
(* lock.                                                                    *)
SweptFilesDead ==
  \A c \in Clearers : \A p \in Tree :
    stage[c] \in {"dropping", "cleaning"} /\ p \notin todo[c]
      /\ disk[p].ver # 0 /\ disk[p].at <= since[c] => disk[p].ver <= dead[p]

(* A call invalidates before its cleanup thread starts.                     *)
CleanupAfter ==
  \A c \in Clearers :
    /\ todo[c] # {} => stage[c] = "dropping"
    /\ sweep[c] \cup chosen[c] # {} => stage[c] = "cleaning"

IInv ==
  /\ TypeOK
  /\ VersionsOrdered
  /\ DeadFilesHidden
  /\ OldFiles
  /\ TimesOrdered
  /\ MarksLive
  /\ SnapshotsCurrent
  /\ LiveFilesKept
  /\ SweptFilesDead
  /\ CleanupAfter
  /\ NoLostUpdate

-----------------------------------------------------------------------------
USE TreeAssumption, BoundsAssumption
USE DEF File, NoFile, memory, flushing, clearing

(* Nothing is recorded, marked, held or invalidated at the start.           *)
LEMMA InitIInv == Init => IInv
  BY DEF Init, IInv, TypeOK, VersionsOrdered, DeadFilesHidden, OldFiles, TimesOrdered,
         MarksLive, SnapshotsCurrent, Held, LiveFilesKept, Young, Going,
         SweptFilesDead, CleanupAfter, NoLostUpdate

(* A new record: its epoch makes every older mark and snapshot stale.       *)
LEMMA RecordStep ==
  ASSUME IInv, NEW p \in Paths, NEW w \in BOOLEAN, Record(p, w)
  PROVE  IInv'
<1> USE DEF IInv, Record, MarkDirty
<1>1. TypeOK' BY DEF TypeOK, Snapshot
<1>2. VersionsOrdered' BY DEF TypeOK, VersionsOrdered
<1>3. DeadFilesHidden' BY DEF TypeOK, DeadFilesHidden, Hidden
<1>4. OldFiles' BY DEF TypeOK, OldFiles, VersionsOrdered
<1>5. TimesOrdered' BY DEF TypeOK, TimesOrdered, Held
<1>6. MarksLive' BY DEF TypeOK, MarksLive
<1>7. SnapshotsCurrent' BY DEF TypeOK, SnapshotsCurrent, Held, Snapshot, Young, Going
<1>8. LiveFilesKept' BY DEF TypeOK, LiveFilesKept, VersionsOrdered, Young, Going
<1>9. SweptFilesDead' BY DEF TypeOK, SweptFilesDead, VersionsOrdered, TimesOrdered
<1>10. CleanupAfter' BY DEF CleanupAfter
<1>11. NoLostUpdate' BY DEF TypeOK, NoLostUpdate, OnDisk, Waiting, InFlight, Snapshot, MarksLive
<1>12. QED BY <1>1, <1>2, <1>3, <1>4, <1>5, <1>6, <1>7, <1>8, <1>9, <1>10, <1>11

(* A request marks the record as it is, complete.                           *)
LEMMA RequestCompleteStep ==
  ASSUME IInv, NEW p \in Paths, RequestComplete(p)
  PROVE  IInv'
<1> USE DEF IInv, RequestComplete, MarkDirty
<1>1. TypeOK' BY DEF TypeOK, Snapshot
<1>2. VersionsOrdered' BY DEF TypeOK, VersionsOrdered
<1>3. DeadFilesHidden' BY DEF TypeOK, DeadFilesHidden, Hidden
<1>4. OldFiles' BY DEF TypeOK, OldFiles, TimesOrdered
<1>5. TimesOrdered' BY DEF TypeOK, TimesOrdered, Held
<1>6. MarksLive' BY DEF TypeOK, MarksLive
<1>7. SnapshotsCurrent' BY DEF TypeOK, SnapshotsCurrent, Held, Snapshot, Young, Going
<1>8. LiveFilesKept' BY DEF TypeOK, LiveFilesKept, Young, Going
<1>9. SweptFilesDead' BY DEF TypeOK, SweptFilesDead, VersionsOrdered, TimesOrdered
<1>10. CleanupAfter' BY DEF TypeOK, CleanupAfter
<1>11. NoLostUpdate'
  <2>1. Waiting(p)' BY DEF TypeOK, Waiting
  <2>2. ASSUME NEW q \in Paths, q # p, mem'[q] # 0, q \notin dropped'
        PROVE  OnDisk(q)' \/ Waiting(q)' \/ InFlight(q)'
    <3>1. /\ mem'[q] = mem[q] /\ disk'[q] = disk[q] /\ asked'[q] = asked[q]
          /\ epoch'[q] = epoch[q] /\ dirty'[q] = dirty[q] /\ q \notin dropped
          /\ batch' = batch /\ staged' = staged
      BY <2>2 DEF TypeOK
    <3>2. OnDisk(q) \/ Waiting(q) \/ InFlight(q) BY <2>2, <3>1 DEF NoLostUpdate
    <3>3. QED BY <3>1, <3>2 DEF OnDisk, Waiting, InFlight
  <2>3. QED BY <2>1, <2>2 DEF NoLostUpdate
<1>12. QED BY <1>1, <1>2, <1>3, <1>4, <1>5, <1>6, <1>7, <1>8, <1>9, <1>10, <1>11

(* The synchronous write: the file is the live record, marks become stale.  *)
LEMMA WriteCacheStep ==
  ASSUME IInv, NEW p \in Paths, NEW w \in BOOLEAN, WriteCache(p, w)
  PROVE  IInv'
<1> USE DEF IInv, WriteCache
<1>1. TypeOK' BY DEF TypeOK, Snapshot
<1>2. VersionsOrdered' BY DEF TypeOK, VersionsOrdered, SnapshotsCurrent
<1>3. DeadFilesHidden' BY DEF TypeOK, DeadFilesHidden, Hidden, VersionsOrdered
<1>4. OldFiles' BY DEF TypeOK, OldFiles, VersionsOrdered
<1>5. TimesOrdered' BY DEF TypeOK, TimesOrdered, Held
<1>6. MarksLive' BY DEF TypeOK, MarksLive
<1>7. SnapshotsCurrent' BY DEF TypeOK, SnapshotsCurrent, Held, Snapshot, Young, Going
<1>8. LiveFilesKept' BY DEF TypeOK, LiveFilesKept, TimesOrdered, Young, Going
<1>9. SweptFilesDead' BY DEF TypeOK, SweptFilesDead, VersionsOrdered, TimesOrdered
<1>10. CleanupAfter' BY DEF CleanupAfter
<1>11. NoLostUpdate' BY DEF TypeOK, NoLostUpdate, OnDisk, Waiting, InFlight, MarksLive, Snapshot
<1>12. QED BY <1>1, <1>2, <1>3, <1>4, <1>5, <1>6, <1>7, <1>8, <1>9, <1>10, <1>11

(* Marks turn into snapshots of the same epochs.                            *)
LEMMA TakeDirtyStep ==
  ASSUME IInv, NEW f \in Flushers, TakeDirty(f)
  PROVE  IInv'
<1> USE DEF IInv, TakeDirty, SnapshotOf
<1>1. TypeOK' BY DEF TypeOK, Snapshot
<1>2. VersionsOrdered' BY DEF TypeOK, VersionsOrdered
<1>3. DeadFilesHidden' BY DEF TypeOK, DeadFilesHidden, Hidden
<1>4. OldFiles' BY DEF TypeOK, OldFiles, VersionsOrdered
<1>5. TimesOrdered' BY DEF TypeOK, TimesOrdered, Held
<1>6. MarksLive' BY DEF TypeOK, MarksLive
<1>7. SnapshotsCurrent'
  BY DEF TypeOK, SnapshotsCurrent, Held, Snapshot, MarksLive, TimesOrdered, Young, Going
<1>8. LiveFilesKept' BY DEF TypeOK, LiveFilesKept, Young, Going
<1>9. SweptFilesDead' BY DEF TypeOK, SweptFilesDead, VersionsOrdered, TimesOrdered
<1>10. CleanupAfter' BY DEF CleanupAfter
<1>11. NoLostUpdate'
  <2> SUFFICES ASSUME NEW p \in Paths, mem'[p] # 0, p \notin dropped'
               PROVE  (OnDisk(p) \/ InFlight(p))'
    BY DEF NoLostUpdate
  <2>1. CASE OnDisk(p) BY <2>1 DEF OnDisk
  <2>2. CASE Waiting(p)
    <3>1. SnapshotOf(p) \in batch'[f] BY <2>2 DEF TypeOK, Waiting
    <3>2. SnapshotOf(p).path = p /\ SnapshotOf(p).epoch = epoch'[p] BY <2>2 DEF Waiting
    <3>3. QED BY <3>1, <3>2 DEF InFlight
  <2>3. CASE InFlight(p)
    <3>1. PICK g \in Flushers : \E e \in batch[g] \cup staged[g] : e.path = p /\ e.epoch = epoch[p]
      BY <2>3 DEF InFlight
    <3>2. batch'[g] = batch[g] /\ staged'[g] = staged[g] BY <3>1 DEF TypeOK
    <3>3. QED BY <3>1, <3>2 DEF InFlight
  <2>4. QED BY <2>1, <2>2, <2>3 DEF NoLostUpdate
<1>12. QED BY <1>1, <1>2, <1>3, <1>4, <1>5, <1>6, <1>7, <1>8, <1>9, <1>10, <1>11

(* Leaving the flush loop.                                                  *)
LEMMA ReturnStep ==
  ASSUME IInv, NEW f \in Flushers, Return(f)
  PROVE  IInv'
<1> USE DEF IInv, Return
<1>1. TypeOK' BY DEF TypeOK, Snapshot
<1>2. VersionsOrdered' BY DEF TypeOK, VersionsOrdered
<1>3. DeadFilesHidden' BY DEF TypeOK, DeadFilesHidden, Hidden
<1>4. OldFiles' BY DEF TypeOK, OldFiles, TimesOrdered
<1>5. TimesOrdered' BY DEF TypeOK, TimesOrdered, Held
<1>6. MarksLive' BY DEF TypeOK, MarksLive
<1>7. SnapshotsCurrent' BY DEF TypeOK, SnapshotsCurrent, Held, Snapshot, Young, Going
<1>8. LiveFilesKept' BY DEF TypeOK, LiveFilesKept, Young, Going
<1>9. SweptFilesDead' BY DEF TypeOK, SweptFilesDead, VersionsOrdered, TimesOrdered
<1>10. CleanupAfter' BY DEF TypeOK, CleanupAfter
<1>11. NoLostUpdate' BY DEF TypeOK, NoLostUpdate, OnDisk, Waiting, InFlight, Snapshot, MarksLive
<1>12. QED BY <1>1, <1>2, <1>3, <1>4, <1>5, <1>6, <1>7, <1>8, <1>9, <1>10, <1>11

(* A stale snapshot is no one's current record.                             *)
LEMMA SkipStaleStep ==
  ASSUME IInv, NEW f \in Flushers, SkipStale(f)
  PROVE  IInv'
<1> USE DEF IInv, SkipStale
<1>1. TypeOK' BY DEF TypeOK, Snapshot
<1>2. VersionsOrdered' BY DEF TypeOK, VersionsOrdered
<1>3. DeadFilesHidden' BY DEF TypeOK, DeadFilesHidden, Hidden
<1>4. OldFiles' BY DEF TypeOK, OldFiles, VersionsOrdered
<1>5. TimesOrdered' BY DEF TypeOK, TimesOrdered, Held
<1>6. MarksLive' BY DEF TypeOK, MarksLive
<1>7. SnapshotsCurrent' BY DEF TypeOK, SnapshotsCurrent, Held, Snapshot, Young, Going
<1>8. LiveFilesKept' BY DEF TypeOK, LiveFilesKept, Young, Going
<1>9. SweptFilesDead' BY DEF TypeOK, SweptFilesDead, VersionsOrdered, TimesOrdered
<1>10. CleanupAfter' BY DEF CleanupAfter
<1>11. NoLostUpdate' BY DEF TypeOK, NoLostUpdate, OnDisk, Waiting, InFlight
<1>12. QED BY <1>1, <1>2, <1>3, <1>4, <1>5, <1>6, <1>7, <1>8, <1>9, <1>10, <1>11

(* A snapshot moves from the batch to the temporary file.                   *)
LEMMA StageStep ==
  ASSUME IInv, NEW f \in Flushers, Stage(f)
  PROVE  IInv'
<1> USE DEF IInv, Stage
<1>1. TypeOK' BY DEF TypeOK, Snapshot
<1>2. VersionsOrdered' BY DEF TypeOK, VersionsOrdered
<1>3. DeadFilesHidden' BY DEF TypeOK, DeadFilesHidden, Hidden
<1>4. OldFiles' BY DEF TypeOK, OldFiles, VersionsOrdered
<1>5. TimesOrdered' BY DEF TypeOK, TimesOrdered, Held
<1>6. MarksLive' BY DEF TypeOK, MarksLive
<1>7. SnapshotsCurrent' BY DEF TypeOK, SnapshotsCurrent, Held, Snapshot, Young, Going
<1>8. LiveFilesKept' BY DEF TypeOK, LiveFilesKept, Young, Going
<1>9. SweptFilesDead' BY DEF TypeOK, SweptFilesDead, VersionsOrdered, TimesOrdered
<1>10. CleanupAfter' BY DEF CleanupAfter
<1>11. NoLostUpdate' BY DEF TypeOK, NoLostUpdate, OnDisk, Waiting, InFlight
<1>12. QED BY <1>1, <1>2, <1>3, <1>4, <1>5, <1>6, <1>7, <1>8, <1>9, <1>10, <1>11

(* The file becomes the live record: its version is neither dead nor older. *)
LEMMA ReplaceStep ==
  ASSUME IInv, NEW f \in Flushers, Replace(f)
  PROVE  IInv'
<1> USE DEF IInv, Replace
<1>1. TypeOK' BY DEF TypeOK, Snapshot
<1>2. VersionsOrdered' BY DEF TypeOK, VersionsOrdered, SnapshotsCurrent, Held, Snapshot
<1>3. DeadFilesHidden'
  BY DEF TypeOK, DeadFilesHidden, Hidden, SnapshotsCurrent, Held, VersionsOrdered, Snapshot
<1>4. OldFiles' BY DEF TypeOK, OldFiles, VersionsOrdered, SnapshotsCurrent, Held, Snapshot
<1>5. TimesOrdered' BY DEF TypeOK, TimesOrdered, SnapshotsCurrent, Held, Snapshot
<1>6. MarksLive' BY DEF TypeOK, MarksLive
<1>7. SnapshotsCurrent' BY DEF TypeOK, SnapshotsCurrent, Held, Snapshot, Young, Going
<1>8. LiveFilesKept' BY DEF TypeOK, LiveFilesKept, SnapshotsCurrent, Held, Snapshot, Young, Going
<1>9. SweptFilesDead' BY DEF TypeOK, SweptFilesDead, SnapshotsCurrent, Held, Snapshot, Young
<1>10. CleanupAfter' BY DEF CleanupAfter
<1>11. NoLostUpdate'
  <2>1. PICK e \in staged[f] :
          /\ epoch[e.path] = e.epoch
          /\ disk' = [disk EXCEPT ![e.path] = [ver |-> e.ver, complete |-> e.complete, at |-> e.at]]
          /\ staged' = [staged EXCEPT ![f] = @ \ {e}]
    OBVIOUS
  <2>2. e \in Snapshot /\ e \in Held(f) BY DEF TypeOK, Held
  <2> SUFFICES ASSUME NEW p \in Paths, mem'[p] # 0, p \notin dropped'
               PROVE  (OnDisk(p) \/ Waiting(p) \/ InFlight(p))'
    BY DEF NoLostUpdate
  <2>3. CASE p = e.path
    BY <2>1, <2>2, <2>3 DEF OnDisk, SnapshotsCurrent, TypeOK, Snapshot
  <2>4. CASE p # e.path
    <3>1. OnDisk(p) \/ Waiting(p) \/ InFlight(p) BY DEF NoLostUpdate
    <3>2. OnDisk(p) => OnDisk(p)' BY <2>1, <2>4 DEF OnDisk, TypeOK
    <3>3. InFlight(p) => InFlight(p)' BY <2>1, <2>4 DEF InFlight, TypeOK
    <3>4. Waiting(p) => Waiting(p)' BY DEF Waiting
    <3>5. QED BY <3>1, <3>2, <3>3, <3>4
  <2>5. QED BY <2>3, <2>4
<1>12. QED BY <1>1, <1>2, <1>3, <1>4, <1>5, <1>6, <1>7, <1>8, <1>9, <1>10, <1>11

(* A superseded snapshot is dropped, or its live record marked once more.   *)
LEMMA SupersedeStep ==
  ASSUME IInv, NEW f \in Flushers, Supersede(f)
  PROVE  IInv'
<1> USE DEF IInv, Supersede, MarkDirty
<1>1. TypeOK'
  <2>1. batch' = batch /\ staged' \in [Flushers -> SUBSET Snapshot] BY DEF TypeOK
  <2>2. /\ epoch' \in [Paths -> Nat]
        /\ dirty' \in [Paths -> Nat]
        /\ sticky' \in [Paths -> BOOLEAN]
        /\ dropped' \subseteq Paths
    <3>1. PICK e \in staged[f] :
            IF mem[e.path] # 0 THEN \E w \in BOOLEAN : MarkDirty(e.path, w)
                               ELSE UNCHANGED <<epoch, dirty, sticky, asked, dropped>>
      OBVIOUS
    <3>2. e.path \in Paths BY DEF TypeOK, Snapshot
    <3>3. CASE mem[e.path] # 0
      <4>1. epoch[e.path] + 1 \in Nat BY <3>2 DEF TypeOK
      <4>2. \E w \in BOOLEAN : MarkDirty(e.path, w) BY <3>1, <3>3
      <4>3. epoch' \in [Paths -> Nat] /\ dirty' \in [Paths -> Nat]
        BY <3>2, <4>1, <4>2 DEF TypeOK
      <4>4. sticky' \in [Paths -> BOOLEAN] BY <4>2 DEF TypeOK
      <4>5. dropped' \subseteq Paths BY <4>2 DEF TypeOK
      <4>6. QED BY <4>3, <4>4, <4>5
    <3>4. CASE mem[e.path] = 0 BY <3>1, <3>4 DEF TypeOK
    <3>5. QED BY <3>3, <3>4
  <2>3. QED BY <2>1, <2>2 DEF TypeOK
<1>2. VersionsOrdered' BY DEF TypeOK, VersionsOrdered
<1>3. DeadFilesHidden' BY DEF TypeOK, DeadFilesHidden, Hidden
<1>4. OldFiles' BY DEF TypeOK, OldFiles, VersionsOrdered
<1>5. TimesOrdered' BY DEF TypeOK, TimesOrdered, Held
<1>6. MarksLive'
  <2>1. PICK e \in staged[f] : IF mem[e.path] # 0 THEN \E w \in BOOLEAN : MarkDirty(e.path, w)
                                ELSE UNCHANGED <<epoch, dirty, sticky, asked, dropped>>
    OBVIOUS
  <2>2. e.path \in Paths /\ mem' = mem BY DEF TypeOK, Snapshot
  <2>3. CASE mem[e.path] # 0
    <3>1. PICK w \in BOOLEAN : MarkDirty(e.path, w) BY <2>1, <2>3
    <3>2. /\ dirty'[e.path] = epoch'[e.path] /\ epoch'[e.path] \in Nat
          /\ asked'[e.path] = sticky'[e.path]
      BY <2>2, <3>1 DEF TypeOK
    <3>3. ASSUME NEW q \in Paths, q # e.path
          PROVE  /\ epoch'[q] = epoch[q] /\ dirty'[q] = dirty[q]
                 /\ sticky'[q] = sticky[q] /\ asked'[q] = asked[q]
      BY <2>2, <3>1, <3>3 DEF TypeOK
    <3> HIDE DEF MarkDirty
    <3>4. QED BY <2>2, <2>3, <3>2, <3>3 DEF MarksLive
  <2>4. CASE mem[e.path] = 0 BY <2>1, <2>2, <2>4 DEF MarksLive
  <2>5. QED BY <2>3, <2>4
<1>7. SnapshotsCurrent' BY DEF TypeOK, SnapshotsCurrent, Held, Snapshot, Young, Going
<1>8. LiveFilesKept' BY DEF TypeOK, LiveFilesKept, Young, Going
<1>9. SweptFilesDead' BY DEF TypeOK, SweptFilesDead, VersionsOrdered, TimesOrdered
<1>10. CleanupAfter' BY DEF CleanupAfter
<1>11. NoLostUpdate'
  <2>1. PICK e \in staged[f] :
          /\ epoch[e.path] # e.epoch
          /\ staged' = [staged EXCEPT ![f] = @ \ {e}]
          /\ IF mem[e.path] # 0 THEN \E w \in BOOLEAN : MarkDirty(e.path, w)
                                ELSE UNCHANGED <<epoch, dirty, sticky, asked, dropped>>
    OBVIOUS
  <2>2. e \in Snapshot BY DEF TypeOK
  <2> SUFFICES ASSUME NEW p \in Paths, mem'[p] # 0, p \notin dropped'
               PROVE  (OnDisk(p) \/ Waiting(p) \/ InFlight(p))'
    BY DEF NoLostUpdate
  <2>3. CASE p = e.path /\ mem[p] # 0
    <3>1. epoch'[p] = epoch[p] + 1 /\ dirty'[p] = epoch[p] + 1
      BY <2>1, <2>3 DEF TypeOK
    <3>2. QED BY <3>1 DEF Waiting, TypeOK
  <2>4. CASE p # e.path
    <3>1. epoch'[p] = epoch[p] /\ dirty'[p] = dirty[p] /\ asked'[p] = asked[p]
      BY <2>1, <2>2, <2>4 DEF TypeOK, Snapshot
    <3>2. OnDisk(p) \/ Waiting(p) \/ InFlight(p) BY <2>1, <2>4 DEF NoLostUpdate
    <3>3. OnDisk(p) => OnDisk(p)' BY <3>1 DEF OnDisk
    <3>4. InFlight(p) => InFlight(p)' BY <2>1, <2>4, <3>1 DEF InFlight, TypeOK
    <3>5. Waiting(p) => Waiting(p)' BY <3>1 DEF Waiting
    <3>6. QED BY <3>2, <3>3, <3>4, <3>5
  <2>5. mem'[p] = mem[p] OBVIOUS
  <2>6. QED BY <2>3, <2>4, <2>5
<1>12. QED BY <1>1, <1>2, <1>3, <1>4, <1>5, <1>6, <1>7, <1>8, <1>9, <1>10, <1>11

(* A failing write loses exactly the current snapshots that it held.        *)
LEMMA FlushFailsStep ==
  ASSUME IInv, NEW f \in Flushers, FlushFails(f)
  PROVE  IInv'
<1> USE DEF IInv, FlushFails, Lost
<1>1. TypeOK' BY DEF TypeOK, Snapshot
<1>2. VersionsOrdered' BY DEF TypeOK, VersionsOrdered
<1>3. DeadFilesHidden' BY DEF TypeOK, DeadFilesHidden, Hidden
<1>4. OldFiles' BY DEF TypeOK, OldFiles, VersionsOrdered
<1>5. TimesOrdered' BY DEF TypeOK, TimesOrdered, Held
<1>6. MarksLive' BY DEF TypeOK, MarksLive
<1>7. SnapshotsCurrent' BY DEF TypeOK, SnapshotsCurrent, Held, Snapshot, Young, Going
<1>8. LiveFilesKept' BY DEF TypeOK, LiveFilesKept, Young, Going
<1>9. SweptFilesDead' BY DEF TypeOK, SweptFilesDead, VersionsOrdered, TimesOrdered
<1>10. CleanupAfter' BY DEF CleanupAfter
<1>11. NoLostUpdate' BY DEF TypeOK, NoLostUpdate, OnDisk, Waiting, InFlight, Snapshot
<1>12. QED BY <1>1, <1>2, <1>3, <1>4, <1>5, <1>6, <1>7, <1>8, <1>9, <1>10, <1>11

(* An invalidation touches the snapshots and records of its own path only.  *)
LEMMA ForgetKeeps ==
  ASSUME IInv, NEW p \in Paths, Forget(p),
         \A c \in Clearers : todo'[c] \in {todo[c], todo[c] \ {p}},
         UNCHANGED <<batch, staged, now, cutoff, stage, since>>
  PROVE  SnapshotsCurrent' /\ NoLostUpdate'
<1>1. \A q \in Paths : q # p =>
        /\ epoch'[q] = epoch[q] /\ mem'[q] = mem[q] /\ asked'[q] = asked[q]
        /\ dirty'[q] = dirty[q] /\ disk'[q] = disk[q]
        /\ (q \in dropped' <=> q \in dropped)
  BY DEF Forget, IInv, TypeOK
<1>2. epoch'[p] = epoch[p] + 1 /\ epoch[p] \in Nat /\ mem'[p] = 0
  BY DEF Forget, IInv, TypeOK
<1>3. \A q \in Paths, t \in Nat : q # p /\ Young(q, t) => Young(q, t)'
  BY DEF Young, Going
<1>4. SnapshotsCurrent'
  <2> SUFFICES ASSUME NEW f \in Flushers, NEW e \in Held(f)
               PROVE  /\ 0 < e.epoch /\ e.epoch <= epoch'[e.path]
                      /\ e.epoch = epoch'[e.path] =>
                           /\ e.ver = mem'[e.path] /\ e.ver # 0
                           /\ e.complete = asked'[e.path]
                           /\ dirty'[e.path] = 0
                           /\ e.at <= now'
                           /\ Young(e.path, e.at)'
    BY DEF SnapshotsCurrent, Held
  <2>1. e \in Snapshot BY DEF Held, IInv, TypeOK
  <2>2. e.path \in Paths /\ e.epoch \in Nat /\ e.at \in Nat BY <2>1 DEF Snapshot
  <2>3. /\ 0 < e.epoch /\ e.epoch <= epoch[e.path]
        /\ e.epoch = epoch[e.path] =>
             /\ e.ver = mem[e.path] /\ e.ver # 0
             /\ e.complete = asked[e.path]
             /\ dirty[e.path] = 0
             /\ e.at <= now
             /\ Young(e.path, e.at)
    BY DEF IInv, SnapshotsCurrent
  <2>4. CASE e.path = p BY <1>2, <2>2, <2>3, <2>4
  <2>5. CASE e.path # p BY <1>1, <1>3, <2>2, <2>3, <2>5
  <2>6. QED BY <2>4, <2>5
<1>5. NoLostUpdate'
  <2> SUFFICES ASSUME NEW q \in Paths, mem'[q] # 0, q \notin dropped'
               PROVE  (OnDisk(q) \/ Waiting(q) \/ InFlight(q))'
    BY DEF NoLostUpdate
  <2>1. q # p BY <1>2
  <2>2. OnDisk(q) \/ Waiting(q) \/ InFlight(q) BY <1>1, <2>1 DEF IInv, NoLostUpdate
  <2>3. OnDisk(q) => OnDisk(q)' BY <1>1, <2>1 DEF OnDisk
  <2>4. Waiting(q) => Waiting(q)' BY <1>1, <2>1 DEF Waiting
  <2>5. InFlight(q) => InFlight(q)' BY <1>1, <2>1 DEF InFlight
  <2>6. QED BY <2>2, <2>3, <2>4, <2>5
<1>6. QED BY <1>4, <1>5

(* invalidate: the record, its file, its mark and its snapshots all go.     *)
LEMMA InvalidateStep ==
  ASSUME IInv, NEW p \in Paths, Invalidate(p)
  PROVE  IInv'
<1> USE DEF IInv, Invalidate, Forget
<1>1. TypeOK' BY DEF TypeOK, Snapshot
<1>2. VersionsOrdered' BY DEF TypeOK, VersionsOrdered
<1>3. DeadFilesHidden' BY DEF TypeOK, DeadFilesHidden, Hidden
<1>4. OldFiles' BY DEF TypeOK, OldFiles, VersionsOrdered
<1>5. TimesOrdered' BY DEF TypeOK, TimesOrdered, Held
<1>6. MarksLive' BY DEF TypeOK, MarksLive
<1>7. SnapshotsCurrent' BY ForgetKeeps DEF TypeOK
<1>8. LiveFilesKept' BY DEF TypeOK, LiveFilesKept, Young, Going
<1>9. SweptFilesDead' BY DEF TypeOK, SweptFilesDead, VersionsOrdered, TimesOrdered
<1>10. CleanupAfter' BY DEF CleanupAfter
<1>11. NoLostUpdate' BY ForgetKeeps DEF TypeOK
<1>12. QED BY <1>1, <1>2, <1>3, <1>4, <1>5, <1>6, <1>7, <1>8, <1>9, <1>10, <1>11

(* A call that has only read the clock hides nothing yet.                   *)
LEMMA ReadClockStep ==
  ASSUME IInv, NEW c \in Clearers, ReadClock(c)
  PROVE  IInv'
<1> USE DEF IInv, ReadClock
<1>1. TypeOK' BY DEF TypeOK, Snapshot
<1>2. VersionsOrdered' BY DEF TypeOK, VersionsOrdered
<1>3. DeadFilesHidden' BY DEF TypeOK, DeadFilesHidden, Hidden
<1>4. OldFiles' BY DEF TypeOK, OldFiles, TimesOrdered
<1>5. TimesOrdered' BY DEF TypeOK, TimesOrdered, Held
<1>6. MarksLive' BY DEF TypeOK, MarksLive
<1>7. SnapshotsCurrent' BY DEF TypeOK, SnapshotsCurrent, Held, Snapshot, Young, Going
<1>8. LiveFilesKept' BY DEF TypeOK, LiveFilesKept, Young, Going
<1>9. SweptFilesDead' BY DEF TypeOK, SweptFilesDead, VersionsOrdered, TimesOrdered
<1>10. CleanupAfter' BY DEF TypeOK, CleanupAfter
<1>11. NoLostUpdate' BY DEF TypeOK, NoLostUpdate, OnDisk, Waiting, InFlight, Snapshot, MarksLive
<1>12. QED BY <1>1, <1>2, <1>3, <1>4, <1>5, <1>6, <1>7, <1>8, <1>9, <1>10, <1>11

(* invalidate_tree: what is not known is hidden by the new cutoff.          *)
LEMMA InvalidateTreeStep ==
  ASSUME IInv, NEW c \in Clearers, NEW known \in SUBSET Tree, InvalidateTree(c, known)
  PROVE  IInv'
<1> USE DEF IInv, InvalidateTree
<1>1. TypeOK' BY DEF TypeOK, Snapshot
<1>2. VersionsOrdered' BY DEF TypeOK, VersionsOrdered
<1>3. DeadFilesHidden' BY DEF TypeOK, DeadFilesHidden, Hidden, OldFiles, VersionsOrdered
<1>4. OldFiles' BY DEF TypeOK, OldFiles, VersionsOrdered
<1>5. TimesOrdered' BY DEF TypeOK, TimesOrdered, Held
<1>6. MarksLive' BY DEF TypeOK, MarksLive
<1>7. SnapshotsCurrent' BY DEF TypeOK, SnapshotsCurrent, Held, Snapshot, TimesOrdered, Young, Going
<1>8. LiveFilesKept' BY DEF TypeOK, LiveFilesKept, Young, Going
<1>9. SweptFilesDead' BY DEF TypeOK, SweptFilesDead, VersionsOrdered, TimesOrdered
<1>10. CleanupAfter' BY DEF TypeOK, CleanupAfter
<1>11. NoLostUpdate' BY DEF TypeOK, NoLostUpdate, OnDisk, Waiting, InFlight
<1>12. QED BY <1>1, <1>2, <1>3, <1>4, <1>5, <1>6, <1>7, <1>8, <1>9, <1>10, <1>11

(* Its loop over the known paths.                                           *)
LEMMA InvalidateKnownStep ==
  ASSUME IInv, NEW c \in Clearers, NEW p \in Paths, InvalidateKnown(c, p)
  PROVE  IInv'
<1> USE DEF IInv, InvalidateKnown, Forget
<1>1. TypeOK' BY DEF TypeOK, Snapshot
<1>2. VersionsOrdered' BY DEF TypeOK, VersionsOrdered
<1>3. DeadFilesHidden' BY DEF TypeOK, DeadFilesHidden, Hidden
<1>4. OldFiles' BY DEF TypeOK, OldFiles, VersionsOrdered
<1>5. TimesOrdered' BY DEF TypeOK, TimesOrdered, Held
<1>6. MarksLive' BY DEF TypeOK, MarksLive
<1>7. SnapshotsCurrent' BY ForgetKeeps DEF TypeOK
<1>8. LiveFilesKept' BY DEF TypeOK, LiveFilesKept, Young, Going
<1>9. SweptFilesDead' BY DEF TypeOK, SweptFilesDead, VersionsOrdered, TimesOrdered
<1>10. CleanupAfter' BY DEF CleanupAfter
<1>11. NoLostUpdate' BY ForgetKeeps DEF TypeOK
<1>12. QED BY <1>1, <1>2, <1>3, <1>4, <1>5, <1>6, <1>7, <1>8, <1>9, <1>10, <1>11

(* The cleanup thread lists the files.                                      *)
LEMMA StartCleanupStep ==
  ASSUME IInv, NEW c \in Clearers, StartCleanup(c)
  PROVE  IInv'
<1> USE DEF IInv, StartCleanup
<1>1. TypeOK' BY DEF TypeOK, Snapshot
<1>2. VersionsOrdered' BY DEF TypeOK, VersionsOrdered
<1>3. DeadFilesHidden' BY DEF TypeOK, DeadFilesHidden, Hidden
<1>4. OldFiles' BY DEF TypeOK, OldFiles, TimesOrdered
<1>5. TimesOrdered' BY DEF TypeOK, TimesOrdered, Held
<1>6. MarksLive' BY DEF TypeOK, MarksLive
<1>7. SnapshotsCurrent' BY DEF TypeOK, SnapshotsCurrent, Held, Snapshot, Young, Going
<1>8. LiveFilesKept' BY DEF TypeOK, LiveFilesKept, Young, Going
<1>9. SweptFilesDead' BY DEF TypeOK, SweptFilesDead, VersionsOrdered, TimesOrdered
<1>10. CleanupAfter' BY DEF TypeOK, CleanupAfter
<1>11. NoLostUpdate' BY DEF TypeOK, NoLostUpdate, OnDisk, Waiting, InFlight, Snapshot, MarksLive
<1>12. QED BY <1>1, <1>2, <1>3, <1>4, <1>5, <1>6, <1>7, <1>8, <1>9, <1>10, <1>11

(* The unlocked scan only chooses.                                          *)
LEMMA CleanupScanStep ==
  ASSUME IInv, NEW c \in Clearers, NEW p \in Paths, CleanupScan(c, p)
  PROVE  IInv'
<1> USE DEF IInv, CleanupScan
<1>1. TypeOK' BY DEF TypeOK, Snapshot
<1>2. VersionsOrdered' BY DEF TypeOK, VersionsOrdered
<1>3. DeadFilesHidden' BY DEF TypeOK, DeadFilesHidden, Hidden
<1>4. OldFiles' BY DEF TypeOK, OldFiles, VersionsOrdered
<1>5. TimesOrdered' BY DEF TypeOK, TimesOrdered, Held
<1>6. MarksLive' BY DEF TypeOK, MarksLive
<1>7. SnapshotsCurrent' BY DEF TypeOK, SnapshotsCurrent, Held, Snapshot, Young, Going
<1>8. LiveFilesKept' BY DEF TypeOK, LiveFilesKept, Young, Going
<1>9. SweptFilesDead' BY DEF TypeOK, SweptFilesDead, VersionsOrdered, TimesOrdered
<1>10. CleanupAfter' BY DEF CleanupAfter
<1>11. NoLostUpdate' BY DEF TypeOK, NoLostUpdate, OnDisk, Waiting, InFlight
<1>12. QED BY <1>1, <1>2, <1>3, <1>4, <1>5, <1>6, <1>7, <1>8, <1>9, <1>10, <1>11

(* The locked re-check unlinks no live record's file.                       *)
LEMMA CleanupUnlinkStep ==
  ASSUME IInv, NEW c \in Clearers, NEW p \in Paths, CleanupUnlink(c, p)
  PROVE  IInv'
<1> USE DEF IInv, CleanupUnlink, Hidden
<1>1. TypeOK' BY DEF TypeOK, Snapshot
<1>2. VersionsOrdered' BY DEF TypeOK, VersionsOrdered
<1>3. DeadFilesHidden' BY DEF TypeOK, DeadFilesHidden, Hidden
<1>4. OldFiles' BY DEF TypeOK, OldFiles, VersionsOrdered
<1>5. TimesOrdered' BY DEF TypeOK, TimesOrdered, Held
<1>6. MarksLive' BY DEF TypeOK, MarksLive
<1>7. SnapshotsCurrent' BY DEF TypeOK, SnapshotsCurrent, Held, Snapshot, Young, Going
<1>8. LiveFilesKept' BY DEF TypeOK, LiveFilesKept, Young, Going
<1>9. SweptFilesDead' BY DEF TypeOK, SweptFilesDead, VersionsOrdered, TimesOrdered
<1>10. CleanupAfter' BY DEF CleanupAfter
<1>11. NoLostUpdate'
  <2>1. stage[c] = "cleaning" /\ todo[c] = {} /\ p \in Tree BY DEF TypeOK, CleanupAfter
  <2>2. disk[p].ver # 0 /\ disk[p].at <= since[c] => disk[p].ver <= dead[p]
    BY <2>1 DEF SweptFilesDead
  <2>3. \A q \in Paths : mem[q] # 0 /\ disk[q].ver = mem[q] => disk'[q] = disk[q]
    BY <2>2 DEF TypeOK, VersionsOrdered
  <2>4. QED BY <2>3 DEF NoLostUpdate, OnDisk, Waiting, InFlight
<1>12. QED BY <1>1, <1>2, <1>3, <1>4, <1>5, <1>6, <1>7, <1>8, <1>9, <1>10, <1>11

(* A restart forgets the cutoff, and with it what it hid.                   *)
LEMMA RestartStep ==
  ASSUME IInv, Restart
  PROVE  IInv'
<1> USE DEF IInv, Restart
<1>1. TypeOK'
  <2>1. dead' \in [Paths -> Nat]
    <3> SUFFICES ASSUME NEW p \in Paths PROVE dead'[p] \in Nat
      OBVIOUS
    <3>1. disk[p].ver \in Nat /\ dead[p] \in Nat BY DEF TypeOK
    <3>2. disk[p].ver # 0 => disk[p].ver - 1 \in Nat BY <3>1
    <3>3. QED BY <3>1, <3>2
  <2>2. QED BY <2>1 DEF TypeOK
<1>2. VersionsOrdered' BY DEF TypeOK, VersionsOrdered
<1>3. DeadFilesHidden' BY DEF TypeOK, DeadFilesHidden, Hidden
<1>4. OldFiles' BY DEF TypeOK, OldFiles, VersionsOrdered
<1>5. TimesOrdered' BY DEF TypeOK, TimesOrdered, Held
<1>6. MarksLive' BY DEF TypeOK, MarksLive
<1>7. SnapshotsCurrent' BY DEF TypeOK, SnapshotsCurrent, Held, Snapshot, Young, Going
<1>8. LiveFilesKept' BY DEF TypeOK, LiveFilesKept, Young, Going
<1>9. SweptFilesDead' BY DEF TypeOK, SweptFilesDead, VersionsOrdered, TimesOrdered
<1>10. CleanupAfter' BY DEF CleanupAfter
<1>11. NoLostUpdate' BY DEF TypeOK, NoLostUpdate, OnDisk, Waiting, InFlight
<1>12. QED BY <1>1, <1>2, <1>3, <1>4, <1>5, <1>6, <1>7, <1>8, <1>9, <1>10, <1>11

-----------------------------------------------------------------------------
(* A step that changes nothing keeps the invariant.                         *)
LEMMA StutterStep ==
  ASSUME IInv, UNCHANGED vars
  PROVE  IInv'
  BY DEF IInv, vars, TypeOK, VersionsOrdered, DeadFilesHidden, Hidden, OldFiles, TimesOrdered,
         MarksLive, SnapshotsCurrent, Held, LiveFilesKept, Young, Going, SweptFilesDead,
         CleanupAfter, NoLostUpdate, OnDisk, Waiting, InFlight

(* Every step of every thread keeps the invariant.                          *)
LEMMA NextStep ==
  ASSUME IInv, [Next]_vars
  PROVE  IInv'
<1>1. ASSUME NEW p \in Paths, NEW w \in BOOLEAN, Record(p, w) \/ WriteCache(p, w) PROVE IInv'
  BY <1>1, RecordStep, WriteCacheStep
<1>2. ASSUME NEW p \in Paths, RequestComplete(p) \/ Invalidate(p) PROVE IInv'
  BY <1>2, RequestCompleteStep, InvalidateStep
<1>3. ASSUME NEW f \in Flushers, Flush(f) \/ FlushFails(f) PROVE IInv'
  BY <1>3, TakeDirtyStep, SkipStaleStep, StageStep, ReplaceStep, SupersedeStep, ReturnStep,
     FlushFailsStep DEF Flush
<1>4. ASSUME NEW c \in Clearers, ReadClock(c) \/ StartCleanup(c) PROVE IInv'
  BY <1>4, ReadClockStep, StartCleanupStep
<1>5. ASSUME NEW c \in Clearers, NEW known \in SUBSET Tree, InvalidateTree(c, known) PROVE IInv'
  BY <1>5, InvalidateTreeStep
<1>6. ASSUME NEW c \in Clearers, NEW p \in Paths,
             InvalidateKnown(c, p) \/ CleanupScan(c, p) \/ CleanupUnlink(c, p)
      PROVE  IInv'
  BY <1>6, InvalidateKnownStep, CleanupScanStep, CleanupUnlinkStep
<1>7. QED
  BY <1>1, <1>2, <1>3, <1>4, <1>5, <1>6, RestartStep, StutterStep DEF Next

(* The inductive invariant holds in every state.                            *)
THEOREM Invariance == Spec => []IInv
<1>1. Init => IInv BY InitIInv
<1>2. IInv /\ [Next]_vars => IInv' BY NextStep
<1>3. QED BY <1>1, <1>2, PTL DEF Spec

(* Every variable keeps its type (the manager's dictionaries, the flushers' *)
(* snapshots, the cache files).                                             *)
THEOREM TypeCorrect == Spec => []TypeOK
<1>1. IInv => TypeOK BY DEF IInv
<1>2. QED BY <1>1, Invariance, PTL

(* However many threads flush, invalidate and clean up, get() never returns *)
(* a record that was invalidated.                                           *)
THEOREM NothingResurrected == Spec => []NoResurrection
<1>1. IInv => NoResurrection
  BY DEF IInv, TypeOK, DeadFilesHidden, NoResurrection, Visible
<1>2. QED BY <1>1, Invariance, PTL

(* However the flushes of several threads interleave, the newest marked      *)
(* record of a path is on disk or on its way there, as complete as its mark *)
(* said, unless a failing write lost it.                                    *)
THEOREM NothingLost == Spec => []NoLostUpdate
<1>1. IInv => NoLostUpdate BY DEF IInv
<1>2. QED BY <1>1, Invariance, PTL

(* A late flush never puts an older record in the place of a newer one, nor *)
(* a partial record in the place of the complete one of the same content.   *)
THEOREM NothingClobbered == Spec => NeverBackwards
<1>1. ASSUME IInv, [Next]_vars, NEW p \in Paths PROVE Forward(p)
  <2>1. CASE disk'[p] = disk[p] BY <2>1, <1>1 DEF Forward, IInv, TypeOK
  <2>2. ASSUME NEW q \in Paths, NEW w \in BOOLEAN, WriteCache(q, w) PROVE Forward(p)
    <3>1. /\ mem[q] # 0 /\ disk[q].ver <= mem[q]
          /\ disk[q].ver \in Nat /\ mem[q] \in Nat
      BY <2>2, <1>1 DEF WriteCache, IInv, TypeOK, VersionsOrdered
    <3>2. /\ disk' = [disk EXCEPT ![q] = [ver |-> mem[q], complete |-> w, at |-> now]]
          /\ asked' = [asked EXCEPT ![q] = w]
      BY <2>2 DEF WriteCache
    <3>3. CASE p = q
      <4>1. disk'[p].ver = mem[p] /\ disk'[p].complete = w /\ asked'[p] = w
        BY <3>2, <3>3, <1>1 DEF IInv, TypeOK
      <4>2. QED BY <3>1, <3>3, <4>1 DEF Forward
    <3>4. CASE p # q
      <4>1. disk'[p] = disk[p] BY <3>2, <3>4, <1>1 DEF IInv, TypeOK
      <4>2. QED BY <2>1, <4>1
    <3>5. QED BY <3>3, <3>4
  <2>3. ASSUME NEW f \in Flushers, Replace(f) PROVE Forward(p)
    <3>1. PICK e \in staged[f] :
            /\ epoch[e.path] = e.epoch
            /\ disk' = [disk EXCEPT ![e.path] =
                          [ver |-> e.ver, complete |-> e.complete, at |-> e.at]]
      BY <2>3 DEF Replace
    <3>2. e \in Snapshot /\ e \in Held(f) BY <1>1 DEF IInv, TypeOK, Held
    <3>3. /\ e.ver = mem[e.path] /\ mem[e.path] # 0
          /\ e.complete = asked[e.path] /\ asked' = asked
      BY <2>3, <3>1, <3>2, <1>1 DEF IInv, SnapshotsCurrent, Replace
    <3>4. /\ disk[e.path].ver <= mem[e.path]
          /\ disk[e.path].ver \in Nat /\ mem[e.path] \in Nat
      BY <3>2, <3>3, <1>1 DEF IInv, VersionsOrdered, TypeOK, Snapshot
    <3>5. CASE p = e.path
      <4>1. disk'[p].ver = e.ver /\ disk'[p].complete = e.complete
        BY <3>1, <3>5, <1>1 DEF IInv, TypeOK
      <4>2. QED BY <3>3, <3>4, <3>5, <4>1 DEF Forward
    <3>6. CASE p # e.path
      <4>1. disk'[p] = disk[p] BY <3>1, <3>6, <1>1 DEF IInv, TypeOK
      <4>2. QED BY <2>1, <4>1
    <3>7. QED BY <3>5, <3>6
  <2>4. ASSUME NEW q \in Paths, Forget(q) PROVE Forward(p)
    BY <2>4, <1>1 DEF Forget, Forward, IInv, TypeOK
  <2>5. ASSUME NEW c \in Clearers, NEW q \in Paths, CleanupUnlink(c, q) PROVE Forward(p)
    BY <2>5, <1>1 DEF CleanupUnlink, Forward, IInv, TypeOK
  <2>6. \/ disk' = disk
        \/ \E q \in Paths, w \in BOOLEAN : WriteCache(q, w)
        \/ \E q \in Paths : Forget(q)
        \/ \E f \in Flushers : Replace(f)
        \/ \E c \in Clearers, q \in Paths : CleanupUnlink(c, q)
    BY <1>1 DEF Next, Flush, Record, TakeDirty, SkipStale, Stage, Supersede, FlushFails,
                Return, RequestComplete, Invalidate, ReadClock, InvalidateTree, InvalidateKnown,
                StartCleanup, CleanupScan, Restart, vars
  <2>7. QED BY <2>1, <2>2, <2>3, <2>4, <2>5, <2>6
<1>2. IInv /\ [Next]_vars => [\A p \in Paths : Forward(p)]_vars BY <1>1
<1>3. QED BY <1>2, Invariance, PTL DEF Spec, NeverBackwards

-----------------------------------------------------------------------------
(* The write path implements RecordStore.                                   *)

(* The steps that neither change a record nor a file are stutters of it.    *)
LEMMA SameStore ==
  ASSUME UNCHANGED <<mem, disk, cutoff, todo, lastVer>>
  PROVE  UNCHANGED Store!vars
  BY DEF Store!vars, Kept, Served, Visible, Hidden, Leaving

(* Two functions that differ at one point only.                             *)
LEMMA OnePoint ==
  ASSUME NEW p \in Paths, NEW F \in [Paths -> Nat], NEW G \in [Paths -> Nat],
         \A q \in Paths : q # p => G[q] = F[q]
  PROVE  G = [F EXCEPT ![p] = G[p]]
  OBVIOUS

(* What changes when one file does.                                         *)
LEMMA OneFile ==
  ASSUME IInv, IInv', NEW p \in Paths, UNCHANGED cutoff,
         \A q \in Paths : q # p => disk'[q] = disk[q]
  PROVE  /\ Kept' = [Kept EXCEPT ![p] = disk'[p].ver]
         /\ Served' = [Served EXCEPT ![p] = IF Visible(p)' THEN disk'[p].ver ELSE 0]
<1>1. \A q \in Paths : disk[q].ver \in Nat /\ disk'[q].ver \in Nat BY DEF IInv, TypeOK
<1>2. \A q \in Paths : q # p => Visible(q)' = Visible(q) BY DEF Visible, Hidden
<1>3. /\ Kept \in [Paths -> Nat] /\ Kept' \in [Paths -> Nat]
      /\ Served \in [Paths -> Nat] /\ Served' \in [Paths -> Nat]
  BY <1>1 DEF Kept, Served
<1>4. \A q \in Paths : q # p => Kept'[q] = Kept[q] /\ Served'[q] = Served[q]
  BY <1>2 DEF Kept, Served
<1>5. Kept'[p] = disk'[p].ver /\ Served'[p] = IF Visible(p)' THEN disk'[p].ver ELSE 0
  BY DEF Kept, Served
<1>6. Kept' = [Kept EXCEPT ![p] = Kept'[p]] /\ Served' = [Served EXCEPT ![p] = Served'[p]]
  BY <1>3, <1>4, OnePoint
<1>7. QED BY <1>5, <1>6

(* A file that is written is the live record, and it is served unless its   *)
(* path is about to be invalidated: _write_cache and the replacement of a   *)
(* final file.                                                              *)
LEMMA WritesPersist ==
  ASSUME IInv, IInv', NEW p \in Paths, NEW file \in File,
         mem[p] # 0, file.ver = mem[p],
         p \in Tree /\ file.at <= cutoff => Going(p),
         disk' = [disk EXCEPT ![p] = file],
         UNCHANGED <<mem, cutoff, todo, lastVer>>
  PROVE  Store!Persist(p)
<1>1. disk'[p] = file /\ \A q \in Paths : q # p => disk'[q] = disk[q]
  BY DEF IInv, TypeOK
<1>2. /\ Kept' = [Kept EXCEPT ![p] = mem[p]]
      /\ Served' = [Served EXCEPT ![p] = IF Visible(p)' THEN mem[p] ELSE 0]
  BY <1>1, OneFile
<1>3. CASE Visible(p)' BY <1>2, <1>3 DEF Store!Persist, Leaving
<1>4. CASE ~Visible(p)'
  <2>1. p \in Leaving BY <1>1, <1>4 DEF Visible, Hidden, Going, Leaving
  <2>2. QED BY <1>2, <1>4, <2>1 DEF Store!Persist, Leaving
<1>5. QED BY <1>3, <1>4

(* An invalidation of one path.                                             *)
LEMMA ForgetDrops ==
  ASSUME IInv, IInv', NEW p \in Paths, Forget(p), Leaving' \in {Leaving, Leaving \ {p}},
         UNCHANGED <<cutoff, lastVer>>
  PROVE  Store!Drop(p)
<1>1. disk'[p].ver = 0 /\ \A q \in Paths : q # p => disk'[q] = disk[q]
  BY DEF IInv, TypeOK, Forget
<1>2. Kept' = [Kept EXCEPT ![p] = 0] /\ Served' = [Served EXCEPT ![p] = 0]
  BY <1>1, OneFile
<1>3. QED BY <1>2 DEF Store!Drop, Forget

(* One call has one path less to invalidate.                                *)
LEMMA OneLess ==
  ASSUME NEW c \in Clearers, NEW p \in Paths, todo \in [Clearers -> SUBSET Tree],
         todo' = [todo EXCEPT ![c] = @ \ {p}]
  PROVE  Leaving' \in {Leaving, Leaving \ {p}}
<1>1. \A q : q # p => (q \in Leaving' <=> q \in Leaving)
  BY DEF Leaving
<1>2. CASE p \in Leaving'
  <2>1. p \in Leaving BY <1>2 DEF Leaving
  <2>2. \A q : q \in Leaving' <=> q \in Leaving BY <1>1, <1>2, <2>1
  <2>3. Leaving' = Leaving BY <2>2
  <2>4. QED BY <2>3
<1>3. CASE p \notin Leaving'
  <2>1. \A q : q \in Leaving' <=> q \in Leaving \ {p} BY <1>1, <1>3
  <2>2. Leaving' = Leaving \ {p} BY <2>1
  <2>3. QED BY <2>2
<1>4. QED BY <1>2, <1>3

(* The start maps to the start.                                             *)
LEMMA InitRefines == Init => Store!Init
  BY DEF Init, Store!Init, Store!Nothing, Kept, Served, Visible, Hidden, Leaving

(* Every step maps to a step of the store or to a stutter.                  *)
LEMMA StepRefines ==
  ASSUME IInv, [Next]_vars
  PROVE  [Store!Next]_(Store!vars)
<1>0. IInv' BY NextStep
<1>1. ASSUME NEW p \in Paths, NEW w \in BOOLEAN, Record(p, w) PROVE Store!Publish(p)
  BY <1>1 DEF Record, Store!Publish, Kept, Served, Visible, Hidden, Leaving
<1>2. ASSUME NEW p \in Paths, NEW w \in BOOLEAN, WriteCache(p, w) PROVE Store!Persist(p)
  <2> DEFINE file == [ver |-> mem[p], complete |-> w, at |-> now]
  <2>1. file \in File BY DEF IInv, TypeOK
  <2>2. ~(now <= cutoff) BY DEF IInv, TypeOK, TimesOrdered
  <2>3. /\ mem[p] # 0 /\ disk' = [disk EXCEPT ![p] = file]
        /\ UNCHANGED <<mem, cutoff, todo, lastVer>>
    BY <1>2 DEF WriteCache
  <2>4. file.ver = mem[p] /\ file.at = now OBVIOUS
  <2> HIDE DEF file
  <2>5. QED BY <1>0, <2>1, <2>2, <2>3, <2>4, WritesPersist
<1>3. ASSUME NEW f \in Flushers, Replace(f) PROVE \E p \in Paths : Store!Persist(p)
  <2>1. PICK e \in staged[f] :
          /\ epoch[e.path] = e.epoch
          /\ disk' = [disk EXCEPT ![e.path] = [ver |-> e.ver, complete |-> e.complete, at |-> e.at]]
    BY <1>3 DEF Replace
  <2> DEFINE file == [ver |-> e.ver, complete |-> e.complete, at |-> e.at]
  <2>2. e \in Snapshot /\ e \in Held(f) BY DEF IInv, TypeOK, Held
  <2>3. /\ e.ver = mem[e.path] /\ e.ver # 0
        /\ e.path \in Tree /\ e.at <= cutoff => Going(e.path)
    BY <2>1, <2>2 DEF IInv, SnapshotsCurrent, Young
  <2>4. file \in File /\ e.path \in Paths BY <2>2 DEF Snapshot
  <2>5. file.ver = e.ver /\ file.at = e.at OBVIOUS
  <2>6. UNCHANGED <<mem, cutoff, todo, lastVer>> BY <1>3 DEF Replace
  <2>7. disk' = [disk EXCEPT ![e.path] = file] BY <2>1
  <2> HIDE DEF file
  <2>8. Store!Persist(e.path) BY <1>0, <2>3, <2>4, <2>5, <2>6, <2>7, WritesPersist
  <2>9. QED BY <2>4, <2>8
<1>4. ASSUME NEW p \in Paths, Invalidate(p) PROVE Store!Drop(p)
  <2>1. Leaving' = Leaving BY <1>4 DEF Invalidate, Leaving
  <2>2. QED BY <1>0, <1>4, <2>1, ForgetDrops DEF Invalidate
<1>5. ASSUME NEW c \in Clearers, NEW p \in Paths, InvalidateKnown(c, p) PROVE Store!Drop(p)
  <2>1. Leaving' \in {Leaving, Leaving \ {p}} BY <1>5, OneLess DEF InvalidateKnown, IInv, TypeOK
  <2>2. QED BY <1>0, <1>5, <2>1, ForgetDrops DEF InvalidateKnown
<1>6. ASSUME NEW c \in Clearers, NEW known \in SUBSET Tree, InvalidateTree(c, known)
      PROVE  Store!DropTree(Tree, known)
  <2>1. Kept' = Kept BY <1>6 DEF InvalidateTree, Kept
  <2>2. Leaving' = Leaving \cup known
    BY <1>6 DEF InvalidateTree, Leaving, IInv, TypeOK, CleanupAfter
  <2>3. Served' \in [Paths -> Nat] BY <1>0 DEF Served, IInv, TypeOK
  <2>4. ASSUME NEW p \in Paths \ Tree PROVE Served'[p] = Served[p]
    BY <1>6 DEF InvalidateTree, Served, Visible, Hidden
  <2>5. ASSUME NEW p \in Tree \ known PROVE Served'[p] = 0
    <3>1. mem[p] = 0 /\ p \in Paths /\ disk' = disk /\ cutoff' = since[c] /\ stage[c] = "called"
      BY <1>6 DEF InvalidateTree
    <3>2. disk[p].ver # 0 => disk[p].at <= since[c] BY <3>1 DEF IInv, OldFiles
    <3>3. ~Visible(p)' BY <3>1, <3>2 DEF Visible, Hidden
    <3>4. QED BY <3>1, <3>3 DEF Served
  <2>6. ASSUME NEW p \in known PROVE Served'[p] \in {0, Kept[p]}
    BY <1>6 DEF InvalidateTree, Served, Kept
  <2>7. /\ {p \in Tree : mem[p] # 0} \subseteq known
        /\ UNCHANGED <<mem, lastVer>>
    BY <1>6 DEF InvalidateTree
  <2>8. QED BY <2>1, <2>2, <2>3, <2>4, <2>5, <2>6, <2>7 DEF Store!DropTree
<1>7. ASSUME NEW c \in Clearers, NEW p \in Paths, CleanupUnlink(c, p)
      PROVE  Store!Clean(p) \/ UNCHANGED Store!vars
  <2>1. /\ stage[c] = "cleaning" /\ todo[c] = {} /\ p \in Tree
    BY <1>7 DEF CleanupUnlink, IInv, TypeOK, CleanupAfter
  <2>2. UNCHANGED <<mem, cutoff, lastVer, todo>> BY <1>7 DEF CleanupUnlink
  <2>3. CASE disk[p].at <= since[c] /\ disk[p].ver # 0
    <3>1. disk'[p].ver = 0 /\ \A q \in Paths : q # p => disk'[q] = disk[q]
      BY <1>7, <2>3 DEF IInv, TypeOK, CleanupUnlink
    <3>2. disk[p].ver <= dead[p] BY <2>1, <2>3 DEF IInv, SweptFilesDead
    <3>3. mem[p] # 0 => disk[p].ver # mem[p]
      BY <2>1, <3>2 DEF IInv, TypeOK, VersionsOrdered
    <3>4. Hidden(p) BY <2>1, <2>3, <3>2 DEF IInv, DeadFilesHidden
    <3>5. Kept' = [Kept EXCEPT ![p] = 0] /\ Served' = [Served EXCEPT ![p] = 0]
      BY <1>0, <2>2, <3>1, OneFile
    <3>6. Kept[p] = disk[p].ver /\ Served[p] = 0 BY <3>4 DEF Kept, Served, Visible
    <3>7. Served' = Served BY <3>5, <3>6 DEF Served
    <3>8. Leaving' = Leaving BY <2>2 DEF Leaving
    <3>9. Store!Clean(p) BY <2>2, <3>3, <3>5, <3>6, <3>7, <3>8 DEF Store!Clean
    <3>10. QED BY <3>9
  <2>4. CASE ~(disk[p].at <= since[c] /\ disk[p].ver # 0)
    <3>1. \A q \in Paths : disk'[q].ver = disk[q].ver /\ (disk[q].ver # 0 => disk'[q] = disk[q])
      BY <1>7, <2>4 DEF IInv, TypeOK, CleanupUnlink
    <3>2. Kept' = Kept BY <3>1 DEF Kept
    <3>3. Served' = Served BY <2>2, <3>1 DEF Served, Visible, Hidden
    <3>4. Leaving' = Leaving BY <2>2 DEF Leaving
    <3>5. QED BY <2>2, <3>2, <3>3, <3>4 DEF Store!vars
  <2>5. QED BY <2>3, <2>4
<1>8. ASSUME Restart PROVE Store!Crash
  <2>1. \A p \in Paths : ~Hidden(p)' \/ disk[p].ver = 0
    BY <1>0, <1>8 DEF IInv, TypeOK, TimesOrdered, Restart, Hidden
  <2>2. \A p \in Paths : disk'[p] = disk[p] BY <1>8 DEF Restart
  <2>3. Served' = Kept BY <2>1, <2>2 DEF Served, Kept, Visible
  <2>4. Kept' = Kept BY <2>2 DEF Kept
  <2>5. Leaving' = {} BY <1>8 DEF Restart, Leaving
  <2>6. QED BY <1>8, <2>3, <2>4, <2>5 DEF Restart, Store!Crash, Store!Nothing
<1>9. ASSUME \/ \E f \in Flushers : TakeDirty(f) \/ SkipStale(f) \/ Stage(f) \/ Supersede(f) \/ Return(f)
             \/ \E f \in Flushers : FlushFails(f)
             \/ \E p \in Paths : RequestComplete(p)
             \/ \E c \in Clearers : ReadClock(c) \/ StartCleanup(c)
             \/ \E c \in Clearers, p \in Paths : CleanupScan(c, p)
             \/ UNCHANGED vars
      PROVE UNCHANGED Store!vars
  BY <1>9, SameStore
     DEF TakeDirty, SkipStale, Stage, Supersede, Return, FlushFails, RequestComplete, ReadClock,
         StartCleanup, CleanupScan, MarkDirty, vars
<1>10. ASSUME NEW p \in Paths, Store!Publish(p) \/ Store!Persist(p) \/ Store!Drop(p) \/ Store!Clean(p)
       PROVE  Store!Next
  BY <1>10 DEF Store!Next
<1>11. ASSUME NEW known \in SUBSET Tree, Store!DropTree(Tree, known) PROVE Store!Next
  <2>1. Tree \in SUBSET Paths OBVIOUS
  <2>2. QED BY <1>11, <2>1 DEF Store!Next
<1>12. Store!Crash => Store!Next BY DEF Store!Next
<1>13. CASE \E p \in Paths, w \in BOOLEAN : Record(p, w) \/ WriteCache(p, w)
  BY <1>1, <1>2, <1>10, <1>13
<1>14. CASE \E f \in Flushers : Replace(f) BY <1>3, <1>10, <1>14
<1>15. CASE \E p \in Paths : Invalidate(p) BY <1>4, <1>10, <1>15
<1>16. CASE \E c \in Clearers, p \in Paths : InvalidateKnown(c, p) BY <1>5, <1>10, <1>16
<1>17. CASE \E c \in Clearers, known \in SUBSET Tree : InvalidateTree(c, known)
  BY <1>6, <1>11, <1>17
<1>18. CASE \E c \in Clearers, p \in Paths : CleanupUnlink(c, p) BY <1>7, <1>10, <1>18
<1>19. CASE Restart BY <1>8, <1>12, <1>19
<1>20. QED BY <1>9, <1>13, <1>14, <1>15, <1>16, <1>17, <1>18, <1>19 DEF Next, Flush

(* To its callers the write path is a store in which only the live record   *)
(* is written, a path is gone from its invalidation on, no live file is     *)
(* unlinked and a crash brings back what the files hold: for any paths,     *)
(* threads, overlapping calls and bounds.                                   *)
THEOREM WritePathIsStore == Spec => ImplementsStore
<1>1. Init => Store!Init BY InitRefines
<1>2. IInv /\ [Next]_vars => [Store!Next]_(Store!vars) BY StepRefines
<1>3. QED BY <1>1, <1>2, Invariance, PTL DEF Spec, ImplementsStore, Store!Spec
=============================================================================
