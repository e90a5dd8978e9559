----------------------------- MODULE RecordStore -----------------------------
(***************************************************************************)
(* What FolderCacheManager (foldercache.py) promises about its records to    *)
(* those who call get(): a store with a newest record per folder in memory,  *)
(* a file that follows it, and invalidations that take effect at once.       *)
(* CacheFlush implements it with dirty marks, epochs and several threads.    *)
(***************************************************************************)
EXTENDS Naturals

CONSTANT Paths

VARIABLES
  newest,   \* the last version that each path was given
  live,     \* the version in memory, 0 if none
  kept,     \* the version in the final file, 0 if there is none
  served,   \* the version that get() returns, 0 if none
  leaving   \* paths of an invalidated tree whose own invalidation is to come

vars == <<newest, live, kept, served, leaving>>

Nothing == [p \in Paths |-> 0]
Init == newest = Nothing /\ live = Nothing /\ kept = Nothing /\ served = Nothing /\ leaving = {}

(* A path gets a new record; it is not on disk yet.                         *)
Publish(p) ==
  /\ newest' = [newest EXCEPT ![p] = @ + 1]
  /\ live' = [live EXCEPT ![p] = newest[p] + 1]
  /\ UNCHANGED <<kept, served, leaving>>

(* Only the record in memory is ever written.  It is served from then on,    *)
(* unless it is older than an invalidation that is about to remove it.      *)
Persist(p) ==
  /\ live[p] # 0
  /\ kept' = [kept EXCEPT ![p] = live[p]]
  /\ \/ served' = [served EXCEPT ![p] = live[p]]
     \/ p \in leaving /\ served' = [served EXCEPT ![p] = 0]
  /\ UNCHANGED <<newest, live, leaving>>

(* A tree is invalidated: nothing below it is served from this moment on    *)
(* but a live record, which has its own invalidation to come.  A second     *)
(* call that began earlier may uncover such a record for that while.        *)
DropTree(tree, known) ==
  /\ {p \in tree : live[p] # 0} \subseteq known /\ known \subseteq tree
  /\ leaving' = leaving \cup known
  /\ served' \in [Paths -> Nat]
  /\ \A p \in Paths :
       served'[p] \in IF p \notin tree THEN {served[p]}
                      ELSE IF p \notin known THEN {0} ELSE {0, kept[p]}
  /\ UNCHANGED <<newest, live, kept>>

(* A path is invalidated: its record is gone everywhere.                    *)
Drop(p) ==
  /\ live' = [live EXCEPT ![p] = 0]
  /\ kept' = [kept EXCEPT ![p] = 0]
  /\ served' = [served EXCEPT ![p] = 0]
  /\ leaving' \in {leaving, leaving \ {p}}
  /\ UNCHANGED newest

(* A file that is not served is removed, never the live record's.           *)
Clean(p) ==
  /\ served[p] = 0
  /\ live[p] # 0 => live[p] # kept[p]
  /\ kept' = [kept EXCEPT ![p] = 0]
  /\ UNCHANGED <<newest, live, served, leaving>>

(* The process starts again with the files there are.                       *)
Crash ==
  /\ live' = Nothing /\ served' = kept /\ leaving' = {}
  /\ UNCHANGED <<newest, kept>>

Next ==
  \/ \E p \in Paths : Publish(p) \/ Persist(p) \/ Drop(p) \/ Clean(p)
  \/ \E tree \in SUBSET Paths : \E known \in SUBSET tree : DropTree(tree, known)
  \/ Crash

Spec == Init /\ [][Next]_vars
=============================================================================
