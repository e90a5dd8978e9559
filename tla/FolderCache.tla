----------------------------- MODULE FolderCache -----------------------------
(***************************************************************************)
(* FolderCacheManager (src/dropbox_browser/foldercache.py) and its          *)
(* FolderAccumulationState (foldercache_state.py): recursive folder totals   *)
(* computed in the background.                                              *)
(*                                                                         *)
(* HTTP threads load pages, poll /folder-info and request folders; workers  *)
(* take folder jobs off a priority queue, list one folder each, queue its   *)
(* subfolders and add finished subtrees into their parents; other threads   *)
(* invalidate folders.  One lock protects all of it and every action below  *)
(* is one locked section, or one step between two of them.                  *)
(*                                                                         *)
(* The Dropbox tree is fixed.  A folder's size, count and date are one      *)
(* number, its total; a diff status is "diff" (has_diffs or dropbox_only),  *)
(* "loading", "synced" or "unavailable", and diff_complete is "not          *)
(* loading".  Page epochs are the values 1, 2, ... of the clock.            *)
(***************************************************************************)
EXTENDS Integers, SequencesExt, FiniteSets, Bags

CONSTANTS
  Paths,            \* remote folders
  Subfolders,       \* Subfolders[p]: the sequence of p's child folders
  DirectTotal,      \* DirectTotal[p]: what p's own files contribute
  SortRank,         \* SortRank[p]: place of p among the paths, as text
  DirectDiffs,      \* folders whose own children differ from the local ones
  HasLocalRoot,     \* whether a local root is configured
  Workers,          \* folder-cache workers
  Pages,            \* folders the user opens as pages
  None,             \* no entry
  DepthCap,         \* BREADTH_FIRST_DEPTH_CAP
  MaxPage,          \* bound: page epochs
  Mishaps,          \* which of "invalidate", "fail" and "prime" may happen
  MaxMishaps        \* bound: how many of them

Kids(p) == ToSet(Subfolders[p])

(* A folder has one parent at most, and going up ends.                      *)
ASSUME TreeShape ==
  /\ IsFiniteSet(Paths) /\ Subfolders \in [Paths -> Seq(Paths)]
  /\ \A p, q \in Paths : Kids(p) \cap Kids(q) # {} => p = q
  /\ \A S \in (SUBSET Paths) \ {{}} : \E p \in S : \A q \in S : p \notin Kids(q)
(* A listing names each subfolder once.                                     *)
ASSUME NamedOnce == \A p \in Paths : IsInjective(Subfolders[p])
ASSUME TotalsPositive == \A p \in Paths : DirectTotal[p] \in Nat \ {0}
ASSUME BoundsAndPages == DepthCap \in Nat /\ MaxPage \in Nat /\ Pages \subseteq Paths

(* Lineage[p] is p, its parent, its grandparent, ..., the root.             *)
Lineage[p \in Paths] ==
  IF \E q \in Paths : p \in Kids(q)
    THEN <<p>> \o Lineage[CHOOSE q \in Paths : p \in Kids(q)]
    ELSE <<p>>
Below(p) == {q \in Paths : p \in ToSet(Lineage[q])}

VARIABLES
  st,          \* the lock-protected state that the helpers below rewrite:
               \*   acc[p]       accumulated record, None if absent
               \*   direct[p]    _direct_done, 0 if absent
               \*   pending[p]   _pending_children, None if absent
               \*   parent[p]    _parent, None if absent
               \*   contrib[p]   _child_contrib, 0 if absent
               \*   abandoned    _abandoned
               \*   dirty[p]     write_as_complete of the dirty mark, or None
  inProgress,  \* _in_progress, 0 if absent
  generation,  \* _generation
  queue,       \* the jobs in the priority queue, a bag
  worker,      \* worker[w]: what thread w is doing
  disk,        \* disk[p]: the record get() returns, None if there is none
  cooling,     \* folders in their listing-failure cooldown
  flushing,    \* whether an HTTP thread is in _flush_dirty_cache_writes
  minPage,     \* _min_page_time
  pageKey,     \* _current_page_key
  clock,       \* the newest page time handed out
  client,      \* client[k]: the browser tab on page k, see OpenPage
  mishaps      \* invalidations, failures and primings so far

cacheVars == <<st, inProgress, generation, queue, worker, disk, cooling, flushing,
               minPage, pageKey, clock, mishaps>>
vars == <<st, inProgress, generation, queue, worker, disk, cooling, flushing,
          minPage, pageKey, clock, client, mishaps>>

Job == [path: Paths, epoch: 1..MaxPage, depth: 0..DepthCap]
(* gen is the generation in which the job of the record was claimed; no       *)
(* generation comes with a foreground listing, then it is None.             *)
Acc == [total: Int, diff: {"loading", "synced", "diff", "unavailable"},
        gen: Nat \cup {None}]
Record == [total: Int, diff: {"loading", "synced", "diff", "unavailable"},
           gen: Nat \cup {None}, complete: BOOLEAN]
ASSUME NoneIsNothing ==
  /\ None \notin Acc \cup Record \cup Paths \cup BOOLEAN
  /\ \A S \in SUBSET Paths : None # S
Idle == [pc |-> "idle"]
Closed == [step |-> "off", rows |-> <<>>, left |-> <<>>, polled |-> FALSE,
           watch |-> FALSE, time |-> 0]

Larger(a, b) == IF a >= b THEN a ELSE b
Mishap(kind) == kind \in Mishaps /\ mishaps < MaxMishaps /\ mishaps' = mishaps + 1

Init ==
  /\ st = [acc       |-> [p \in Paths |-> None],
           direct    |-> [p \in Paths |-> 0],
           pending   |-> [p \in Paths |-> None],
           parent    |-> [p \in Paths |-> None],
           contrib   |-> [p \in Paths |-> 0],
           abandoned |-> {},
           dirty     |-> [p \in Paths |-> None]]
  /\ inProgress = [p \in Paths |-> 0]
  /\ generation = [p \in Paths |-> 0]
  /\ queue = EmptyBag
  /\ worker = [w \in Workers |-> Idle]
  /\ disk = [p \in Paths |-> None]
  /\ cooling = {}
  /\ flushing = FALSE
  /\ minPage = 0 /\ pageKey = None /\ clock = 0
  /\ client = [k \in Pages |-> Closed]
  /\ mishaps = 0

-----------------------------------------------------------------------------
(* The helpers on the accumulated state                                     *)

(* Op applied along seq, from x.  Each step binds its argument to a value:   *)
(* TLC evaluates a nested operator argument once per use under ENABLED.      *)
Along(Op(_, _), x, seq) ==
  LET upto[i \in 0..Len(seq)] ==
        IF i = 0 THEN x ELSE CHOOSE y \in {Op(v, seq[i]) : v \in {upto[i - 1]}} : TRUE
  IN  upto[Len(seq)]

(* The entries of seq that are in S, in their order.                        *)
Keep(seq, S) ==
  LET Add(kept, e) == IF e \in S THEN Append(kept, e) ELSE kept
  IN  Along(Add, <<>>, seq)

Pending(s, p) == IF s.pending[p] = None THEN {} ELSE s.pending[p]
FreshAcc(p, g) == [total |-> DirectTotal[p], gen |-> g,
                   diff  |-> IF HasLocalRoot THEN "loading" ELSE "unavailable"]

(* _mark_cache_dirty_locked: a waiting mark keeps its complete flag.        *)
MarkDirty(s, p, complete) ==
  [s EXCEPT !.dirty[p] = complete \/ (@ # None /\ @)]

(* _is_disk_complete_locked, and the same test on a child in _compute and   *)
(* _repair_complete_children_locked.                                        *)
IsWhole(s, p) ==
  /\ s.acc[p] # None
  /\ s.direct[p] # 0
  /\ Pending(s, p) = {}
  /\ p \notin s.abandoned
  /\ HasLocalRoot => s.acc[p].diff # "loading"

(* Slip: what the parent has received is not remembered.                    *)
PropagateForgetful(x, p) ==
  LET q == x.s.parent[p]
  IN  IF ~x.go \/ q = None THEN [x EXCEPT !.go = FALSE]
      ELSE IF x.s.acc[q] = None THEN [x EXCEPT !.go = FALSE]
      ELSE [x EXCEPT !.s = MarkDirty([x.s EXCEPT !.acc[q].total =
                                        @ + x.s.acc[p].total - x.s.contrib[p]], q, FALSE)]

(* Slip: the change reaches the parent and goes no further.                 *)
PropagateOnce(x, p) ==
  LET q == x.s.parent[p]
  IN  IF ~x.go \/ q = None THEN [x EXCEPT !.go = FALSE]
      ELSE IF x.s.acc[q] = None THEN [x EXCEPT !.go = FALSE]
      ELSE [go |-> FALSE,
            s  |-> MarkDirty([x.s EXCEPT !.contrib[p] = x.s.acc[p].total,
                                !.acc[q].total = @ + x.s.acc[p].total - x.s.contrib[p]],
                             q, FALSE)]

(* propagate: hand the change of p's total to its parent, and so on up.     *)
PropagateStep(x, p) ==
  LET q == x.s.parent[p]
  IN  IF \/ ~x.go \/ q = None
         \/ q # None /\ (x.s.acc[q] = None \/ x.s.acc[p].total = x.s.contrib[p])
        THEN [x EXCEPT !.go = FALSE]
        ELSE LET delta == x.s.acc[p].total - x.s.contrib[p]
                 s == [x.s EXCEPT !.contrib[p] = x.s.acc[p].total,
                                  !.acc[q].total = @ + delta]
             IN  [go |-> TRUE,
                  s  |-> MarkDirty(s, q, /\ s.direct[q] # 0
                                         /\ Pending(s, q) = {}
                                         /\ q \notin s.abandoned)]
Propagate(s, p) == Along(PropagateStep, [s |-> s, go |-> TRUE], Lineage[p]).s

(* _note_diff                                                               *)
NoteDiff(s, p) ==
  IF s.acc[p] = None
    THEN [s EXCEPT !.acc[p] = [total |-> 0, diff |-> "diff", gen |-> generation[p]]]
    ELSE [s EXCEPT !.acc[p].diff = "diff"]

(* _maybe_complete on p alone; go says that p's subtree is complete.        *)
FinishHere(s, p) ==
  LET done == s.direct[p] # 0 /\ Pending(s, p) = {}
  IN  IF s.acc[p] = None THEN [s |-> s, go |-> FALSE]
      ELSE IF p \in s.abandoned \/ ((HasLocalRoot \/ s.acc[p].diff = "diff") /\ ~done)
        THEN [s |-> MarkDirty(s, p, FALSE), go |-> FALSE]
      ELSE LET diff == CASE s.acc[p].diff = "diff" -> "diff"
                         [] HasLocalRoot -> "synced"
                         [] OTHER -> "unavailable"
           IN  [s |-> MarkDirty([s EXCEPT !.acc[p].diff = diff], p, TRUE), go |-> TRUE]

(* Slip: the parent only crosses the child off.                             *)
CompleteCrossesOff(x, p) ==
  LET q == x.s.parent[p]
  IN  IF ~x.go \/ q = None THEN [x EXCEPT !.go = FALSE]
      ELSE IF x.s.pending[q] = None THEN [x EXCEPT !.go = FALSE]
      ELSE [go |-> FALSE, s |-> [x.s EXCEPT !.pending[q] = @ \ {p}]]

(* on_subtree_complete(p), then _maybe_complete of the parent, and so on.   *)
CompleteStep(x, p) ==
  LET q == x.s.parent[p]
  IN  IF ~x.go \/ q = None THEN [x EXCEPT !.go = FALSE]
      ELSE IF x.s.pending[q] = None THEN [x EXCEPT !.go = FALSE]
      ELSE LET s1 == [x.s EXCEPT !.pending[q] = @ \ {p}]
               s2 == IF s1.acc[p] # None /\ s1.acc[p].diff = "diff" THEN NoteDiff(s1, q) ELSE s1
           IN  IF s2.direct[q] # 0 /\ s2.pending[q] = {}
                 THEN FinishHere(s2, q)
                 ELSE [s |-> s2, go |-> FALSE]
OnSubtreeComplete(s, p) == Along(CompleteStep, [s |-> s, go |-> TRUE], Lineage[p]).s
MaybeComplete(s, p) ==
  LET x == FinishHere(s, p) IN IF x.go THEN OnSubtreeComplete(x.s, p) ELSE x.s

(* A complete child is added into its parent p (_compute, repair).          *)
Attach(s, p, sf) ==
  LET s1 == Propagate(s, sf)
      s2 == IF s1.acc[sf].diff = "diff" THEN NoteDiff(s1, p) ELSE s1
  IN  OnSubtreeComplete(s2, sf)

(* _repair_complete_children_locked *)
AttachWhole(s, p) ==
  LET AttachIfWhole(x, sf) ==
        IF sf \in Pending(s, p) /\ IsWhole(x, sf) THEN Attach(x, p, sf) ELSE x
  IN  Along(AttachIfWhole, s, Subfolders[p])
Repair(s, p) ==
  LET s1 == AttachWhole(s, p)
  IN  IF s1.direct[p] # 0 /\ Pending(s1, p) = {} THEN MaybeComplete(s1, p) ELSE s1

(* _mark_abandoned: the ancestors of p stay partial.                        *)
AbandonStep(x, p) ==
  LET q == x.s.parent[p]
  IN  IF ~x.go \/ q = None THEN [x EXCEPT !.go = FALSE]
      ELSE LET s == [x.s EXCEPT !.pending[q] = IF @ = None THEN None ELSE @ \ {p},
                                !.abandoned = @ \cup {q}]
           IN  [x EXCEPT !.s = IF s.acc[q] # None THEN MarkDirty(s, q, FALSE) ELSE s]
MarkAbandoned(s, p) == Along(AbandonStep, [s |-> s, go |-> TRUE], Lineage[p]).s

(* What a restart of a folder forgets about it.                             *)
Restarted(s, p) == [s EXCEPT !.abandoned = @ \ {p}, !.direct[p] = 0,
                             !.pending[p] = None, !.contrib[p] = 0]

-----------------------------------------------------------------------------
(* Requests                                                                 *)

(* Slip: the worker registers its folder only after the listing.            *)
ActiveLate(p) == \E w \in Workers : worker[w].pc = "commit" /\ worker[w].path = p
Active(p) == \E w \in Workers : worker[w].pc # "idle" /\ worker[w].claimed /\ worker[w].path = p
JobOf(p, t, d) == [path |-> p, epoch |-> t, depth |-> d]
Put(q, job) == q (+) SetToBag({job})
Without(q, p) == LET rest == {j \in DOMAIN q : j.path # p} IN [j \in rest |-> q[j]]
Complete(p) == disk[p] # None /\ disk[p].complete

(* p has been listed and still waits for subfolders.                        *)
Awaits(s, p) == s.direct[p] # 0 /\ Pending(s, p) # {} /\ p \notin s.abandoned

(* Take ownership of p for page t: queue a job, replace the queued one, or   *)
(* only raise the epoch of the one a worker holds.                          *)
Own(p, t, d) ==
  \/ /\ inProgress[p] = 0
     /\ inProgress' = [inProgress EXCEPT ![p] = t]
     /\ queue' = Put(queue, JobOf(p, t, d))
     /\ minPage' = Larger(minPage, t)
  \/ /\ inProgress[p] # 0 /\ t > inProgress[p] /\ ~Active(p)
     /\ inProgress' = [inProgress EXCEPT ![p] = t]
     /\ queue' = Put(Without(queue, p), JobOf(p, t, d))
     /\ minPage' = Larger(minPage, t)
  \/ /\ inProgress[p] # 0 /\ t > inProgress[p] /\ Active(p)
     /\ inProgress' = [inProgress EXCEPT ![p] = t]
     /\ UNCHANGED <<queue, minPage>>
  \/ /\ inProgress[p] # 0 /\ t <= inProgress[p]
     /\ UNCHANGED <<inProgress, queue, minPage>>

(* _request_with_depth *)
Request(p, t, d) ==
  /\ ~Complete(p)
  /\ p \notin cooling
  /\ \E s \in {IF Awaits(st, p) THEN Repair(st, p) ELSE st} :
       \/ /\ Awaits(s, p)
          /\ st' = s
          /\ UNCHANGED <<inProgress, queue, minPage, flushing>>
       \/ /\ ~Awaits(s, p) /\ IsWhole(s, p)
          /\ st' = MarkDirty(s, p, TRUE)
          /\ flushing' = TRUE
          /\ UNCHANGED <<inProgress, queue, minPage>>
       \/ /\ ~Awaits(s, p) /\ ~IsWhole(s, p)
          /\ st' = IF s.direct[p] # 0 THEN Restarted(s, p) ELSE s
          /\ Own(p, t, d)
          /\ UNCHANGED flushing
  /\ UNCHANGED <<generation, worker, disk, cooling, pageKey, mishaps>>

(* page_epoch_for: the epoch of the page on screen, else the time now.      *)
EpochsFor(k) == IF k = pageKey THEN {minPage} ELSE {clock + 1} \cap (1..MaxPage)
RequestFor(k, p, d) ==
  \E t \in EpochsFor(k) : Request(p, t, d) /\ clock' = Larger(clock, t)

(* status *)
Status(p) ==
  IF disk[p] # None /\ ~(p \in st.abandoned /\ ~disk[p].complete)
    THEN IF disk[p].complete THEN "complete" ELSE "partial"
    ELSE IF inProgress[p] # 0 THEN "calculating" ELSE "pending"

(* A request, which does nothing for a complete or a cooling folder.        *)
Ask(k, p) ==
  \/ RequestFor(k, p, 0)
  \/ /\ Complete(p) \/ p \in cooling
     /\ UNCHANGED cacheVars

(* A page is loaded.  notify_page_load: a page key seen again keeps its      *)
(* epoch unless forced.                                                     *)
OpenPage(k, force) ==
  /\ clock < MaxPage
  /\ clock' = clock + 1
  /\ client' = [client EXCEPT ![k] = [Closed EXCEPT !.step = "load", !.time = clock']]
  /\ IF k # pageKey \/ force
       THEN minPage' = Larger(minPage, clock') /\ pageKey' = k
       ELSE UNCHANGED <<minPage, pageKey>>
  /\ UNCHANGED <<st, inProgress, generation, queue, worker, disk, cooling, flushing, mishaps>>

(* The rest of the load: with a local root the page's own folder is asked for.*)
LoadCurrent(k) ==
  /\ client[k].step = "load"
  /\ \/ HasLocalRoot /\ Request(k, client[k].time, 0) /\ UNCHANGED clock
     \/ /\ HasLocalRoot => Complete(k) \/ k \in cooling
        /\ UNCHANGED cacheVars
  /\ client' = [client EXCEPT ![k].step = "show", ![k].time = 0]

(* The tab goes on polling while a row is not complete, or while it watches  *)
(* the page's own folder; a poll names the remaining rows, then the page.    *)
Round(k, rows, watch) ==
  IF rows = <<>> /\ ~watch THEN Closed
  ELSE [Closed EXCEPT !.step = "poll", !.rows = rows, !.left = Append(rows, k),
                      !.polled = rows # <<>>, !.watch = watch]

ShowPage(k) ==
  /\ client[k].step = "show"
  /\ LET rows == Keep(Subfolders[k], {c \in Kids(k) : ~Complete(c)})
     IN  client' = [client EXCEPT ![k] = Round(k, rows, HasLocalRoot)]
  /\ UNCHANGED cacheVars

(* /folder-info answers for the next row of the poll.                       *)
PollRow(k) ==
  /\ client[k].step = "poll" /\ Len(client[k].left) > 1
  /\ LET p == Head(client[k].left)
     IN  /\ client' = [client EXCEPT ![k].left = Tail(@),
                          ![k].rows = IF Status(p) = "complete" THEN Keep(@, Kids(k) \ {p}) ELSE @]
         /\ IF Status(p) \in {"calculating", "pending"}
              THEN Ask(k, p)
              ELSE UNCHANGED cacheVars

(* It answers for the page itself, whose rows were polled with it if some    *)
(* were left, and the tab starts its next poll.  Safety net: a partial page  *)
(* whose polled rows were all complete is asked for again.                  *)
PollCurrent(k) ==
  /\ client[k].step = "poll" /\ Len(client[k].left) = 1
  /\ LET status == Status(k)
         waits == status \in {"calculating", "pending"} \/ disk[k].diff = "loading"
         stuck == status = "partial" /\ client[k].polled /\ client[k].rows = <<>>
     IN  /\ client' = [client EXCEPT ![k] = Round(k, @.rows, @.watch /\ waits)]
         /\ IF status \in {"calculating", "pending"} \/ stuck
              THEN Ask(k, k)
              ELSE UNCHANGED cacheVars

Browser(k) == LoadCurrent(k) \/ ShowPage(k) \/ PollRow(k) \/ PollCurrent(k)

(* ensure_known_subtree: walk the records below k and request what is not   *)
(* complete; a folder is reached when every folder above it has a record.   *)
EnsureKnown(k, p) ==
  /\ p \in Below(k)
  /\ \A q \in Below(k) : p \in Below(q) /\ q # p => disk[q] # None
  /\ LET depth == Cardinality({q \in Below(k) : p \in Below(q)}) - 1
     IN  RequestFor(k, p, IF depth <= DepthCap THEN depth ELSE DepthCap)
  /\ UNCHANGED client

CoolDown(p) ==
  /\ p \in cooling
  /\ cooling' = cooling \ {p}
  /\ UNCHANGED <<st, inProgress, generation, queue, worker, disk, flushing, minPage,
                 pageKey, clock, client, mishaps>>

-----------------------------------------------------------------------------
(* Other threads                                                            *)

(* prime_direct_listing: a foreground listing of p seeds its record.  It     *)
(* compares no generation, and that get() had no complete record was seen    *)
(* before the lock: p may have been invalidated or completed since.         *)
Prime(p) ==
  /\ st' = MarkDirty([st EXCEPT !.acc[p] = FreshAcc(p, None)], p, FALSE)
  /\ flushing' = TRUE
  /\ Mishap("prime")
  /\ UNCHANGED <<inProgress, generation, queue, worker, disk, cooling, minPage, pageKey,
                 clock, client>>

(* Slip: the folder stays among the pending children of its parent.         *)
ForgottenStillPending(s, p) ==
  [s EXCEPT !.acc[p] = None, !.direct[p] = 0, !.pending[p] = None,
            !.parent = [q \in Paths |-> IF q = p \/ @[q] = p THEN None ELSE @[q]],
            !.contrib[p] = 0, !.abandoned = @ \ {p}, !.dirty[p] = None]

(* Slip: the mark of the dirty record survives.                             *)
ForgottenStillDirty(s, p) ==
  [s EXCEPT !.acc[p] = None, !.direct[p] = 0, !.contrib[p] = 0, !.abandoned = @ \ {p},
            !.pending = [q \in Paths |-> IF q = p \/ @[q] = None THEN None ELSE @[q] \ {p}],
            !.parent = [q \in Paths |-> IF q = p \/ @[q] = p THEN None ELSE @[q]]]

(* invalidate *)
Forgotten(s, p) ==
  [acc       |-> [s.acc EXCEPT ![p] = None],
   direct    |-> [s.direct EXCEPT ![p] = 0],
   pending   |-> [q \in Paths |-> IF q = p \/ s.pending[q] = None THEN None
                                  ELSE s.pending[q] \ {p}],
   parent    |-> [q \in Paths |-> IF q = p \/ s.parent[q] = p THEN None ELSE s.parent[q]],
   contrib   |-> [s.contrib EXCEPT ![p] = 0],
   abandoned |-> s.abandoned \ {p},
   dirty     |-> [s.dirty EXCEPT ![p] = None]]

Invalidate(p) ==
  /\ generation' = [generation EXCEPT ![p] = @ + 1]
  /\ st' = Forgotten(st, p)
  /\ cooling' = cooling \ {p}
  /\ disk' = [disk EXCEPT ![p] = None]
  /\ Mishap("invalidate")
  /\ UNCHANGED <<inProgress, queue, worker, flushing, minPage, pageKey, clock, client>>

-----------------------------------------------------------------------------
(* Workers                                                                  *)

Moves(w, rec) == worker' = [worker EXCEPT ![w] = rec]
At(w, pc) == worker[w].pc = pc
Doing(w) == worker[w].path
Epoch(w) == Larger(worker[w].epoch, inProgress[Doing(w)])
(* Slip: the epoch decides, not the generation, whether a job is called off. *)
CalledOffByPage(w) == worker[w].epoch < minPage
CalledOff(w) == generation[Doing(w)] # worker[w].gen
Finishing(w, force) == [worker[w] EXCEPT !.pc = "final", !.force = force]

(* PriorityQueue.get: newest page, then shallowest, then by path.           *)
Precedes(j, k) ==
  \/ j.epoch > k.epoch
  \/ j.epoch = k.epoch /\ j.depth < k.depth
  \/ j.epoch = k.epoch /\ j.depth = k.depth /\ SortRank[j.path] <= SortRank[k.path]

Dequeue(w) ==
  /\ At(w, "idle")
  /\ \E j \in DOMAIN queue :
       /\ \A k \in DOMAIN queue : Precedes(j, k)
       /\ queue' = queue (-) SetToBag({j})
       /\ Moves(w, [pc |-> "got", path |-> j.path, epoch |-> j.epoch, depth |-> j.depth,
                    claimed |-> FALSE, force |-> FALSE, gen |-> 0, seen |-> None])
  /\ UNCHANGED <<st, inProgress, generation, disk, cooling, flushing, minPage, pageKey,
                 clock, client, mishaps>>

(* The worker loop's first locked section.                                  *)
Claim(w) ==
  /\ At(w, "got")
  /\ LET p == Doing(w)
         t == Epoch(w)
         unowned == inProgress[p] = 0
         stale == t < minPage
         done == st.direct[p] >= t
         Skip(pc) == Moves(w, [worker[w] EXCEPT !.pc = pc])
     IN  \/ unowned /\ Skip("flush")
         \/ ~unowned /\ stale /\ Skip("stale")
         \/ ~unowned /\ ~stale /\ done /\ Skip("done")
         \/ ~unowned /\ ~stale /\ ~done /\ Active(p) /\ Skip("flush")
         \/ /\ ~unowned /\ ~stale /\ ~done /\ ~Active(p)
            /\ Moves(w, [worker[w] EXCEPT !.pc = "list", !.epoch = t,
                           !.claimed = TRUE, !.gen = generation[p]])
  /\ UNCHANGED <<st, inProgress, generation, queue, disk, cooling, flushing, minPage,
                 pageKey, clock, client, mishaps>>

(* _cancel_queued_job: the job belongs to a page that was left.             *)
SkipStale(w) ==
  /\ At(w, "stale")
  /\ LET p == Doing(w)
     IN  /\ inProgress' = IF inProgress[p] = worker[w].epoch /\ ~Active(p)
                            THEN [inProgress EXCEPT ![p] = 0] ELSE inProgress
         /\ st' = MarkAbandoned(st, p)
  /\ Moves(w, Finishing(w, TRUE))
  /\ UNCHANGED <<generation, queue, disk, cooling, flushing, minPage, pageKey, clock,
                 client, mishaps>>

SkipDone(w) ==
  /\ At(w, "done")
  /\ st' = Repair(st, Doing(w))
  /\ Moves(w, Finishing(w, FALSE))
  /\ UNCHANGED <<inProgress, generation, queue, disk, cooling, flushing, minPage, pageKey,
                 clock, client, mishaps>>

(* The listing (from the listing cache or rclone) succeeds, and the records  *)
(* of the subfolders are read before the lock is taken.                     *)
List(w) ==
  /\ At(w, "list")
  /\ Moves(w, [worker[w] EXCEPT !.pc = "commit",
                 !.seen = [c \in Kids(Doing(w)) |-> disk[c]]])
  /\ cooling' = cooling \ {Doing(w)}
  /\ UNCHANGED <<st, inProgress, generation, queue, disk, flushing, minPage, pageKey,
                 clock, client, mishaps>>

(* Slip: the folder stays owned.                                            *)
ListFailsHolds(w) ==
  /\ At(w, "list")
  /\ Mishap("fail")
  /\ cooling' = cooling \cup {Doing(w)}
  /\ Moves(w, Finishing(w, FALSE))
  /\ UNCHANGED <<st, inProgress, generation, queue, disk, flushing, minPage, pageKey,
                 clock, client>>

(* Every attempt fails: the folder is left alone and cools down.            *)
ListFails(w) ==
  /\ At(w, "list")
  /\ Mishap("fail")
  /\ cooling' = cooling \cup {Doing(w)}
  /\ Moves(w, Finishing(w, TRUE))
  /\ UNCHANGED <<st, inProgress, generation, queue, disk, flushing, minPage, pageKey,
                 clock, client>>

(* A retry notices that the folder was invalidated.                         *)
ListSuperseded(w) ==
  /\ At(w, "list") /\ CalledOff(w)
  /\ Moves(w, Finishing(w, TRUE))
  /\ UNCHANGED <<st, inProgress, generation, queue, disk, cooling, flushing, minPage,
                 pageKey, clock, client, mishaps>>

(* An exception while listing or comparing: the folder counts as empty.     *)
JobFails(w) ==
  /\ At(w, "list")
  /\ Mishap("fail")
  /\ LET p == Doing(w)
         s == [st EXCEPT
                 !.acc[p] = IF @ # None THEN @
                            ELSE [total |-> 0, gen |-> generation[p],
                                  diff |-> IF HasLocalRoot THEN "diff" ELSE "unavailable"],
                 !.direct[p] = Epoch(w),
                 !.pending[p] = Pending(st, p)]
     IN  IF CalledOff(w)
           THEN UNCHANGED st /\ Moves(w, Finishing(w, TRUE))
           ELSE /\ st' = OnSubtreeComplete(Propagate(MarkDirty(s, p, TRUE), p), p)
                /\ Moves(w, Finishing(w, FALSE))
  /\ UNCHANGED <<inProgress, generation, queue, disk, cooling, flushing, minPage, pageKey,
                 clock, client>>

(* One subfolder in _compute's locked section; x holds the state, the owned  *)
(* folders and the queue, t is the epoch and seen the records read earlier.  *)
AddSubfolder(x, p, sf, t, seen, depth) ==
  LET s1 == [x.s EXCEPT !.parent[sf] = p, !.contrib[sf] = 0]
      reusable == x.owned[sf] = 0 /\ seen[sf] # None /\ seen[sf].complete
      reused == [s1 EXCEPT
                   !.acc[sf] = [total |-> seen[sf].total, diff |-> seen[sf].diff,
                                gen |-> seen[sf].gen],
                   !.direct[sf] = t,
                   !.pending[sf] = Pending(s1, sf)]
      waiting == [s1 EXCEPT !.pending[p] = @ \cup {sf},
                            !.direct[sf] = IF Pending(s1, sf) = {} THEN 0 ELSE @]
  IN  IF IsWhole(s1, sf) THEN [x EXCEPT !.s = Attach(s1, p, sf)]
      ELSE IF reusable THEN [x EXCEPT !.s = Attach(reused, p, sf)]
      ELSE IF t < minPage THEN [x EXCEPT !.s = MarkAbandoned(waiting, sf)]
      ELSE IF waiting.direct[sf] = 0 /\ x.owned[sf] = 0
        THEN [s |-> waiting, owned |-> [x.owned EXCEPT ![sf] = t],
              q |-> Put(x.q, JobOf(sf, t, depth))]
      ELSE [x EXCEPT !.s = waiting]

(* _compute from its generation check up to the subfolders: the folder's own *)
(* record.                                                                  *)
Begun(w) ==
  LET p == Doing(w)
      fresh == [st EXCEPT !.abandoned = @ \ {p}, !.acc[p] = FreshAcc(p, worker[w].gen),
                          !.direct[p] = Epoch(w), !.pending[p] = {}]
      compared == IF p \in DirectDiffs THEN NoteDiff(fresh, p) ELSE fresh
  IN  Propagate(MarkDirty(compared, p, Subfolders[p] = <<>>), p)

(* The same section to its last subfolder.                                  *)
Listed(w) ==
  LET p == Doing(w)
      depth == IF worker[w].depth < DepthCap THEN worker[w].depth + 1 ELSE DepthCap
      Add(x, sf) == AddSubfolder(x, p, sf, Epoch(w), worker[w].seen, depth)
  IN  Along(Add, [s |-> Begun(w), owned |-> inProgress, q |-> queue], Subfolders[p])

Commit(w) ==
  /\ At(w, "commit")
  /\ IF CalledOff(w)
       THEN /\ Moves(w, [Finishing(w, TRUE) EXCEPT !.seen = None])
            /\ UNCHANGED <<st, inProgress, queue>>
       ELSE /\ \E x \in {Listed(w)} :
                 /\ st' = MaybeComplete(x.s, Doing(w))
                 /\ inProgress' = x.owned
                 /\ queue' = x.q
            /\ Moves(w, [Finishing(w, FALSE) EXCEPT !.seen = None])
  /\ UNCHANGED <<generation, disk, cooling, flushing, minPage, pageKey, clock, client, mishaps>>

(* Slip: an epoch served exactly does not count as served.                  *)
FinishStrictly(w) ==
  /\ At(w, "final")
  /\ LET p == Doing(w)
     IN  inProgress' = IF worker[w].force \/ st.direct[p] > inProgress[p]
                         THEN [inProgress EXCEPT ![p] = 0] ELSE inProgress
  /\ Moves(w, [worker[w] EXCEPT !.pc = "flush", !.claimed = FALSE])
  /\ UNCHANGED <<st, generation, queue, disk, cooling, flushing, minPage, pageKey, clock,
                 client, mishaps>>

(* The finally block: give up the claim and, if satisfied, the ownership.   *)
Finish(w) ==
  /\ At(w, "final")
  /\ LET p == Doing(w)
     IN  inProgress' = IF worker[w].force \/ st.direct[p] >= inProgress[p]
                         THEN [inProgress EXCEPT ![p] = 0] ELSE inProgress
  /\ Moves(w, [worker[w] EXCEPT !.pc = "flush", !.claimed = FALSE])
  /\ UNCHANGED <<st, generation, queue, disk, cooling, flushing, minPage, pageKey, clock,
                 client, mishaps>>

(* _flush_dirty_cache_writes, one record at a time (see CacheFlush).        *)
FlushRecord(p) ==
  /\ flushing \/ \E w \in Workers : At(w, "flush")
  /\ st.dirty[p] # None
  /\ disk' = [disk EXCEPT ![p] = [total |-> st.acc[p].total, diff |-> st.acc[p].diff,
                                  gen |-> st.acc[p].gen, complete |-> st.dirty[p]]]
  /\ st' = [st EXCEPT !.dirty[p] = None]
  /\ UNCHANGED <<inProgress, generation, queue, worker, cooling, flushing, minPage,
                 pageKey, clock, client, mishaps>>

AllWritten == \A p \in Paths : st.dirty[p] = None

FlushEnds(w) ==
  /\ At(w, "flush") /\ AllWritten
  /\ Moves(w, Idle)
  /\ UNCHANGED <<st, inProgress, generation, queue, disk, cooling, flushing, minPage,
                 pageKey, clock, client, mishaps>>

HttpFlushEnds ==
  /\ flushing /\ AllWritten
  /\ flushing' = FALSE
  /\ UNCHANGED <<st, inProgress, generation, queue, worker, disk, cooling, minPage,
                 pageKey, clock, client, mishaps>>

-----------------------------------------------------------------------------
WorkerStep(w) == \/ Dequeue(w) \/ Claim(w) \/ SkipStale(w) \/ SkipDone(w)
                 \/ List(w) \/ ListFails(w) \/ ListSuperseded(w) \/ JobFails(w)
                 \/ Commit(w) \/ Finish(w) \/ FlushEnds(w)

Next ==
  \/ \E k \in Pages, force \in BOOLEAN : OpenPage(k, force)
  \/ \E k \in Pages : Browser(k)
  \/ \E k \in Pages, p \in Paths : EnsureKnown(k, p)
  \/ \E p \in Paths : \/ CoolDown(p) \/ Prime(p) \/ Invalidate(p)
                      \/ FlushRecord(p)
  \/ HttpFlushEnds
  \/ \E w \in Workers : WorkerStep(w)

Spec == Init /\ [][Next]_vars

(* The worker threads run, a flush runs to its end, a cooldown ends; and the *)
(* browser tab goes on with the page it shows.                              *)
Background ==
  \/ \E w \in Workers : WorkerStep(w)
  \/ \E p \in Paths : FlushRecord(p) \/ CoolDown(p)
  \/ HttpFlushEnds
FairSpec == Spec /\ WF_vars(Background) /\ \A k \in Pages : WF_vars(Browser(k))

-----------------------------------------------------------------------------
(* Properties                                                               *)

(* Every variable has its type, and a dirty mark is of a record in memory.    *)
(* (A total can fall below zero: a primed folder starts again from its own    *)
(* files while its parent still counts what it had handed up.)                *)
TypeOK ==
  /\ st.acc \in [Paths -> Acc \cup {None}]
  /\ st.direct \in [Paths -> 0..MaxPage]
  /\ st.pending \in [Paths -> (SUBSET Paths) \cup {None}]
  /\ st.parent \in [Paths -> Paths \cup {None}]
  /\ st.contrib \in [Paths -> Int]
  /\ st.abandoned \subseteq Paths
  /\ \A p \in Paths : st.dirty[p] # None => st.dirty[p] \in BOOLEAN /\ st.acc[p] # None
  /\ inProgress \in [Paths -> 0..MaxPage]
  /\ generation \in [Paths -> Nat]
  /\ DOMAIN queue \subseteq Job
  /\ disk \in [Paths -> Record \cup {None}]
  /\ cooling \subseteq Paths /\ flushing \in BOOLEAN
  /\ minPage \in 0..MaxPage /\ clock \in minPage..MaxPage
  /\ pageKey \in Pages \cup {None}
  /\ \A k \in Pages :
       /\ client[k].step \in {"off", "load", "show", "poll"}
       /\ client[k].rows \in Seq(Kids(k)) /\ client[k].left \in Seq({k} \cup Kids(k))

SumOver(f, S) == FoldFunctionOnSet(+, 0, f, S)
TrueTotal[p \in Paths] == SumOver(DirectTotal, Below(p))
HasWork(p) ==
  \/ \E j \in DOMAIN queue : j.path = p
  \/ \E w \in Workers : worker[w].pc \notin {"idle", "flush"} /\ Doing(w) = p
Calm == queue = EmptyBag /\ AllWritten /\ \A w \in Workers : At(w, "idle")
Listing(w) == worker[w].pc \in {"list", "commit"}

(* A total is the folder's own files (none if its job failed) and exactly    *)
(* what each attached subfolder has handed up, however the workers finish:   *)
(* propagate neither loses nor repeats a child's change.  (For one page      *)
(* epoch with a local root, without invalidations and primings: a restart in *)
(* a later epoch hands up again; without a local root a folder is complete   *)
(* before its subfolders are, and its parent can adopt its early record.)   *)
AddsUp ==
  \A p \in Paths : st.acc[p] # None =>
    LET attached == {c \in Paths : st.parent[c] = p}
    IN  st.acc[p].total - SumOver(st.contrib, attached) \in {0, DirectTotal[p]}

(* At rest, with no failure on the way, every folder that was listed is on   *)
(* disk as complete with the total of its whole subtree: no child finished   *)
(* between two sections of its parent without being counted.  (For one page  *)
(* epoch with a local root, as AddsUp.)                                     *)
RestIsExact ==
  Calm /\ mishaps = 0 =>
    \A p \in Paths : st.direct[p] # 0 => Complete(p) /\ disk[p].total = TrueTotal[p]

(* An owned folder ("calculating") has a job, or a worker that will release  *)
(* it: serve_folder_info asks for such a folder to "ensure it's queued", and *)
(* request() leaves it alone for that reason.  (For one page epoch, without   *)
(* invalidations and primings.)                                             *)
OwnedHasWork == \A p \in Paths : inProgress[p] # 0 => HasWork(p)

(* Size and count "still need to finish before complete: true": a complete   *)
(* record holds the whole subtree's total (docs/background-workers.md).     *)
CompleteIsExact == \A p \in Paths : Complete(p) => disk[p].total = TrueTotal[p]

(* A total never exceeds what the subtree holds, because _compute and the    *)
(* restart in _request_with_depth "clear stale contribution so re-compute    *)
(* deltas start from zero".                                                 *)
NeverOver == \A p \in Paths : st.acc[p] # None => st.acc[p].total <= TrueTotal[p]

(* Two workers never list the same folder, although a queued job survives    *)
(* newer requests, invalidations and the loss of its ownership.             *)
SingleFlight ==
  \A v, w \in Workers : v # w /\ Listing(v) /\ Listing(w) => Doing(v) # Doing(w)

(* A child that its parent waits for knows that parent, so that its          *)
(* completion reaches it, whatever was invalidated or restarted meanwhile.  *)
PendingLinked == \A p \in Paths : \A c \in Pending(st, p) : st.parent[c] = p

(* A job that invalidate() overtook publishes nothing: what the workers made  *)
(* known of a top folder, in memory or on disk, comes from a job claimed      *)
(* after its last invalidation, whatever was queued, raised or reopened       *)
(* between.  (Not so a foreground listing, which primes the record without    *)
(* asking, nor a subfolder, which is re-adopted from a record read earlier.)  *)
RootIsCurrent ==
  \A p \in Paths : Len(Lineage[p]) = 1 =>
    /\ st.acc[p] # None => st.acc[p].gen \in {generation[p], None}
    /\ disk[p] # None => disk[p].gen \in {generation[p], None}

(* A page that stays open gets its complete record, with the right total if  *)
(* nothing failed.  The one exception is a folder deeper than the rows that  *)
(* the page polls: when its listing fails, no poll asks for it again.        *)
Unpolled(k) == Below(k) \ ({k} \cup Kids(k))
Stranded(c) == mishaps > 0 /\ ~Complete(c) /\ inProgress[c] = 0
PageSettles ==
  \A k \in Pages :
    (pageKey = k) ~> \/ Complete(k) /\ (mishaps = 0 => disk[k].total = TrueTotal[k])
                     \/ \E c \in Unpolled(k) : Stranded(c)

=============================================================================
