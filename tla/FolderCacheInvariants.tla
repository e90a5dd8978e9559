----------------------- MODULE FolderCacheInvariants -----------------------
(***************************************************************************)
(* What FolderCacheProofs shows the folder cache to keep: the inductive     *)
(* invariants, the conditions on the accumulated state that they are made   *)
(* of, and what the helpers and the loops of a listing leave behind.  The   *)
(* invariants, each resting on the ones before it:                          *)
(*                                                                         *)
(*   ClaimInv   the claims of the workers                                   *)
(*   CacheInv   types, links and generations                                *)
(*   OwnedInv   ownership and work           (one page epoch)               *)
(*   TallyInv   totals and contributions     (one page epoch, local root)   *)
(*   RestInv    who waits, has handed up and is on disk, while nothing fails *)
(***************************************************************************)
EXTENDS FolderCache

(* The fields of the record of a worker that is not idle.                    *)
JobFields == {"pc", "path", "epoch", "depth", "claimed", "force", "gen", "seen"}

(* Every worker has a record of the right shape.                            *)
Shaped == /\ DOMAIN worker = Workers
          /\ \A w \in Workers : \/ worker[w] = Idle
                                \/ DOMAIN worker[w] = JobFields

(* A listing worker is in the active-job table.                             *)
ListingIsClaimed == \A w \in Workers : Listing(w) => worker[w].claimed

(* Inductive: the claims, and that no two of them are for one folder.       *)
ClaimInv == Shaped /\ ListingIsClaimed /\ SingleFlight

-----------------------------------------------------------------------------
(* Walks: what Along computes, without induction over its steps            *)

(* A walk of n steps: f begins at x, and step i maps f[i - 1] by F[i].       *)
Steps(n, U) == [1..n -> [U -> U]]

(* f walks from x in U by the n steps of F.                                *)
Walk(n, U, x, F, f) == /\ f \in [0..n -> U] /\ f[0] = x
                       /\ \A i \in 1..n : f[i] = F[i][f[i - 1]]

(* A walk along G, whose step i maps A[i - 1] into A[i]: it stays in A.      *)
Travels(n, x, A, G, f) ==
  /\ f = [i \in 0..n |-> f[i]] /\ f[0] = x
  /\ \A i \in 0..n : f[i] \in A[i]
  /\ \A i \in 1..n : f[i] = G[i][f[i - 1]]

(* One step of Keep.                                                       *)
KeepStep(S, kept, e) == IF e \in S THEN Append(kept, e) ELSE kept

-----------------------------------------------------------------------------
(* Lineages: the recursive definition yields the chain from a folder to    *)
(* its root                                                                *)

(* L leads from p up to a folder without a parent.                          *)
Chain(L, p) ==
  /\ L \in Seq(Paths) /\ Len(L) >= 1 /\ L[1] = p
  /\ \A i \in 1..(Len(L) - 1) : L[i] \in Kids(L[i + 1])
  /\ \A q \in Paths : L[Len(L)] \notin Kids(q)

-----------------------------------------------------------------------------
(* The accumulated state, and what its helpers keep                        *)

(* The type of st, and of every state that a helper returns.               *)
StateSet == [acc       : [Paths -> Acc \cup {None}],
             direct    : [Paths -> 0..MaxPage],
             pending   : [Paths -> (SUBSET Paths) \cup {None}],
             parent    : [Paths -> Paths \cup {None}],
             contrib   : [Paths -> Int],
             abandoned : SUBSET Paths,
             dirty     : [Paths -> BOOLEAN \cup {None}]]

(* p is a top folder: no folder lists it.                                  *)
Top(p) == \A q \in Paths : p \notin Kids(q)

(* What every helper keeps: a dirty mark is of a record, a folder waits    *)
(* for and is parent of its own subfolders, and a top folder's record is   *)
(* of its present generation or was primed.                                *)
Linked(s) ==
  /\ s \in StateSet
  /\ \A p \in Paths : s.dirty[p] # None => s.acc[p] # None
  /\ \A p \in Paths : \A c \in Pending(s, p) : c \in Kids(p) /\ s.parent[c] = p
  /\ \A c \in Paths : s.parent[c] # None => c \in Kids(s.parent[c])
  /\ \A p \in Paths : Top(p) /\ s.acc[p] # None => s.acc[p].gen \in {generation[p], None}

(* What no helper takes away: a record, and a set of pending children.      *)
Keeps(s, x) ==
  /\ \A p \in Paths : s.acc[p] # None => x.acc[p] # None
  /\ \A p \in Paths : s.pending[p] \in SUBSET Paths => x.pending[p] \in SUBSET Paths

(* x is a state that a helper may return for s.                            *)
Grows(s, x) == Linked(x) /\ Keeps(s, x)

(* The diff statuses.                                                      *)
Diffs == {"loading", "synced", "diff", "unavailable"}

(* The type of _generation.                                                *)
GenTyped == generation \in [Paths -> Nat]

(* s with the record a for p; and with the diff status d for p.            *)
SetAcc(s, p, a) == [s EXCEPT !.acc[p] = a]
SetDiff(s, p, d) == [s EXCEPT !.acc[p].diff = d]

(* The type of a walk from a folder towards the root.                      *)
Climbing == [s : StateSet, go : BOOLEAN]

-----------------------------------------------------------------------------
(* The queue, and what forgets a folder                                    *)

(* The bags of jobs: what the priority queue can hold.                     *)
JobBags == UNION {[D -> Nat \ {0}] : D \in SUBSET Job}

-----------------------------------------------------------------------------
(* A listing                                                               *)

(* The page epochs a job can have.                                         *)
Epochs == 1..MaxPage

(* The type of the loop over the subfolders of a listing.                  *)
Adding == [s : StateSet, owned : [Paths -> 0..MaxPage], q : JobBags]

(* The subfolder sf gets the parent p, which has received nothing from it. *)
Adopted(s, p, sf) == [s EXCEPT !.parent[sf] = p, !.contrib[sf] = 0]

(* s after p was listed for page t, with record a.                         *)
WithRecord(s, p, a, t) ==
  [s EXCEPT !.acc[p] = a, !.direct[p] = t, !.pending[p] = Pending(s, p)]

-----------------------------------------------------------------------------
(* The invariant                                                           *)

(* What is known of the folders, in memory and on disk.                     *)
Published ==
  /\ Linked(st) /\ GenTyped
  /\ disk \in [Paths -> Record \cup {None}]
  /\ \A p \in Paths : Top(p) /\ disk[p] # None => disk[p].gen \in {generation[p], None}

(* The owned folders, the queue, the cooldowns.                            *)
Owned ==
  /\ inProgress \in [Paths -> 0..MaxPage] /\ queue \in JobBags
  /\ cooling \subseteq Paths /\ flushing \in BOOLEAN

(* The page times: a page that is shown has pushed the minimum to 1 or     *)
(* more.                                                                   *)
Timed ==
  /\ minPage \in 0..MaxPage /\ clock \in minPage..MaxPage
  /\ pageKey \in Pages \cup {None} /\ (pageKey # None => minPage >= 1)

(* r is what a worker knows of its job; a worker about to commit has read  *)
(* records.                                                                *)
Employed(r) ==
  /\ DOMAIN r = JobFields /\ r.path \in Paths /\ r.epoch \in Epochs /\ r.depth \in 0..DepthCap
  /\ r.pc = "commit" => r.seen \in [Kids(r.path) -> Record \cup {None}]

(* Every worker that is not idle has a job.                                *)
Working == /\ DOMAIN worker = Workers
           /\ \A w \in Workers : worker[w].pc # "idle" => Employed(worker[w])

(* The fields of a tab, and the tab c of page k.                           *)
TabFields == {"step", "rows", "left", "polled", "watch", "time"}
Tab(c, k) ==
  /\ DOMAIN c = TabFields
  /\ c.step \in {"off", "load", "show", "poll"}
  /\ c.rows \in Seq(Kids(k)) /\ c.left \in Seq({k} \cup Kids(k))
  /\ c.step = "load" => c.time \in 1..clock

(* Every page has its tab.                                                 *)
Browsing == DOMAIN client = Pages /\ \A k \in Pages : Tab(client[k], k)

(* Inductive: all of these.                                                *)
CacheInv == Published /\ Owned /\ Timed /\ Working /\ Browsing

-----------------------------------------------------------------------------
(* Listed folders are settled                                              *)

(* p's diff status is not known yet.                                        *)
Undecided(s, p) == HasLocalRoot /\ s.acc[p] # None /\ s.acc[p].diff = "loading"

(* p is to be written as complete.                                          *)
WholeMark(s, p) == HasLocalRoot /\ s.dirty[p] = TRUE

(* Outside of E, an undecided folder was listed and waits for a subfolder,   *)
(* and what is to be written as complete was listed and decided.  (In E, a   *)
(* folder may be undecided although nothing is pending: the folder that a    *)
(* listing or a finished subfolder is about to decide.)                     *)
Settled(s, E) ==
  /\ s.abandoned = {}
  /\ \A p \in Paths : s.direct[p] # 0 => s.acc[p] # None
  /\ \A p \in Paths : Undecided(s, p) => s.direct[p] # 0 /\ (Pending(s, p) # {} \/ p \in E)
  /\ \A p \in Paths : WholeMark(s, p) =>
       s.direct[p] # 0 /\ (Undecided(s, p) => p \in E /\ Pending(s, p) = {})

(* What propagate and a diff status leave alone.                            *)
SameLists(s, x) == x.direct = s.direct /\ x.parent = s.parent /\ x.pending = s.pending

-----------------------------------------------------------------------------
(* The invariant behind the ownership                                      *)

(* One page epoch, and no mishap but failed listings.                       *)
OneEpoch == MaxPage = 1 /\ Mishaps \subseteq {"fail"}

(* A record that is written as complete is decided.                         *)
Decided(r) == HasLocalRoot /\ r # None /\ r.complete => r.diff # "loading"

(* A worker with the record r, where direct and owned are _direct_done and    *)
(* _in_progress: it has claimed its folder from the start of a listing to     *)
(* the finally block, lists only a folder that is owned and was not listed    *)
(* before, and enters the finally block without force or without a claim      *)
(* only if the folder was listed.                                           *)
Serves(r, direct, owned) ==
  /\ r.pc # "stale"
  /\ r.pc \in {"got", "done", "flush"} => ~r.claimed
  /\ r.pc \in {"list", "commit"} => direct[r.path] = 0 /\ owned[r.path] # 0
  /\ r.pc = "done" => direct[r.path] # 0
  /\ r.pc = "final" /\ ~(r.force /\ r.claimed) => direct[r.path] # 0
  /\ r.pc = "commit" => \A c \in Kids(r.path) : Decided(r.seen[c])

(* The records w and v of two workers: they have not claimed one folder.     *)
Claims(r) == r.pc # "idle" /\ r.claimed
Apart(q, r) == Claims(q) /\ Claims(r) => q.path # r.path

(* Inductive, for one page epoch.                                           *)
OwnedInv ==
  /\ Settled(st, {})
  /\ \A p \in Paths : Decided(disk[p])
  /\ \A w \in Workers : Serves(worker[w], st.direct, inProgress)
  /\ \A v, w \in Workers : v # w => Apart(worker[v], worker[w])
  /\ OwnedHasWork

-----------------------------------------------------------------------------
(* A listing settles its folder                                            *)

(* What the loop over the subfolders keeps of the lists it began with.      *)
OnlyAdds(x, y) ==
  /\ \A q \in Paths : x.s.direct[q] # 0 => y.s.direct[q] # 0
  /\ \A q \in Paths : y.s.direct[q] # 0 => x.s.direct[q] # 0 \/ x.owned[q] = 0
  /\ \A q \in Paths : x.owned[q] # 0 => y.owned[q] # 0
  /\ \A q \in Paths : y.owned[q] # 0 => x.owned[q] # 0 \/ \E j \in DOMAIN y.q : j.path = q
  /\ DOMAIN x.q \subseteq DOMAIN y.q

-----------------------------------------------------------------------------
(* Sums over finite sets                                                   *)

(* The element that a fold takes first.                                     *)
FirstOf(S) == CHOOSE x \in S : TRUE

(* h sums f over the subsets of S, the way the fold does.                   *)
Sums(f, S, h) ==
  /\ h = [T \in SUBSET S |-> h[T]]
  /\ \A T \in SUBSET S : h[T] = IF T = {} THEN 0 ELSE f[FirstOf(T)] + h[T \ {FirstOf(T)}]

-----------------------------------------------------------------------------
(* Totals add up                                                           *)

(* The subfolders that p has been made parent of.                           *)
Attached(s, p) == {c \in Paths : s.parent[c] = p}

(* A total is what the attached subfolders have handed up and one of V[p]    *)
(* for the folder's own files.                                              *)
Tallied(s, V) ==
  \A p \in Paths : s.acc[p] # None => s.acc[p].total - SumOver(s.contrib, Attached(s, p)) \in V[p]

(* A parent is in memory.                                                   *)
Homed(s) == \A c \in Paths : s.parent[c] # None => s.acc[s.parent[c]] # None

Sound(s, V) == Linked(s) /\ Homed(s) /\ Tallied(s, V)

(* What the helpers leave alone; and they mark a folder as whole only when   *)
(* nothing of it is pending.                                                *)
Hands(s, x) ==
  /\ x.parent = s.parent /\ x.direct = s.direct
  /\ \A q \in Paths : Pending(x, q) \subseteq Pending(s, q)
  /\ \A q \in Paths : s.acc[q] = None => x.acc[q] = None
  /\ \A q \in Paths : x.dirty[q] = TRUE => s.dirty[q] = TRUE \/ Pending(x, q) = {}

(* x is a sound state that a helper may return for s.                       *)
Passes(s, x, V) == Hands(s, x) /\ Sound(x, V)

(* A folder that was not listed has no record and waits for nothing.         *)
Blank(s) == \A p \in Paths : s.direct[p] = 0 => s.acc[p] = None /\ Pending(s, p) = {}

(* A folder other than o that is to be written as complete waits for nothing. *)
MarksDone(s, o) == \A p \in Paths \ {o} : s.dirty[p] = TRUE => Pending(s, p) = {}

Counted(s, V, o) == Sound(s, V) /\ Blank(s) /\ MarksDone(s, o)

(* s with p waiting for sf.                                                 *)
Waits(s, p, sf, d) == [s EXCEPT !.pending[p] = @ \cup {sf}, !.direct[sf] = d]

-----------------------------------------------------------------------------
(* A listing counts its subfolders                                          *)

(* p was listed and waits for nothing.                                      *)
Done(s, p) == s.direct[p] # 0 /\ Pending(s, p) = {}

(* A record that says its folder is complete.                               *)
Tells(r) == r # None /\ r.complete

(* What the loop over the subfolders of p has to go on: a subfolder that was   *)
(* read as complete is done; only o can have subfolders that were listed     *)
(* before it and can be to be written as complete.                          *)
Ready(s, p, seen, o) ==
  /\ s.acc[p] # None /\ s.direct[p] # 0 /\ s.pending[p] \in SUBSET Paths
  /\ \A c \in Kids(p) : Tells(seen[c]) => Done(s, c)
  /\ p # o => s.dirty[p] # TRUE /\ \A c \in Kids(p) : s.direct[c] = 0

(* What the loop has after the subfolder sf: y, where it had x.               *)
Adds(x, y, p, sf, seen, V, o) ==
  /\ Counted(y.s, V, o) /\ Ready(y.s, p, seen, o) /\ y.s.direct = x.s.direct
  /\ \A c \in Paths \ {sf} : y.s.parent[c] = x.s.parent[c]
  /\ \A q \in Paths \ {p} : Pending(y.s, q) \subseteq Pending(x.s, q)
  /\ \A q \in Paths \ {sf} : y.owned[q] = x.owned[q]

(* What a listing has when it commits; V and o as in Counted and Ready.       *)
Lists(w, V, o) ==
  /\ Linked(st) /\ GenTyped /\ Counted(st, V, o) /\ Settled(st, {})
  /\ inProgress \in [Paths -> 0..MaxPage] /\ queue \in JobBags
  /\ Doing(w) \in Paths /\ st.direct[Doing(w)] = 0 /\ DirectTotal[Doing(w)] \in V[Doing(w)]
  /\ ~CalledOff(w) /\ Epoch(w) \in Epochs /\ ~(Epoch(w) < minPage)
  /\ worker[w].depth \in 0..DepthCap
  /\ worker[w].seen \in [Kids(Doing(w)) -> Record \cup {None}]
  /\ \A c \in Kids(Doing(w)) : /\ Decided(worker[w].seen[c])
                               /\ Tells(worker[w].seen[c]) => Done(st, c)
  /\ Doing(w) # o => \A c \in Kids(Doing(w)) : st.direct[c] = 0

(* The loop over the subfolders of w's folder has v after i of them.          *)
Upto(i, v, w, V, o) ==
  LET p == Doing(w)
      n == Len(Subfolders[p])
  IN  /\ v \in Adding
      /\ Counted(v.s, V, o) /\ Settled(v.s, {p})
      /\ i > 0 => Settled(v.s, {})
      /\ i = 0 /\ n > 0 => ~WholeMark(v.s, p)
      /\ n > 0 => Ready(v.s, p, worker[w].seen, o)
      /\ v.s.direct = Begun(w).direct
      /\ \A j \in (i + 1)..n : v.s.parent[Subfolders[p][j]] = None
      /\ \A c \in Paths \ Kids(p) : v.s.parent[c] = st.parent[c]
      /\ \A q \in Paths \ {p} : Pending(v.s, q) \subseteq Pending(st, q)
      /\ \A q \in Paths \ Kids(p) : v.owned[q] = inProgress[q]

-----------------------------------------------------------------------------
(* The invariant behind the totals                                         *)

(* What a folder's own files may add to its total: nothing once a job failed. *)
Shares == [p \in Paths |-> IF mishaps = 0 THEN {DirectTotal[p]} ELSE {0, DirectTotal[p]}]

(* A folder that was listed, or is to be.                                   *)
Reached(q) == st.direct[q] # 0 \/ inProgress[q] # 0

(* The folders that a page on o has asked for, or a listing below it.         *)
Lies(o, q) == q = o \/ q \in Kids(o) \/ \E p \in Paths : q \in Kids(p) /\ st.direct[p] # 0

(* All that is reached is reached from o, the page; and only o can have been  *)
(* listed after one of its subfolders (its rows are polled before it), so     *)
(* that only o can be read as complete while it waits again.                *)
Tracked(o) ==
  /\ pageKey # None => o = pageKey
  /\ \A q \in Paths : Reached(q) => Lies(o, q)
  /\ Counted(st, Shares, o)
  /\ \A p \in Paths \ {o} : Complete(p) => Done(st, p)
  /\ \A w \in Workers : At(w, "commit") =>
       \A c \in Kids(Doing(w)) \ {o} : Tells(worker[w].seen[c]) => Done(st, c)

(* What is known of the time before the first page and request: nothing is    *)
(* reached; and what is on disk was listed.                                 *)
Begins ==
  /\ mishaps \in Nat
  /\ clock = 0 => pageKey = None /\ \A q \in Paths : ~Reached(q)
  /\ \A k \in Pages : client[k].step # "off" => pageKey = k
  /\ \A p \in Paths : st.direct[p] = 0 => disk[p] = None

(* Inductive, for one page epoch with a local root.                         *)
TallyInv == Paths # {} => Begins /\ \E o \in Paths : Tracked(o)

-----------------------------------------------------------------------------
(* At rest the totals are exact                                            *)

(* A parent waits for those of its subfolders that are not done; and for a   *)
(* subfolder in E although it may be done.                                  *)
Waiting(s, E) ==
  \A p, c \in Paths : c \in Pending(s, p) <=> s.parent[c] = p /\ (~Done(s, c) \/ c \in E)

(* A subfolder that is done has handed up its total, unless it is in E.       *)
HandedUp(s, E) ==
  \A c \in Paths \ E : Done(s, c) /\ s.parent[c] # None => s.contrib[c] = s.acc[c].total

(* Totals only grow: nothing handed up exceeds the total it is part of.       *)
Grown(s) ==
  \A c \in Paths : IF s.acc[c] = None THEN s.contrib[c] = 0
                   ELSE s.acc[c].total > 0 /\ s.contrib[c] <= s.acc[c].total

(* p is to be written as complete, or was so with the total it has; d is the  *)
(* records on disk.                                                         *)
Recorded(s, d, p) ==
  \/ s.dirty[p] = TRUE
  \/ s.dirty[p] = None /\ Tells(d[p]) /\ d[p].total = s.acc[p].total

(* So is every folder that is done, unless it is in E.                       *)
Written(s, d, E) == \A p \in Paths \ E : Done(s, p) => Recorded(s, d, p)

(* A chain of folders upwards, on to T, each of which has handed up its total. *)
Fits(s, D, T) ==
  D \subseteq Paths /\ \A c \in D : /\ s.acc[c] # None
                                    /\ s.parent[c] # None => /\ s.parent[c] \in D \cup T
                                                             /\ s.contrib[c] = s.acc[c].total

(* What x, made of s without a change of totals, keeps: outside of E a folder *)
(* that is done loses no complete mark.                                     *)
Marks(s, x, E) ==
  /\ x.parent = s.parent /\ x.direct = s.direct /\ x.contrib = s.contrib
  /\ x.abandoned = s.abandoned
  /\ \A q \in Paths : Pending(x, q) = Pending(s, q)
  /\ \A q \in Paths : (x.acc[q] = None <=> s.acc[q] = None) /\ x.acc[q].total = s.acc[q].total
  /\ \A q \in Paths \ E : Done(s, q) => x.dirty[q] = s.dirty[q] \/ x.dirty[q] = TRUE

(* What a step of propagate does, if it goes on: q, the parent of p, gains    *)
(* what p has not handed up yet.                                            *)
Gains(s, x, p, q) ==
  /\ p \in Paths /\ q \in Paths /\ p # q /\ s.parent[p] = q
  /\ x.parent = s.parent /\ x.direct = s.direct /\ x.pending = s.pending
  /\ x.abandoned = s.abandoned
  /\ x.contrib[p] = s.acc[p].total /\ \A r \in Paths \ {p} : x.contrib[r] = s.contrib[r]
  /\ s.acc[p] # None /\ s.acc[q] # None /\ x.acc[q] # None
  /\ x.acc[q].total = s.acc[q].total + (s.acc[p].total - s.contrib[p])
  /\ \A r \in Paths \ {q} : x.acc[r] = s.acc[r] /\ x.dirty[r] = s.dirty[r]
  /\ Done(s, q) => x.dirty[q] = TRUE

(* p has something to hand up.                                              *)
Rises(s, p) == s.acc[p] # None /\ s.contrib[p] < s.acc[p].total

(* What x, made of s by propagate, keeps.                                   *)
Raised(s, x) ==
  /\ x.parent = s.parent /\ x.direct = s.direct /\ x.pending = s.pending
  /\ x.abandoned = s.abandoned
  /\ \A q \in Paths : x.acc[q] = None <=> s.acc[q] = None
  /\ \A F : Waiting(s, F) => Waiting(x, F)
  /\ Grown(s) => Grown(x)
  /\ \A d, E : Written(s, d, E) => Written(x, d, E)

(* The folder that a walk goes on with.                                     *)
Onward(go, q) == IF go THEN {q} ELSE {}

(* What propagate has made of s on the way to q: D has handed up its totals.  *)
HandsOn(s, go, q, D) ==
  /\ Fits(s, D, Onward(go, q))
  /\ go => Rises(s, q)

(* What it then has to hand up, and what it has handed up.                   *)
Goes(s, x, p, q) ==
  /\ Raised(s, x) /\ q \in Paths /\ p \in Kids(q) /\ x.acc[q] # None
  /\ HandedUp(s, {p}) => HandedUp(x, {q})
  /\ Grown(s) /\ Rises(s, p) => Rises(x, q)
  /\ \A D : Fits(s, D, {p}) /\ q \notin D => Fits(x, D \cup {p}, {q})

(* propagate as a whole: the folder hands up what it has, and if that is       *)
(* something, so do all above it.                                           *)
Carried(s, x, p) ==
  /\ Raised(s, x) /\ Linked(x) /\ Homed(x)
  /\ HandedUp(s, {p}) => HandedUp(x, {})
  /\ Grown(s) /\ Rises(s, p) => \E D : p \in D /\ Fits(x, D, {})

(* What on_subtree_complete leaves alone.                                   *)
Wraps(s, x) ==
  /\ x.parent = s.parent /\ x.direct = s.direct /\ x.contrib = s.contrib
  /\ x.abandoned = s.abandoned
  /\ \A q \in Paths : (x.acc[q] = None <=> s.acc[q] = None) /\ x.acc[q].total = s.acc[q].total

(* The walk of on_subtree_complete has come to q, which is done if it goes    *)
(* on: then the parent of q may wait for it still, and what q has is handed  *)
(* up.                                                                      *)
Ending(s, go, q, D, d, E) ==
  /\ go => Done(s, q)
  /\ Waiting(s, {}) \/ (go /\ Waiting(s, {q}) /\ Fits(s, D, {}) /\ q \in D)
  /\ HandedUp(s, {}) /\ Grown(s) /\ Written(s, d, E)

(* p is crossed off the list of q.                                          *)
Crossed(s, q, p) == [s EXCEPT !.pending[q] = @ \ {p}]

(* After that q may be done, while its parent waits for it.                  *)
CrossedOff(s, x, p, q, D, d, E) ==
  /\ Waiting(x, {}) \/ (Done(x, q) /\ Waiting(x, {q}) /\ Fits(x, D, {}) /\ q \in D)
  /\ HandedUp(x, {}) /\ Grown(x) /\ Written(x, d, E \cup {q})

(* The states that the helpers work on while one page is shown.               *)
Firm(s) == Linked(s) /\ Homed(s) /\ s.abandoned = {}

(* Everything is waited for, handed up and written as it should be.           *)
Rested(s, d, E) == Waiting(s, {}) /\ HandedUp(s, {}) /\ Grown(s) /\ Written(s, d, E)

(* x is such a state, made of s.                                            *)
Rests(s, x, d, E) == Firm(x) /\ Rested(x, d, E) /\ x.parent = s.parent /\ x.direct = s.direct

(* The state in which _compute has put the folder's own record.              *)
FreshFolder(w) ==
  [st EXCEPT !.abandoned = @ \ {Doing(w)}, !.acc[Doing(w)] = FreshAcc(Doing(w), worker[w].gen),
             !.direct[Doing(w)] = Epoch(w), !.pending[Doing(w)] = {}]

(* What it changes: x is st with a record for p, that waits for nothing.      *)
Freshened(x, p) ==
  /\ x.acc[p] # None /\ x.acc[p].total = DirectTotal[p]
  /\ \A q \in Paths \ {p} : x.acc[q] = st.acc[q] /\ x.direct[q] = st.direct[q]
  /\ x.direct[p] # 0 /\ Pending(x, p) = {}
  /\ \A q \in Paths \ {p} : Pending(x, q) = Pending(st, q)
  /\ x.parent = st.parent /\ x.dirty = st.dirty /\ x.contrib = st.contrib
  /\ \A c \in Paths : st.parent[c] # p

(* While the subfolders of p are added: p may be done though its parent waits  *)
(* for it, and what p and all above it have is handed up.                    *)
Gathers(s, p, d) ==
  /\ Firm(s) /\ s.acc[p] # None
  /\ Waiting(s, {p}) /\ HandedUp(s, {}) /\ Grown(s) /\ Written(s, d, {p})
  /\ \E D : p \in D /\ Fits(s, D, {})

(* What giving the subfolder sf the parent p changes.                        *)
Adopts(s, x, p, sf) ==
  /\ Firm(x) /\ x.acc = s.acc /\ x.direct = s.direct /\ x.dirty = s.dirty
  /\ x.pending = s.pending
  /\ x.parent[sf] = p /\ \A c \in Paths \ {sf} : x.parent[c] = s.parent[c]
  /\ x.contrib[sf] = 0 /\ \A c \in Paths \ {sf} : x.contrib[c] = s.contrib[c]

(* What x, made of s by giving sf the parent p, then has.                     *)
Adoption(s, x, p, sf, d) ==
  /\ HandedUp(x, {sf}) /\ Grown(x) /\ Written(x, d, {p})
  /\ Done(x, sf) => Waiting(x, {p})
  /\ \A q, c \in Paths : c # sf => (c \in Pending(x, q) <=>
       x.parent[c] = q /\ (~Done(x, c) \/ c \in {p}))
  /\ \A q \in Paths : sf \notin Pending(x, q)

(* One subfolder of a listing: it has its parent, and is owned unless it was   *)
(* listed.                                                                  *)
Gathering(x, y, p, sf, d) ==
  /\ Gathers(y.s, p, d) /\ y.s.parent[sf] = p
  /\ y.s.direct[sf] = 0 => y.owned[sf] # 0

(* So far every subfolder has its parent, and is owned unless it was listed;   *)
(* and the parent's state is one in which subfolders are added.              *)
Collects(i, v, w, V, o, d) ==
  /\ Upto(i, v, w, V, o) /\ Gathers(v.s, Doing(w), d)
  /\ \A j \in 1..i : LET c == Subfolders[Doing(w)][j]
                     IN  v.s.parent[c] = Doing(w) /\ (v.s.direct[c] = 0 => v.owned[c] # 0)

(* A commit, where o is the page: what it keeps and what it adds.             *)
Gathered(s) == \A p \in Paths : s.direct[p] # 0 => \A c \in Kids(p) : s.parent[c] = p
AskedFor(s, owned) == \A c \in Paths : s.parent[c] # None /\ s.direct[c] = 0 => owned[c] # 0

-----------------------------------------------------------------------------
(* The steps of the cache                                                  *)

(* A worker with the record r lists for the generation there is, and enters     *)
(* the finally block of a folder that was listed; direct and gen are          *)
(* _direct_done and _generation.                                            *)
Current(r, direct, gen) ==
  /\ r.pc \in {"list", "commit"} => r.gen = gen[r.path]
  /\ r.pc = "final" => direct[r.path] # 0

(* Inductive, with what TotalsAddUp needs, until a listing or a job fails.     *)
Resting ==
  /\ Rested(st, disk, {}) /\ Gathered(st) /\ AskedFor(st, inProgress)
  /\ \A w \in Workers : Current(worker[w], st.direct, generation)
RestInv == Paths # {} /\ mishaps = 0 => Resting

-----------------------------------------------------------------------------
(* The total of a subtree                                                  *)

(* A state in which everything listed is done, and has handed up its total.    *)
AllDone(s) ==
  /\ \A p \in Paths : s.direct[p] # 0 =>
       /\ s.acc[p] # None /\ Pending(s, p) = {}
       /\ \A c \in Kids(p) : /\ s.parent[c] = p /\ s.direct[c] # 0
                             /\ s.contrib[c] = s.acc[c].total
=============================================================================
