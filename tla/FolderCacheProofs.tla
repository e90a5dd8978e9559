-------------------------- MODULE FolderCacheProofs --------------------------
(***************************************************************************)
(* Four results about the folder cache, for every tree, every number of     *)
(* workers and pages and every sequence of requests, failures, primings and  *)
(* invalidations; and three more, OwnedHasWork, AddsUp and RestIsExact, for  *)
(* one page epoch without primings and invalidations.                       *)
(*                                                                         *)
(* SingleFlight is about the active-job table alone: a worker that lists is  *)
(* in the table, from its claim to its finally block, and no claim is made   *)
(* for a folder in it.  Ownership (_in_progress) plays no part, which       *)
(* matters because ownership can be lost while a worker still lists.        *)
(*                                                                         *)
(* TypeOK, PendingLinked and RootIsCurrent need what the helpers on the     *)
(* accumulated state keep (Linked), and the helpers are loops: over the     *)
(* folders from p up to its root, and over the subfolders of p.  Along and  *)
(* Lineage are recursive functions; that they are defined, and what a loop  *)
(* keeps, is shown by looking at the first step that fails.                 *)
(*                                                                         *)
(* OwnedHasWork needs that a listed folder is never listed again: a listed   *)
(* folder whose subfolders are all done has been decided (Settled), so that  *)
(* a request finds it whole and does not restart it.                        *)
(*                                                                         *)
(* AddsUp needs besides that a listing never gives a subfolder a parent      *)
(* twice and never takes over a record from disk: only the folder of the     *)
(* page is listed after one of its subfolders (Tracked).                    *)
(*                                                                         *)
(* RestIsExact needs what the order of the steps keeps while nothing fails   *)
(* (Resting): a parent waits for just those of its subfolders that are not   *)
(* done, one that is done has handed up its whole total and is on disk or to *)
(* be written as complete; a listed folder has counted its subfolders, and   *)
(* one that is counted and not listed is owned.  With nothing left to do,    *)
(* nothing is owned, so that nobody waits (RestIsDone).                     *)
(***************************************************************************)
EXTENDS FolderCacheInvariants, FiniteSetTheorems, SequenceTheorems, WellFoundedInduction, TLAPS


-----------------------------------------------------------------------------
(* The initial state has no listing worker. *)
LEMMA InitClaim == Init => ClaimInv
  BY DEF Init, ClaimInv, Shaped, ListingIsClaimed, SingleFlight, Listing, Idle

(* A step that leaves the workers alone keeps the claims. *)
LEMMA WorkersUnchanged == ClaimInv /\ UNCHANGED worker => ClaimInv'
  BY DEF ClaimInv, Shaped, ListingIsClaimed, SingleFlight, Listing, Doing, Idle

(* A step of one worker that does not begin or go on with a listing keeps *)
(* the claims: the others are where they were. *)
LEMMA OneWorkerStops ==
  ASSUME ClaimInv, NEW w \in Workers, NEW rec, Moves(w, rec),
         rec = Idle \/ DOMAIN rec = JobFields,
         rec.pc \notin {"list", "commit"}
  PROVE  ClaimInv'
  BY DEF ClaimInv, Shaped, ListingIsClaimed, SingleFlight, Listing, Doing, Idle, Moves

(* A worker that goes on listing its folder keeps the claims. *)
LEMMA OneWorkerGoesOn ==
  ASSUME ClaimInv, NEW w \in Workers, NEW rec, Moves(w, rec), Listing(w),
         DOMAIN rec = JobFields, rec.path = Doing(w), rec.claimed
  PROVE  ClaimInv'
  BY DEF ClaimInv, Shaped, ListingIsClaimed, SingleFlight, Listing, Doing, Idle, Moves

(* A worker that begins a listing of a folder no worker has claimed. *)
LEMMA OneWorkerBegins ==
  ASSUME ClaimInv, NEW w \in Workers, NEW rec, Moves(w, rec), ~Active(rec.path),
         DOMAIN rec = JobFields, rec.claimed
  PROVE  ClaimInv'
<1>1. \A v \in Workers : Listing(v) => Doing(v) # rec.path
  BY DEF ClaimInv, ListingIsClaimed, Listing, Active, Doing
<1>2. QED
  BY <1>1 DEF ClaimInv, Shaped, ListingIsClaimed, SingleFlight, Listing, Doing, Idle, Moves

(* A job record keeps its shape when some of its fields change. *)
LEMMA FinishingShape ==
  ASSUME Shaped, NEW w \in Workers, worker[w].pc # "idle", NEW force
  PROVE  /\ DOMAIN Finishing(w, force) = JobFields
         /\ Finishing(w, force).pc = "final"
         /\ DOMAIN [Finishing(w, force) EXCEPT !.seen = None] = JobFields
         /\ [Finishing(w, force) EXCEPT !.seen = None].pc = "final"
<1>1. DOMAIN worker[w] = JobFields BY DEF Shaped, Idle
<1>2. QED BY <1>1 DEF Finishing, JobFields

-----------------------------------------------------------------------------
(* Every step of worker w keeps the claims. *)
LEMMA WorkerKeepsClaims ==
  ASSUME ClaimInv, NEW w \in Workers, WorkerStep(w)
  PROVE  ClaimInv'
<1>shape. Shaped BY DEF ClaimInv
<1>fields. worker[w].pc # "idle" => DOMAIN worker[w] = JobFields
  BY <1>shape DEF Shaped, Idle
<1>1. CASE Dequeue(w)
  <2>1. PICK j \in DOMAIN queue :
          Moves(w, [pc |-> "got", path |-> j.path, epoch |-> j.epoch, depth |-> j.depth,
                    claimed |-> FALSE, force |-> FALSE, gen |-> 0, seen |-> None])
    BY <1>1 DEF Dequeue
  <2> DEFINE rec == [pc |-> "got", path |-> j.path, epoch |-> j.epoch, depth |-> j.depth,
                     claimed |-> FALSE, force |-> FALSE, gen |-> 0, seen |-> None]
  <2>2. DOMAIN rec = JobFields /\ rec.pc \notin {"list", "commit"}
    BY DEF JobFields
  <2> HIDE DEF rec
  <2>3. QED BY <2>1, <2>2, OneWorkerStops DEF rec
<1>2. CASE Claim(w)
  <2> DEFINE p == Doing(w)
             t == Epoch(w)
             skip(pc) == [worker[w] EXCEPT !.pc = pc]
             take == [worker[w] EXCEPT !.pc = "list", !.epoch = t,
                        !.claimed = TRUE, !.gen = generation[p]]
  <2>1. worker[w].pc = "got" /\ DOMAIN worker[w] = JobFields
    BY <1>2, <1>fields DEF Claim, At
  <2>2. \/ \E pc \in {"flush", "stale", "done"} : Moves(w, skip(pc))
        \/ Moves(w, take) /\ ~Active(p)
    BY <1>2 DEF Claim
  <2>3. CASE \E pc \in {"flush", "stale", "done"} : Moves(w, skip(pc))
    <3>1. PICK pc \in {"flush", "stale", "done"} : Moves(w, skip(pc))
      BY <2>3
    <3>2. DOMAIN skip(pc) = JobFields /\ skip(pc).pc = pc
      BY <2>1 DEF JobFields
    <3> HIDE DEF skip
    <3>3. QED BY <3>1, <3>2, OneWorkerStops
  <2>4. CASE Moves(w, take) /\ ~Active(p)
    <3>1. DOMAIN take = JobFields /\ take.claimed /\ take.path = p
      BY <2>1 DEF JobFields, Doing
    <3> HIDE DEF take
    <3>2. QED BY <2>4, <3>1, OneWorkerBegins
  <2>5. QED BY <2>2, <2>3, <2>4
<1>3. CASE SkipStale(w)
  BY <1>3, <1>shape, FinishingShape, OneWorkerStops DEF SkipStale, At
<1>4. CASE SkipDone(w)
  BY <1>4, <1>shape, FinishingShape, OneWorkerStops DEF SkipDone, At
<1>5. CASE List(w)
  <2> DEFINE rec == [worker[w] EXCEPT !.pc = "commit", !.seen = [c \in Kids(Doing(w)) |-> disk[c]]]
  <2>1. worker[w].pc = "list" /\ DOMAIN worker[w] = JobFields
    BY <1>5, <1>fields DEF List, At
  <2>2. worker[w].claimed BY <2>1 DEF ClaimInv, ListingIsClaimed, Listing
  <2>3. DOMAIN rec = JobFields /\ rec.claimed /\ rec.path = Doing(w)
    BY <2>1, <2>2 DEF JobFields, Doing
  <2>4. Moves(w, rec) BY <1>5 DEF List
  <2> HIDE DEF rec
  <2>5. QED BY <2>1, <2>3, <2>4, OneWorkerGoesOn DEF Listing
<1>6. CASE ListFails(w)
  BY <1>6, <1>shape, FinishingShape, OneWorkerStops DEF ListFails, At
<1>7. CASE ListSuperseded(w)
  BY <1>7, <1>shape, FinishingShape, OneWorkerStops DEF ListSuperseded, At
<1>8. CASE JobFails(w)
  <2>1. worker[w].pc = "list" /\ \E force \in BOOLEAN : Moves(w, Finishing(w, force))
    BY <1>8 DEF JobFails, At
  <2>2. QED BY <2>1, <1>shape, FinishingShape, OneWorkerStops
<1>9. CASE Commit(w)
  <2>1. worker[w].pc = "commit"
        /\ \E force \in BOOLEAN : Moves(w, [Finishing(w, force) EXCEPT !.seen = None])
    BY <1>9 DEF Commit, At
  <2>2. QED BY <2>1, <1>shape, FinishingShape, OneWorkerStops
<1>10. CASE Finish(w)
  <2> DEFINE rec == [worker[w] EXCEPT !.pc = "flush", !.claimed = FALSE]
  <2>1. DOMAIN worker[w] = JobFields /\ Moves(w, rec)
    BY <1>10, <1>fields DEF Finish, At
  <2>2. DOMAIN rec = JobFields /\ rec.pc = "flush" BY <2>1 DEF JobFields
  <2> HIDE DEF rec
  <2>3. QED BY <2>1, <2>2, OneWorkerStops
<1>11. CASE FlushEnds(w)
  <2>1. Moves(w, Idle) /\ Idle.pc \notin {"list", "commit"}
    BY <1>11 DEF FlushEnds, Idle
  <2>2. QED BY <2>1, OneWorkerStops
<1>12. QED
  BY <1>1, <1>2, <1>3, <1>4, <1>5, <1>6, <1>7, <1>8, <1>9, <1>10, <1>11 DEF WorkerStep

(* A request, a poll and the other threads do not touch the workers. *)
LEMMA OthersLeaveWorkers ==
  ASSUME Next, ~\E w \in Workers : WorkerStep(w)
  PROVE  UNCHANGED worker
<1>1. ASSUME NEW k \in Pages, Browser(k) PROVE UNCHANGED worker
  BY <1>1 DEF Browser, LoadCurrent, ShowPage, PollRow, PollCurrent, Ask, RequestFor,
              Request, cacheVars
<1>2. ASSUME NEW k \in Pages, NEW p \in Paths, EnsureKnown(k, p) PROVE UNCHANGED worker
  BY <1>2 DEF EnsureKnown, RequestFor, Request
<1>3. ASSUME NEW k \in Pages, NEW force \in BOOLEAN, OpenPage(k, force)
      PROVE  UNCHANGED worker
  BY <1>3 DEF OpenPage
<1>4. ASSUME NEW p \in Paths,
             CoolDown(p) \/ Prime(p) \/ Invalidate(p) \/ FlushRecord(p)
      PROVE  UNCHANGED worker
  BY <1>4 DEF CoolDown, Prime, Invalidate, FlushRecord
<1>5. HttpFlushEnds => UNCHANGED worker BY DEF HttpFlushEnds
<1>6. QED BY <1>1, <1>2, <1>3, <1>4, <1>5 DEF Next

(* The claims hold in every reachable state. *)
THEOREM ClaimsHold == Spec => []ClaimInv
<1>1. ClaimInv /\ [Next]_vars => ClaimInv'
  <2> SUFFICES ASSUME ClaimInv, [Next]_vars PROVE ClaimInv'
    OBVIOUS
  <2>1. CASE \E w \in Workers : WorkerStep(w) BY <2>1, WorkerKeepsClaims
  <2>2. CASE Next /\ ~\E w \in Workers : WorkerStep(w)
    BY <2>2, OthersLeaveWorkers, WorkersUnchanged
  <2>3. CASE UNCHANGED vars BY <2>3, WorkersUnchanged DEF vars
  <2>4. QED BY <2>1, <2>2, <2>3
<1>2. QED BY InitClaim, <1>1, PTL DEF Spec

(* Two workers never list the same folder (the active-job table of _worker). *)
THEOREM FolderListedOnce == Spec => []SingleFlight
<1>1. ClaimInv => SingleFlight BY DEF ClaimInv
<1>2. QED BY ClaimsHold, <1>1, PTL

-----------------------------------------------------------------------------
(* Walks: what Along computes, without induction over its steps *)

(* Every non-empty set of natural numbers has a least one. *)
LEMMA LeastNumber ==
  ASSUME NEW T \in SUBSET Nat, T # {}
  PROVE  \E n \in T : \A m \in T : n <= m
<1> DEFINE U == {0..n : n \in T}
<1>1. U \subseteq FiniteSubsetsOf(Nat)
  <2> SUFFICES ASSUME NEW n \in T PROVE IsFiniteSet(0..n) /\ 0..n \subseteq Nat
    BY DEF FiniteSubsetsOf
  <2>1. QED BY FS_Interval
<1>2. U # {}
  OBVIOUS
<1> DEFINE R == StrictSubsetOrdering(Nat)
<1>3. IsWellFoundedOn(R, FiniteSubsetsOf(Nat))
  BY FS_StrictSubsetOrderingWellFounded
<1> HIDE DEF R
<1>4. PICK u \in U : \A v \in U : <<v, u>> \notin R
  BY <1>1, <1>2, <1>3, WFMin
<1>5. PICK n \in T : u = 0..n
  OBVIOUS
<1>6. ASSUME NEW m \in T, m < n PROVE FALSE
  <2>1. 0..m \subseteq 0..n /\ n \notin 0..m /\ n \in 0..n BY <1>6
  <2>2. <<0..m, 0..n>> \in R BY <2>1 DEF R, StrictSubsetOrdering
  <2>3. QED BY <1>4, <1>5, <2>2
<1>7. QED BY <1>6

(* A walk: a value of A[0], and steps from A[i - 1] into A[i]. *)
LEMMA WalkEnds ==
  ASSUME NEW n \in Nat, NEW A, NEW f, f[0] \in A[0],
         \A i \in 1..n : f[i - 1] \in A[i - 1] => f[i] \in A[i]
  PROVE  \A i \in 0..n : f[i] \in A[i]
<1> DEFINE T == {i \in 0..n : f[i] \notin A[i]}
<1> SUFFICES ASSUME T # {} PROVE FALSE
  OBVIOUS
<1>1. PICK i \in T : \A j \in T : i <= j
  <2>1. T \in SUBSET Nat
    OBVIOUS
  <2> HIDE DEF T
  <2>2. QED BY <2>1, LeastNumber
<1>2. i # 0 /\ i \in 1..n /\ i - 1 \in 0..n
  OBVIOUS
<1>3. f[i - 1] \in A[i - 1] BY <1>1, <1>2
<1>4. QED BY <1>2, <1>3

(* Any n steps can be walked, from any start. *)
LEMMA WalkExists ==
  ASSUME NEW n \in Nat, NEW U, NEW x \in U,
         NEW F \in Steps(n, U)
  PROVE  \E f : Walk(n, U, x, F, f)
<1> DEFINE T == {m \in 0..n : ~ \E f : Walk(m, U, x, F, f)}
<1> SUFFICES ASSUME T # {} PROVE FALSE
  OBVIOUS
<1>1. PICK m \in T : \A j \in T : m <= j
  <2>1. T \in SUBSET Nat
    OBVIOUS
  <2> HIDE DEF T
  <2>2. QED BY <2>1, LeastNumber
<1>2. CASE m = 0
  <2> DEFINE f == [i \in 0..0 |-> x]
  <2>1. Walk(m, U, x, F, f) BY <1>2 DEF Walk
  <2>2. QED BY <2>1
<1>3. CASE m # 0
  <2>1. m \in 1..n /\ m - 1 \in 0..n /\ m - 1 \notin T
    <3>1. m \in 0..n
      OBVIOUS
    <3> HIDE DEF T
    <3>2. m - 1 \in 0..n /\ m \in 1..n /\ ~(m <= m - 1) BY <3>1, <1>3
    <3>3. QED BY <1>1, <3>2
  <2>2. PICK g : Walk(m - 1, U, x, F, g) BY <2>1
  <2> DEFINE z == F[m][g[m - 1]]
             f == [i \in 0..m |-> IF i = m THEN z ELSE g[i]]
  <2>3. z \in U
    <3>2. g \in [0..(m - 1) -> U] BY <2>2 DEF Walk
    <3>3. QED BY <2>1, <3>2 DEF Steps
  <2>4. /\ f \in [0..m -> U] /\ f[0] = x /\ f[m] = z
        /\ \A i \in 0..(m - 1) : f[i] = g[i]
    <3> HIDE DEF z
    <3>1. QED BY <2>1, <2>2, <2>3 DEF Walk
  <2>5. f[m] = F[m][f[m - 1]]
    <3>1. m - 1 \in 0..(m - 1) BY <2>1
    <3> HIDE DEF f
    <3>2. QED BY <2>4, <3>1
  <2>6. \A i \in 1..(m - 1) : f[i] = F[i][f[i - 1]]
    <3> HIDE DEF f, z
    <3>1. \A i \in 1..(m - 1) : i \in 0..(m - 1) /\ i - 1 \in 0..(m - 1)
      BY <2>1
    <3>2. QED BY <2>2, <2>4, <3>1 DEF Walk
  <2>7. \A i \in 1..m : i = m \/ i \in 1..(m - 1) BY <2>1
  <2>8. Walk(m, U, x, F, f) BY <2>4, <2>5, <2>6, <2>7 DEF Walk
  <2>9. QED BY <2>8
<1>4. QED BY <1>2, <1>3

(* Steps that lead from each A[i - 1] into A[i] can be travelled from any *)
(* x in A[0]. *)
LEMMA TravelExists ==
  ASSUME NEW n \in Nat, NEW A, NEW x \in A[0], NEW G,
         \A i \in 1..n : \A v \in A[i - 1] : G[i][v] \in A[i]
  PROVE  \E f : Travels(n, x, A, G, f)
<1> DEFINE U == UNION {A[i] : i \in 0..n}
           F == [i \in 1..n |-> [v \in U |-> IF v \in A[i - 1] THEN G[i][v] ELSE x]]
<1>1. /\ \A i \in 0..n : A[i] \subseteq U
      /\ \A i \in 1..n : i \in 0..n /\ i - 1 \in 0..n
      /\ 0 \in 0..n
  OBVIOUS
<1> HIDE DEF U
<1>2. F \in Steps(n, U) BY <1>1 DEF Steps
<1>3. x \in U BY <1>1
<1>4. \A i \in 1..n : \A v \in A[i - 1] : F[i][v] = G[i][v] BY <1>1
<1> HIDE DEF F
<1>5. PICK f : Walk(n, U, x, F, f) BY <1>2, <1>3, WalkExists
<1>6. \A i \in 1..n : f[i - 1] \in A[i - 1] => f[i] \in A[i] /\ f[i] = G[i][f[i - 1]]
  BY <1>4, <1>5 DEF Walk
<1>7. f[0] \in A[0] BY <1>5 DEF Walk
<1>8. \A i \in 0..n : f[i] \in A[i] BY <1>6, <1>7, WalkEnds
<1>9. Travels(n, x, A, G, f) BY <1>1, <1>5, <1>6, <1>8 DEF Walk, Travels
<1>10. QED BY <1>9

(* Choosing from a set with one value yields that value. *)
LEMMA OnlyChoice == \A y : (CHOOSE z \in {y} : TRUE) = y
  OBVIOUS

(* propagate ends in A[Len(seq)] when each of its steps leads to the next A. *)
LEMMA AlongPropagate ==
  ASSUME NEW x, NEW seq, Len(seq) \in Nat, NEW A, x \in A[0],
         \A i \in 1..Len(seq) : \A v \in A[i - 1] : PropagateStep(v, seq[i]) \in A[i]
  PROVE  Along(PropagateStep, x, seq) \in A[Len(seq)]
<1> DEFINE n == Len(seq)
           op(v, i) == PropagateStep(v, seq[i])
           Eq(f) == f = [i \in 0..n |->
                           IF i = 0 THEN x
                           ELSE CHOOSE y \in {op(v, i) : v \in {f[i - 1]}} : TRUE]
           up == CHOOSE f : Eq(f)
           G == [i \in 1..n |-> [v \in A[i - 1] |-> op(v, i)]]
<1>1. Along(PropagateStep, x, seq) = up[n] BY DEF Along
<1>2. \A i \in 1..n : \A v \in A[i - 1] : op(v, i) \in A[i]
  OBVIOUS
<1>3. \A f : \A i \in 1..n : {op(v, i) : v \in {f[i - 1]}} = {op(f[i - 1], i)}
  OBVIOUS
<1>4. \A i \in 1..n : i \in 0..n /\ i - 1 \in 0..n /\ i # 0
  OBVIOUS
<1>5. n \in 0..n /\ 0 \in 0..n /\ n \in Nat /\ x \in A[0]
  OBVIOUS
<1> HIDE DEF op, n
<1>6. \A i \in 1..n : \A v \in A[i - 1] : G[i][v] = op(v, i)
  OBVIOUS
<1> HIDE DEF G
<1>7. PICK f : Travels(n, x, A, G, f) BY <1>2, <1>5, <1>6, TravelExists
<1>8. Eq(f)
  <2>1. \A i \in 1..n : f[i] = op(f[i - 1], i)
    BY <1>4, <1>6, <1>7 DEF Travels
  <2>2. \A i \in 1..n : (CHOOSE y \in {op(v, i) : v \in {f[i - 1]}} : TRUE) = f[i]
    BY <1>3, <2>1, OnlyChoice
  <2>3. \A i \in 0..n : i = 0 \/ i \in 1..n BY <1>5
  <2>4. QED BY <1>7, <2>2, <2>3 DEF Travels
<1>9. Eq(up)
  <2> HIDE DEF Eq
  <2>1. QED BY <1>8
<1> HIDE DEF up
<1>10. \A i \in 1..n : up[i] = op(up[i - 1], i)
  BY <1>3, <1>4, <1>9, OnlyChoice
<1>11. up[0] = x BY <1>5, <1>9
<1>12. \A i \in 0..n : up[i] \in A[i] BY <1>2, <1>5, <1>10, <1>11, WalkEnds
<1>13. QED BY <1>1, <1>5, <1>12 DEF n

(* The same of on_subtree_complete. *)
LEMMA AlongComplete ==
  ASSUME NEW x, NEW seq, Len(seq) \in Nat, NEW A, x \in A[0],
         \A i \in 1..Len(seq) : \A v \in A[i - 1] : CompleteStep(v, seq[i]) \in A[i]
  PROVE  Along(CompleteStep, x, seq) \in A[Len(seq)]
<1> DEFINE n == Len(seq)
           op(v, i) == CompleteStep(v, seq[i])
           Eq(f) == f = [i \in 0..n |->
                           IF i = 0 THEN x
                           ELSE CHOOSE y \in {op(v, i) : v \in {f[i - 1]}} : TRUE]
           up == CHOOSE f : Eq(f)
           G == [i \in 1..n |-> [v \in A[i - 1] |-> op(v, i)]]
<1>1. Along(CompleteStep, x, seq) = up[n] BY DEF Along
<1>2. \A i \in 1..n : \A v \in A[i - 1] : op(v, i) \in A[i]
  OBVIOUS
<1>3. \A f : \A i \in 1..n : {op(v, i) : v \in {f[i - 1]}} = {op(f[i - 1], i)}
  OBVIOUS
<1>4. \A i \in 1..n : i \in 0..n /\ i - 1 \in 0..n /\ i # 0
  OBVIOUS
<1>5. n \in 0..n /\ 0 \in 0..n /\ n \in Nat /\ x \in A[0]
  OBVIOUS
<1> HIDE DEF op, n
<1>6. \A i \in 1..n : \A v \in A[i - 1] : G[i][v] = op(v, i)
  OBVIOUS
<1> HIDE DEF G
<1>7. PICK f : Travels(n, x, A, G, f) BY <1>2, <1>5, <1>6, TravelExists
<1>8. Eq(f)
  <2>1. \A i \in 1..n : f[i] = op(f[i - 1], i)
    BY <1>4, <1>6, <1>7 DEF Travels
  <2>2. \A i \in 1..n : (CHOOSE y \in {op(v, i) : v \in {f[i - 1]}} : TRUE) = f[i]
    BY <1>3, <2>1, OnlyChoice
  <2>3. \A i \in 0..n : i = 0 \/ i \in 1..n BY <1>5
  <2>4. QED BY <1>7, <2>2, <2>3 DEF Travels
<1>9. Eq(up)
  <2> HIDE DEF Eq
  <2>1. QED BY <1>8
<1> HIDE DEF up
<1>10. \A i \in 1..n : up[i] = op(up[i - 1], i)
  BY <1>3, <1>4, <1>9, OnlyChoice
<1>11. up[0] = x BY <1>5, <1>9
<1>12. \A i \in 0..n : up[i] \in A[i] BY <1>2, <1>5, <1>10, <1>11, WalkEnds
<1>13. QED BY <1>1, <1>5, <1>12 DEF n

(* The same of _mark_abandoned. *)
LEMMA AlongAbandon ==
  ASSUME NEW x, NEW seq, Len(seq) \in Nat, NEW A, x \in A[0],
         \A i \in 1..Len(seq) : \A v \in A[i - 1] : AbandonStep(v, seq[i]) \in A[i]
  PROVE  Along(AbandonStep, x, seq) \in A[Len(seq)]
<1> DEFINE n == Len(seq)
           op(v, i) == AbandonStep(v, seq[i])
           Eq(f) == f = [i \in 0..n |->
                           IF i = 0 THEN x
                           ELSE CHOOSE y \in {op(v, i) : v \in {f[i - 1]}} : TRUE]
           up == CHOOSE f : Eq(f)
           G == [i \in 1..n |-> [v \in A[i - 1] |-> op(v, i)]]
<1>1. Along(AbandonStep, x, seq) = up[n] BY DEF Along
<1>2. \A i \in 1..n : \A v \in A[i - 1] : op(v, i) \in A[i]
  OBVIOUS
<1>3. \A f : \A i \in 1..n : {op(v, i) : v \in {f[i - 1]}} = {op(f[i - 1], i)}
  OBVIOUS
<1>4. \A i \in 1..n : i \in 0..n /\ i - 1 \in 0..n /\ i # 0
  OBVIOUS
<1>5. n \in 0..n /\ 0 \in 0..n /\ n \in Nat /\ x \in A[0]
  OBVIOUS
<1> HIDE DEF op, n
<1>6. \A i \in 1..n : \A v \in A[i - 1] : G[i][v] = op(v, i)
  OBVIOUS
<1> HIDE DEF G
<1>7. PICK f : Travels(n, x, A, G, f) BY <1>2, <1>5, <1>6, TravelExists
<1>8. Eq(f)
  <2>1. \A i \in 1..n : f[i] = op(f[i - 1], i)
    BY <1>4, <1>6, <1>7 DEF Travels
  <2>2. \A i \in 1..n : (CHOOSE y \in {op(v, i) : v \in {f[i - 1]}} : TRUE) = f[i]
    BY <1>3, <2>1, OnlyChoice
  <2>3. \A i \in 0..n : i = 0 \/ i \in 1..n BY <1>5
  <2>4. QED BY <1>7, <2>2, <2>3 DEF Travels
<1>9. Eq(up)
  <2> HIDE DEF Eq
  <2>1. QED BY <1>8
<1> HIDE DEF up
<1>10. \A i \in 1..n : up[i] = op(up[i - 1], i)
  BY <1>3, <1>4, <1>9, OnlyChoice
<1>11. up[0] = x BY <1>5, <1>9
<1>12. \A i \in 0..n : up[i] \in A[i] BY <1>2, <1>5, <1>10, <1>11, WalkEnds
<1>13. QED BY <1>1, <1>5, <1>12 DEF n

(* The same of the selection of rows. *)
LEMMA AlongKeep ==
  ASSUME NEW seq, NEW S, Len(seq) \in Nat, NEW A, <<>> \in A[0],
         \A i \in 1..Len(seq) : \A v \in A[i - 1] : KeepStep(S, v, seq[i]) \in A[i]
  PROVE  Keep(seq, S) \in A[Len(seq)]
<1> DEFINE n == Len(seq)
           x == <<>>
           op(v, i) == KeepStep(S, v, seq[i])
           Eq(f) == f = [i \in 0..n |->
                           IF i = 0 THEN x
                           ELSE CHOOSE y \in {op(v, i) : v \in {f[i - 1]}} : TRUE]
           up == CHOOSE f : Eq(f)
           G == [i \in 1..n |-> [v \in A[i - 1] |-> op(v, i)]]
<1>1. Keep(seq, S) = up[n] BY DEF Keep, Along, KeepStep
<1>2. \A i \in 1..n : \A v \in A[i - 1] : op(v, i) \in A[i]
  OBVIOUS
<1>3. \A f : \A i \in 1..n : {op(v, i) : v \in {f[i - 1]}} = {op(f[i - 1], i)}
  OBVIOUS
<1>4. \A i \in 1..n : i \in 0..n /\ i - 1 \in 0..n /\ i # 0
  OBVIOUS
<1>5. n \in 0..n /\ 0 \in 0..n /\ n \in Nat /\ x \in A[0]
  OBVIOUS
<1> HIDE DEF op, n, x
<1>6. \A i \in 1..n : \A v \in A[i - 1] : G[i][v] = op(v, i)
  OBVIOUS
<1> HIDE DEF G
<1>7. PICK f : Travels(n, x, A, G, f) BY <1>2, <1>5, <1>6, TravelExists
<1>8. Eq(f)
  <2>1. \A i \in 1..n : f[i] = op(f[i - 1], i)
    BY <1>4, <1>6, <1>7 DEF Travels
  <2>2. \A i \in 1..n : (CHOOSE y \in {op(v, i) : v \in {f[i - 1]}} : TRUE) = f[i]
    BY <1>3, <2>1, OnlyChoice
  <2>3. \A i \in 0..n : i = 0 \/ i \in 1..n BY <1>5
  <2>4. QED BY <1>7, <2>2, <2>3 DEF Travels
<1>9. Eq(up)
  <2> HIDE DEF Eq
  <2>1. QED BY <1>8
<1> HIDE DEF up
<1>10. \A i \in 1..n : up[i] = op(up[i - 1], i)
  BY <1>3, <1>4, <1>9, OnlyChoice
<1>11. up[0] = x BY <1>5, <1>9
<1>12. \A i \in 0..n : up[i] \in A[i] BY <1>2, <1>5, <1>10, <1>11, WalkEnds
<1>13. QED BY <1>1, <1>5, <1>12 DEF n

(* The same of the repair of a folder's children. *)
LEMMA AlongAttach ==
  ASSUME NEW s, NEW p, NEW seq, seq = Subfolders[p], Len(seq) \in Nat, NEW A, s \in A[0],
         \A i \in 1..Len(seq) : \A v \in A[i - 1] :
           (IF seq[i] \in Pending(s, p) /\ IsWhole(v, seq[i])
              THEN Attach(v, p, seq[i]) ELSE v) \in A[i]
  PROVE  AttachWhole(s, p) \in A[Len(seq)]
<1> DEFINE n == Len(seq)
           x == s
           op(v, i) == IF seq[i] \in Pending(s, p) /\ IsWhole(v, seq[i])
                        THEN Attach(v, p, seq[i]) ELSE v
           Eq(f) == f = [i \in 0..n |->
                           IF i = 0 THEN x
                           ELSE CHOOSE y \in {op(v, i) : v \in {f[i - 1]}} : TRUE]
           up == CHOOSE f : Eq(f)
           G == [i \in 1..n |-> [v \in A[i - 1] |-> op(v, i)]]
<1>1. AttachWhole(s, p) = up[n] BY DEF AttachWhole, Along
<1>2. \A i \in 1..n : \A v \in A[i - 1] : op(v, i) \in A[i]
  OBVIOUS
<1>3. \A f : \A i \in 1..n : {op(v, i) : v \in {f[i - 1]}} = {op(f[i - 1], i)}
  OBVIOUS
<1>4. \A i \in 1..n : i \in 0..n /\ i - 1 \in 0..n /\ i # 0
  OBVIOUS
<1>5. n \in 0..n /\ 0 \in 0..n /\ n \in Nat /\ x \in A[0]
  OBVIOUS
<1> HIDE DEF op, n, x
<1>6. \A i \in 1..n : \A v \in A[i - 1] : G[i][v] = op(v, i)
  OBVIOUS
<1> HIDE DEF G
<1>7. PICK f : Travels(n, x, A, G, f) BY <1>2, <1>5, <1>6, TravelExists
<1>8. Eq(f)
  <2>1. \A i \in 1..n : f[i] = op(f[i - 1], i)
    BY <1>4, <1>6, <1>7 DEF Travels
  <2>2. \A i \in 1..n : (CHOOSE y \in {op(v, i) : v \in {f[i - 1]}} : TRUE) = f[i]
    BY <1>3, <2>1, OnlyChoice
  <2>3. \A i \in 0..n : i = 0 \/ i \in 1..n BY <1>5
  <2>4. QED BY <1>7, <2>2, <2>3 DEF Travels
<1>9. Eq(up)
  <2> HIDE DEF Eq
  <2>1. QED BY <1>8
<1> HIDE DEF up
<1>10. \A i \in 1..n : up[i] = op(up[i - 1], i)
  BY <1>3, <1>4, <1>9, OnlyChoice
<1>11. up[0] = x BY <1>5, <1>9
<1>12. \A i \in 0..n : up[i] \in A[i] BY <1>2, <1>5, <1>10, <1>11, WalkEnds
<1>13. QED BY <1>1, <1>5, <1>12 DEF n

(* The same of the subfolders of a listing. *)
LEMMA AlongListed ==
  ASSUME NEW w, NEW seq, seq = Subfolders[Doing(w)], Len(seq) \in Nat, NEW d,
         d = IF worker[w].depth < DepthCap THEN worker[w].depth + 1 ELSE DepthCap,
         NEW A, [s |-> Begun(w), owned |-> inProgress, q |-> queue] \in A[0],
         \A i \in 1..Len(seq) : \A v \in A[i - 1] :
           AddSubfolder(v, Doing(w), seq[i], Epoch(w), worker[w].seen, d) \in A[i]
  PROVE  Listed(w) \in A[Len(seq)]
<1> DEFINE n == Len(seq)
           x == [s |-> Begun(w), owned |-> inProgress, q |-> queue]
           op(v, i) == AddSubfolder(v, Doing(w), seq[i], Epoch(w), worker[w].seen, d)
           Eq(f) == f = [i \in 0..n |->
                           IF i = 0 THEN x
                           ELSE CHOOSE y \in {op(v, i) : v \in {f[i - 1]}} : TRUE]
           up == CHOOSE f : Eq(f)
           G == [i \in 1..n |-> [v \in A[i - 1] |-> op(v, i)]]
<1>1. Listed(w) = up[n] BY DEF Listed, Along
<1>2. \A i \in 1..n : \A v \in A[i - 1] : op(v, i) \in A[i]
  OBVIOUS
<1>3. \A f : \A i \in 1..n : {op(v, i) : v \in {f[i - 1]}} = {op(f[i - 1], i)}
  OBVIOUS
<1>4. \A i \in 1..n : i \in 0..n /\ i - 1 \in 0..n /\ i # 0
  OBVIOUS
<1>5. n \in 0..n /\ 0 \in 0..n /\ n \in Nat /\ x \in A[0]
  OBVIOUS
<1> HIDE DEF op, n, x
<1>6. \A i \in 1..n : \A v \in A[i - 1] : G[i][v] = op(v, i)
  OBVIOUS
<1> HIDE DEF G
<1>7. PICK f : Travels(n, x, A, G, f) BY <1>2, <1>5, <1>6, TravelExists
<1>8. Eq(f)
  <2>1. \A i \in 1..n : f[i] = op(f[i - 1], i)
    BY <1>4, <1>6, <1>7 DEF Travels
  <2>2. \A i \in 1..n : (CHOOSE y \in {op(v, i) : v \in {f[i - 1]}} : TRUE) = f[i]
    BY <1>3, <2>1, OnlyChoice
  <2>3. \A i \in 0..n : i = 0 \/ i \in 1..n BY <1>5
  <2>4. QED BY <1>7, <2>2, <2>3 DEF Travels
<1>9. Eq(up)
  <2> HIDE DEF Eq
  <2>1. QED BY <1>8
<1> HIDE DEF up
<1>10. \A i \in 1..n : up[i] = op(up[i - 1], i)
  BY <1>3, <1>4, <1>9, OnlyChoice
<1>11. up[0] = x BY <1>5, <1>9
<1>12. \A i \in 0..n : up[i] \in A[i] BY <1>2, <1>5, <1>10, <1>11, WalkEnds
<1>13. QED BY <1>1, <1>5, <1>12 DEF n

-----------------------------------------------------------------------------
(* Lineages: the recursive definition yields the chain from a folder to *)
(* its root *)

(* A folder is listed in one folder only. *)
LEMMA OneParent ==
  ASSUME NEW p, NEW q \in Paths, NEW r \in Paths, p \in Kids(q), p \in Kids(r)
  PROVE  q = r
  BY TreeShape

(* The chain of a parent, with the child in front, is a chain of the *)
(* child. *)
LEMMA ChainOnwards ==
  ASSUME NEW p \in Paths, NEW q \in Paths, p \in Kids(q), NEW L, Chain(L, q)
  PROVE  Chain(<<p>> \o L, p)
<1> DEFINE M == <<p>> \o L
<1>1. L \in Seq(Paths) /\ Len(L) \in Nat /\ Len(L) >= 1
  BY LenProperties DEF Chain
<1>2. M \in Seq(Paths) /\ Len(M) = Len(L) + 1 /\ M[1] = p BY <1>1
<1>3. \A i \in 1..Len(L) : M[i + 1] = L[i] BY <1>1
<1> HIDE DEF M
<1>4. ASSUME NEW i \in 1..(Len(M) - 1) PROVE M[i] \in Kids(M[i + 1])
  <2>1. i \in 1..Len(L) BY <1>1, <1>2
  <2>2. CASE i = 1 BY <1>1, <1>2, <1>3, <2>1, <2>2 DEF Chain
  <2>3. CASE i # 1
    <3>1. i - 1 \in 1..(Len(L) - 1) /\ i - 1 \in 1..Len(L) /\ (i - 1) + 1 = i
      BY <1>1, <2>1, <2>3
    <3>2. M[i] = L[i - 1] /\ M[i + 1] = L[i] BY <1>3, <2>1, <3>1
    <3>3. QED BY <3>1, <3>2 DEF Chain
  <2>4. QED BY <2>2, <2>3
<1>5. M[Len(M)] = L[Len(L)] BY <1>1, <1>2, <1>3
<1>6. Chain(M, p) BY <1>1, <1>2, <1>4, <1>5 DEF Chain
<1>7. QED BY <1>6 DEF M

(* A folder that is listed nowhere is its own chain. *)
LEMMA ChainOfTop ==
  ASSUME NEW p \in Paths, \A q \in Paths : p \notin Kids(q)
  PROVE  Chain(<<p>>, p)
<1>1. <<p>> \in Seq(Paths) /\ Len(<<p>>) = 1 /\ <<p>>[1] = p
  OBVIOUS
<1>2. QED BY <1>1 DEF Chain

(* Every folder has a chain: the tree has no cycle. *)
LEMMA ChainExists == \A p \in Paths : \E L : Chain(L, p)
<1> DEFINE S == {p \in Paths : ~ \E L : Chain(L, p)}
<1> SUFFICES ASSUME S # {} PROVE FALSE
  OBVIOUS
<1>1. PICK p \in S : \A q \in S : p \notin Kids(q)
  <2>1. S \in (SUBSET Paths) \ {{}}
    OBVIOUS
  <2> HIDE DEF S
  <2>2. QED BY <2>1, TreeShape
<1>2. p \in Paths /\ ~ \E L : Chain(L, p) BY <1>1
<1>3. CASE \E q \in Paths : p \in Kids(q)
  <2>1. PICK q \in Paths : p \in Kids(q) BY <1>3
  <2>2. PICK L : Chain(L, q) BY <1>1, <2>1
  <2>3. QED BY <1>2, <2>1, <2>2, ChainOnwards
<1>4. CASE \A q \in Paths : p \notin Kids(q) BY <1>2, <1>4, ChainOfTop
<1>5. QED BY <1>3, <1>4

(* A folder has one chain only. *)
LEMMA ChainUnique ==
  ASSUME NEW p, NEW L, NEW M, Chain(L, p), Chain(M, p)
  PROVE  L = M
<1>1. /\ L \in Seq(Paths) /\ Len(L) \in Nat /\ Len(L) >= 1
      /\ M \in Seq(Paths) /\ Len(M) \in Nat /\ Len(M) >= 1
  BY LenProperties DEF Chain
<1> DEFINE Same(i) == i <= Len(M) /\ L[i] = M[i]
           T == {i \in 1..Len(L) : ~Same(i)}
<1>2. \A i \in 1..Len(L) : i <= Len(M) /\ L[i] = M[i]
  <2> SUFFICES ASSUME T # {} PROVE FALSE
    OBVIOUS
  <2>1. PICK i \in T : \A j \in T : i <= j
    <3>1. T \in SUBSET Nat BY <1>1
    <3> HIDE DEF T
    <3>2. QED BY <3>1, LeastNumber
  <2>2. i \in 1..Len(L) /\ ~Same(i)
    OBVIOUS
  <2>3. i # 1 BY <1>1, <2>2 DEF Chain
  <2>4. i - 1 \in 1..(Len(L) - 1) /\ (i - 1) + 1 = i /\ i - 1 \in 1..Len(L) /\ ~(i <= i - 1)
    BY <1>1, <2>2, <2>3
  <2>5. Same(i - 1) BY <2>1, <2>4
  <2>6. L[i - 1] \in Kids(L[i]) /\ L[i] \in Paths
    BY <1>1, <2>2, <2>4 DEF Chain
  <2>7. i - 1 < Len(M) BY <1>1, <2>4, <2>5, <2>6 DEF Chain
  <2>8. i - 1 \in 1..(Len(M) - 1) /\ i \in 1..Len(M)
    BY <1>1, <2>2, <2>4, <2>7
  <2>9. L[i - 1] \in Kids(M[i]) /\ M[i] \in Paths
    BY <1>1, <2>4, <2>5, <2>8 DEF Chain
  <2>10. L[i] = M[i] BY <2>6, <2>9, OneParent
  <2>11. QED BY <2>2, <2>8, <2>10
<1>3. Len(L) <= Len(M) /\ L[Len(L)] = M[Len(L)] BY <1>1, <1>2
<1>4. Len(L) = Len(M)
  <2> SUFFICES ASSUME Len(L) < Len(M) PROVE FALSE
    BY <1>1, <1>3
  <2>1. Len(L) \in 1..(Len(M) - 1) /\ Len(L) + 1 \in 1..Len(M) BY <1>1
  <2>2. M[Len(L)] \in Kids(M[Len(L) + 1]) /\ M[Len(L) + 1] \in Paths
    BY <1>1, <2>1 DEF Chain
  <2>3. QED BY <1>3, <2>2 DEF Chain
<1>5. QED BY <1>1, <1>2, <1>4, SeqEqual

(* Lineage is defined for every folder, and leads to the root. *)
LEMMA LineageIsChain == \A p \in Paths : Chain(Lineage[p], p)
<1> DEFINE Highest(p) == ~ \E q \in Paths : p \in Kids(q)
           Up(p) == CHOOSE q \in Paths : p \in Kids(q)
           Eq(f) == f = [p \in Paths |-> IF \E q \in Paths : p \in Kids(q)
                                           THEN <<p>> \o f[CHOOSE q \in Paths : p \in Kids(q)]
                                           ELSE <<p>>]
           g == [p \in Paths |-> CHOOSE L : Chain(L, p)]
<1>1. \A p \in Paths : Chain(g[p], p) BY ChainExists
<1> HIDE DEF g
<1>2. \A p \in Paths : ~Highest(p) => Up(p) \in Paths /\ p \in Kids(Up(p))
  OBVIOUS
<1>3. \A p \in Paths : ~Highest(p) => g[p] = <<p>> \o g[Up(p)]
  <2> SUFFICES ASSUME NEW p \in Paths, ~Highest(p) PROVE g[p] = <<p>> \o g[Up(p)]
    OBVIOUS
  <2>1. Up(p) \in Paths /\ p \in Kids(Up(p)) BY <1>2
  <2> HIDE DEF Up
  <2>2. Chain(<<p>> \o g[Up(p)], p) BY <1>1, <2>1, ChainOnwards
  <2>3. QED BY <1>1, <2>2, ChainUnique
<1>4. \A p \in Paths : Highest(p) => g[p] = <<p>>
  BY <1>1, ChainOfTop, ChainUnique
<1>5. Eq(g)
  <2>1. g = [p \in Paths |-> g[p]] BY DEF g
  <2>2. \A p \in Paths : g[p] = IF \E q \in Paths : p \in Kids(q)
                                 THEN <<p>> \o g[CHOOSE q \in Paths : p \in Kids(q)]
                                 ELSE <<p>>
    BY <1>3, <1>4
  <2>3. QED BY <2>1, <2>2
<1>6. Lineage = CHOOSE f : Eq(f) BY DEF Lineage
<1>7. Eq(Lineage)
  <2> HIDE DEF Eq
  <2>1. QED BY <1>5, <1>6
<1> DEFINE S == {p \in Paths : ~Chain(Lineage[p], p)}
<1> SUFFICES ASSUME S # {} PROVE FALSE
  OBVIOUS
<1>8. PICK p \in S : \A q \in S : p \notin Kids(q)
  <2>1. S \in (SUBSET Paths) \ {{}}
    OBVIOUS
  <2> HIDE DEF S
  <2>2. QED BY <2>1, TreeShape
<1>9. p \in Paths /\ ~Chain(Lineage[p], p) BY <1>8
<1>10. CASE Highest(p)
  <2>1. Lineage[p] = <<p>> BY <1>7, <1>9, <1>10
  <2>2. QED BY <1>9, <1>10, <2>1, ChainOfTop
<1>11. CASE ~Highest(p)
  <2>1. Lineage[p] = <<p>> \o Lineage[Up(p)] BY <1>7, <1>9, <1>11
  <2>2. Up(p) \in Paths /\ p \in Kids(Up(p)) BY <1>2, <1>9, <1>11
  <2> HIDE DEF Up
  <2>3. Chain(Lineage[Up(p)], Up(p)) BY <1>8, <2>2
  <2>4. QED BY <1>9, <2>1, <2>2, <2>3, ChainOnwards
<1>12. QED BY <1>10, <1>11

-----------------------------------------------------------------------------
(* The accumulated state, and what its helpers keep *)

(* Two helpers in a row. *)
LEMMA GrowsFurther ==
  ASSUME NEW s, NEW x, NEW y, Grows(s, x), Grows(x, y)
  PROVE  Grows(s, y)
  BY DEF Grows, Keeps

(* No helper at all. *)
LEMMA GrowsSame == ASSUME NEW s, Linked(s) PROVE Grows(s, s)
  BY DEF Grows, Keeps

(* No entry is none of the entries. *)
LEMMA NoneApart ==
  None \notin Acc /\ None \notin Record /\ None \notin Paths /\ None \notin BOOLEAN
  BY NoneIsNothing

(* _mark_cache_dirty_locked of a folder in memory. *)
LEMMA MarkDirtyGrows ==
  ASSUME NEW s, Linked(s), NEW p \in Paths, s.acc[p] # None, NEW complete \in BOOLEAN
  PROVE  /\ Grows(s, MarkDirty(s, p, complete))
         /\ MarkDirty(s, p, complete).acc = s.acc
         /\ MarkDirty(s, p, complete).pending = s.pending
<1> DEFINE x == MarkDirty(s, p, complete)
           b == complete \/ (s.dirty[p] # None /\ s.dirty[p])
<1>1. s \in StateSet BY DEF Linked
<1>2. b \in BOOLEAN
  OBVIOUS
<1>3. x = [s EXCEPT !.dirty = [s.dirty EXCEPT ![p] = b]]
  BY <1>1 DEF MarkDirty, StateSet
<1> HIDE DEF x, b
<1>4. /\ x \in StateSet /\ x.acc = s.acc /\ x.pending = s.pending /\ x.parent = s.parent
      /\ \A q \in Paths : x.dirty[q] # None => s.dirty[q] # None \/ q = p
  BY <1>1, <1>2, <1>3 DEF StateSet
<1>5. Linked(x) /\ Keeps(s, x) BY <1>4 DEF Linked, Keeps, Pending
<1>6. QED BY <1>4, <1>5 DEF Grows, x

(* A record is put in memory. *)
LEMMA SetAccGrows ==
  ASSUME NEW s, Linked(s), NEW p \in Paths, NEW a \in Acc,
         Top(p) => a.gen \in {generation[p], None}, NEW x, x = SetAcc(s, p, a)
  PROVE  /\ Grows(s, x) /\ x.acc[p] = a /\ x.acc[p] # None
         /\ \A q \in Paths \ {p} : x.acc[q] = s.acc[q]
         /\ x.pending = s.pending /\ x.parent = s.parent /\ x.direct = s.direct
<1>1. s \in StateSet BY DEF Linked
<1>2. x = [s EXCEPT !.acc = [s.acc EXCEPT ![p] = a]]
  BY <1>1 DEF StateSet, SetAcc
<1>3. /\ x \in StateSet /\ x.dirty = s.dirty /\ x.pending = s.pending /\ x.parent = s.parent
      /\ x.direct = s.direct /\ x.acc[p] = a /\ \A q \in Paths \ {p} : x.acc[q] = s.acc[q]
  BY <1>1, <1>2 DEF StateSet
<1>4. a # None BY NoneApart
<1>5. Linked(x) /\ Keeps(s, x) BY <1>3, <1>4 DEF Linked, Keeps, Pending
<1>6. QED BY <1>3, <1>4, <1>5 DEF Grows

(* A record in memory, and what a change of its diff status makes of it. *)
LEMMA AccShape ==
  ASSUME NEW s, s \in StateSet, NEW p \in Paths, s.acc[p] # None
  PROVE  /\ s.acc[p] \in Acc /\ s.acc[p].total \in Int /\ s.acc[p].diff \in Diffs
         /\ s.acc[p].gen \in Nat \cup {None}
         /\ \A d \in Diffs : SetDiff(s, p, d) = SetAcc(s, p, [s.acc[p] EXCEPT !.diff = d])
         /\ \A d \in Diffs : /\ [s.acc[p] EXCEPT !.diff = d] \in Acc
                           /\ [s.acc[p] EXCEPT !.diff = d].gen = s.acc[p].gen
<1>1. s.acc[p] \in Acc BY DEF StateSet
<1>2. s.acc[p].total \in Int /\ s.acc[p].diff \in Diffs /\ s.acc[p].gen \in Nat \cup {None}
  BY <1>1 DEF Acc, Diffs
<1>3. \A d \in Diffs : SetDiff(s, p, d) = SetAcc(s, p, [s.acc[p] EXCEPT !.diff = d])
  BY DEF SetAcc, SetDiff
<1>4. \A d \in Diffs : /\ [s.acc[p] EXCEPT !.diff = d] \in Acc
                     /\ [s.acc[p] EXCEPT !.diff = d].gen = s.acc[p].gen
  BY <1>1 DEF Acc, Diffs
<1>5. QED BY <1>1, <1>2, <1>3, <1>4

(* A diff status changes. *)
LEMMA SetDiffGrows ==
  ASSUME NEW s, Linked(s), NEW p \in Paths, s.acc[p] # None, NEW d \in Diffs,
         NEW x, x = SetDiff(s, p, d)
  PROVE  /\ Grows(s, x) /\ x.acc[p] # None
         /\ x.pending = s.pending /\ x.parent = s.parent /\ x.direct = s.direct
<1>1. s \in StateSet /\ (Top(p) => s.acc[p].gen \in {generation[p], None})
  BY DEF Linked
<1> DEFINE a == [s.acc[p] EXCEPT !.diff = d]
<1>2. a \in Acc /\ (Top(p) => a.gen \in {generation[p], None})
  BY <1>1, AccShape
<1>3. x = SetAcc(s, p, a) BY <1>1, AccShape
<1> HIDE DEF a
<1>4. QED BY <1>2, <1>3, SetAccGrows

(* _note_diff, which makes a record if there is none. *)
LEMMA NoteDiffGrows ==
  ASSUME NEW s, Linked(s), NEW p \in Paths, GenTyped, NEW x, x = NoteDiff(s, p)
  PROVE  /\ Grows(s, x) /\ x.acc[p] # None
         /\ x.pending = s.pending /\ x.parent = s.parent /\ x.direct = s.direct
<1>1. CASE s.acc[p] = None
  <2> DEFINE a == [total |-> 0, diff |-> "diff", gen |-> generation[p]]
  <2>1. a \in Acc /\ a.gen = generation[p] BY DEF GenTyped, Acc
  <2>2. x = SetAcc(s, p, a) BY <1>1 DEF NoteDiff, SetAcc
  <2> HIDE DEF a
  <2>3. QED BY <2>1, <2>2, SetAccGrows
<1>2. CASE s.acc[p] # None
  <2>1. x = SetDiff(s, p, "diff") /\ "diff" \in Diffs
    BY <1>2 DEF NoteDiff, SetDiff, Diffs
  <2>2. QED BY <1>2, <2>1, SetDiffGrows
<1>3. QED BY <1>1, <1>2

(* _maybe_complete on one folder. *)
LEMMA FinishHereGrows ==
  ASSUME NEW s, Linked(s), NEW p \in Paths, NEW y, y = FinishHere(s, p)
  PROVE  Grows(s, y.s) /\ y.go \in BOOLEAN /\ y = [s |-> y.s, go |-> y.go]
<1> DEFINE done == s.direct[p] # 0 /\ Pending(s, p) = {}
           partial == p \in s.abandoned \/ ((HasLocalRoot \/ s.acc[p].diff = "diff") /\ ~done)
           d == CASE s.acc[p].diff = "diff" -> "diff"
                  [] HasLocalRoot -> "synced"
                  [] OTHER -> "unavailable"
           z == SetDiff(s, p, d)
<1>1. y = IF s.acc[p] = None THEN [s |-> s, go |-> FALSE]
          ELSE IF partial THEN [s |-> MarkDirty(s, p, FALSE), go |-> FALSE]
          ELSE [s |-> MarkDirty(z, p, TRUE), go |-> TRUE]
  BY DEF FinishHere, SetDiff
<1>2. d \in Diffs BY DEF Diffs
<1> HIDE DEF partial, d
<1>3. s.acc[p] # None => Grows(s, z) /\ z.acc[p] # None
  BY <1>2, SetDiffGrows
<1> HIDE DEF z
<1>4. CASE s.acc[p] = None BY <1>1, <1>4, GrowsSame
<1>5. CASE s.acc[p] # None /\ partial
  <2>1. y.s = MarkDirty(s, p, FALSE) /\ y.go = FALSE /\ y = [s |-> y.s, go |-> y.go]
    BY <1>1, <1>5
  <2>2. QED BY <1>5, <2>1, MarkDirtyGrows
<1>6. CASE s.acc[p] # None /\ ~partial
  <2>1. y.s = MarkDirty(z, p, TRUE) /\ y.go = TRUE /\ y = [s |-> y.s, go |-> y.go]
    BY <1>1, <1>6
  <2>2. Grows(z, MarkDirty(z, p, TRUE))
    BY <1>3, <1>6, MarkDirtyGrows DEF Grows
  <2>3. QED BY <1>3, <1>6, <2>1, <2>2, GrowsFurther
<1>7. QED BY <1>4, <1>5, <1>6

(* A step that changes totals and contributions only. *)
LEMMA SameLinksGrows ==
  ASSUME NEW s, Linked(s), NEW x, x \in StateSet, x.pending = s.pending, x.parent = s.parent,
         x.dirty = s.dirty,
         \A p \in Paths : s.acc[p] = None => x.acc[p] = None,
         \A p \in Paths : s.acc[p] # None => x.acc[p] # None /\ x.acc[p].gen = s.acc[p].gen
  PROVE  Grows(s, x)
  BY DEF Grows, Keeps, Linked, Pending

(* One step of propagate; if it goes on, the parent has a record. *)
LEMMA PropagateStepGrows ==
  ASSUME NEW x, x \in Climbing, Linked(x.s), NEW p \in Paths, x.go => x.s.acc[p] # None,
         NEW y, y = PropagateStep(x, p)
  PROVE  /\ y \in Climbing /\ Grows(x.s, y.s)
         /\ y.go => /\ x.s.parent[p] \in Paths /\ p \in Kids(x.s.parent[p])
                    /\ y.s.acc[x.s.parent[p]] # None
<1> DEFINE q == x.s.parent[p]
           stop == \/ ~x.go \/ q = None
                   \/ q # None /\ (x.s.acc[q] = None \/ x.s.acc[p].total = x.s.contrib[p])
           delta == x.s.acc[p].total - x.s.contrib[p]
           z == [x.s EXCEPT !.contrib[p] = x.s.acc[p].total, !.acc[q].total = @ + delta]
           b == /\ z.direct[q] # 0
                /\ Pending(z, q) = {}
                /\ q \notin z.abandoned
<1>1. x.s \in StateSet /\ x.go \in BOOLEAN /\ x = [s |-> x.s, go |-> x.go]
  BY DEF Climbing
<1>2. y = IF stop THEN [x EXCEPT !.go = FALSE] ELSE [go |-> TRUE, s |-> MarkDirty(z, q, b)]
  BY DEF PropagateStep
<1> HIDE DEF stop, z, b
<1>3. CASE stop
  <2>1. y.s = x.s /\ y.go = FALSE /\ y \in Climbing
    BY <1>1, <1>2, <1>3 DEF Climbing
  <2>2. QED BY <2>1, GrowsSame
<1>4. CASE ~stop
  <2>1. /\ x.go /\ q # None /\ x.s.acc[q] # None /\ x.s.acc[p] # None
        /\ q \in Paths
    BY <1>1, <1>4 DEF stop, StateSet
  <2>2. p \in Kids(q) BY <2>1 DEF Linked
  <2>3. x.s.acc[p].total \in Int /\ x.s.contrib[p] \in Int /\ x.s.acc[q] \in Acc
    BY <1>1, <2>1, AccShape DEF StateSet
  <2> DEFINE a == [x.s.acc[q] EXCEPT !.total = @ + delta]
  <2>4. a \in Acc /\ a.gen = x.s.acc[q].gen BY <2>3 DEF Acc
  <2>5. a # None BY <2>4, NoneApart
  <2>6. z = [x.s EXCEPT !.contrib = [x.s.contrib EXCEPT ![p] = x.s.acc[p].total],
                        !.acc = [x.s.acc EXCEPT ![q] = a]]
    BY <1>1 DEF StateSet, z
  <2> HIDE DEF a
  <2>7. /\ z \in StateSet /\ z.pending = x.s.pending /\ z.parent = x.s.parent
        /\ z.dirty = x.s.dirty /\ z.acc[q] = a
        /\ \A r \in Paths \ {q} : z.acc[r] = x.s.acc[r]
    BY <1>1, <2>1, <2>3, <2>4, <2>6 DEF StateSet
  <2>8. Grows(x.s, z) BY <2>1, <2>4, <2>5, <2>7, SameLinksGrows
  <2>9. Grows(z, MarkDirty(z, q, b)) /\ MarkDirty(z, q, b).acc = z.acc
    <3>1. b \in BOOLEAN BY DEF b
    <3>2. QED BY <2>1, <2>5, <2>7, <2>8, <3>1, MarkDirtyGrows DEF Grows
  <2>10. y.s = MarkDirty(z, q, b) /\ y.go = TRUE /\ y = [s |-> y.s, go |-> y.go]
    BY <1>2, <1>4
  <2>11. Grows(x.s, y.s) BY <2>8, <2>9, <2>10, GrowsFurther
  <2>12. y \in Climbing BY <2>10, <2>11 DEF Climbing, Grows, Linked
  <2>13. QED BY <2>1, <2>2, <2>5, <2>7, <2>9, <2>10, <2>11, <2>12
<1>5. QED BY <1>3, <1>4

(* One step of on_subtree_complete. *)
LEMMA CompleteStepGrows ==
  ASSUME NEW x, x \in Climbing, Linked(x.s), NEW p \in Paths, GenTyped,
         NEW y, y = CompleteStep(x, p)
  PROVE  y \in Climbing /\ Grows(x.s, y.s)
<1> DEFINE q == x.s.parent[p]
           stop == ~x.go \/ q = None \/ (q # None /\ x.s.pending[q] = None)
           s1 == [x.s EXCEPT !.pending[q] = @ \ {p}]
           s2 == IF s1.acc[p] # None /\ s1.acc[p].diff = "diff" THEN NoteDiff(s1, q) ELSE s1
           fin == FinishHere(s2, q)
           all == s2.direct[q] # 0 /\ s2.pending[q] = {}
<1>1. x.s \in StateSet /\ x.go \in BOOLEAN /\ x = [s |-> x.s, go |-> x.go]
  BY DEF Climbing
<1>2. y = IF stop THEN [x EXCEPT !.go = FALSE]
          ELSE IF all THEN fin ELSE [s |-> s2, go |-> FALSE]
  BY DEF CompleteStep
<1>3. CASE stop
  <2>1. y.s = x.s /\ y.go = FALSE /\ y \in Climbing
    BY <1>1, <1>2, <1>3 DEF Climbing
  <2>2. QED BY <2>1, GrowsSame
<1>4. CASE ~stop
  <2>1. q # None /\ x.s.pending[q] # None /\ q \in Paths /\ x.s.pending[q] \in SUBSET Paths
    BY <1>1, <1>4 DEF StateSet
  <2> HIDE DEF stop
  <2> DEFINE rest == x.s.pending[q] \ {p}
  <2>2. s1 = [x.s EXCEPT !.pending = [x.s.pending EXCEPT ![q] = rest]]
    BY <1>1 DEF StateSet
  <2>3. rest \in SUBSET Paths /\ rest \subseteq x.s.pending[q] BY <2>1
  <2> HIDE DEF s1, rest
  <2>4. /\ s1 \in StateSet /\ s1.acc = x.s.acc /\ s1.parent = x.s.parent /\ s1.dirty = x.s.dirty
        /\ s1.pending[q] = rest /\ \A r \in Paths \ {q} : s1.pending[r] = x.s.pending[r]
    BY <1>1, <2>1, <2>2, <2>3 DEF StateSet
  <2>5. \A r \in Paths : Pending(s1, r) \subseteq Pending(x.s, r)
    BY <2>1, <2>3, <2>4 DEF Pending
  <2>6. Grows(x.s, s1) BY <2>3, <2>4, <2>5 DEF Grows, Keeps, Linked
  <2>7. Grows(s1, s2) BY <2>1, <2>6, NoteDiffGrows, GrowsSame DEF Grows
  <2> HIDE DEF s2
  <2>8. Grows(x.s, s2) BY <2>6, <2>7, GrowsFurther
  <2>9. CASE all
    <3>1. y = fin /\ Grows(s2, fin.s) /\ fin.go \in BOOLEAN /\ fin = [s |-> fin.s, go |-> fin.go]
      BY <1>2, <1>4, <2>1, <2>8, <2>9, FinishHereGrows DEF Grows
    <3> HIDE DEF fin
    <3>2. Grows(x.s, y.s) BY <2>8, <3>1, GrowsFurther
    <3>3. QED BY <3>1, <3>2 DEF Climbing, Grows, Linked
  <2>10. CASE ~all
    <3>1. y = [s |-> s2, go |-> FALSE] BY <1>2, <1>4, <2>10
    <3>2. QED BY <2>8, <3>1 DEF Climbing, Grows, Linked
  <2>11. QED BY <2>9, <2>10
<1>5. QED BY <1>3, <1>4

(* One step of _mark_abandoned. *)
LEMMA AbandonStepGrows ==
  ASSUME NEW x, x \in Climbing, Linked(x.s), NEW p \in Paths,
         NEW y, y = AbandonStep(x, p)
  PROVE  y \in Climbing /\ Grows(x.s, y.s)
<1> DEFINE q == x.s.parent[p]
           stop == ~x.go \/ q = None
           s1 == [x.s EXCEPT !.pending[q] = IF @ = None THEN None ELSE @ \ {p},
                             !.abandoned = @ \cup {q}]
           s2 == IF s1.acc[q] # None THEN MarkDirty(s1, q, FALSE) ELSE s1
<1>1. x.s \in StateSet /\ x.go \in BOOLEAN /\ x = [s |-> x.s, go |-> x.go]
  BY DEF Climbing
<1>2. y = IF stop THEN [x EXCEPT !.go = FALSE] ELSE [x EXCEPT !.s = s2]
  BY DEF AbandonStep
<1>3. CASE stop
  <2>1. y.s = x.s /\ y.go = FALSE /\ y \in Climbing
    BY <1>1, <1>2, <1>3 DEF Climbing
  <2>2. QED BY <2>1, GrowsSame
<1>4. CASE ~stop
  <2>1. q # None /\ q \in Paths BY <1>1, <1>4 DEF StateSet
  <2> HIDE DEF stop, s2
  <2> DEFINE rest == IF x.s.pending[q] = None THEN None ELSE x.s.pending[q] \ {p}
  <2>2. s1 = [x.s EXCEPT !.pending = [x.s.pending EXCEPT ![q] = rest],
                         !.abandoned = x.s.abandoned \cup {q}]
    BY <1>1 DEF StateSet
  <2>3. /\ rest \in (SUBSET Paths) \cup {None}
        /\ x.s.pending[q] \in SUBSET Paths => rest \in SUBSET Paths
        /\ rest # None => x.s.pending[q] # None /\ rest \subseteq x.s.pending[q]
    BY <1>1, <2>1 DEF StateSet
  <2> HIDE DEF s1, rest
  <2>4. /\ s1 \in StateSet /\ s1.acc = x.s.acc /\ s1.parent = x.s.parent /\ s1.dirty = x.s.dirty
        /\ s1.pending[q] = rest /\ \A r \in Paths \ {q} : s1.pending[r] = x.s.pending[r]
    BY <1>1, <2>1, <2>2, <2>3 DEF StateSet
  <2>5. \A r \in Paths : Pending(s1, r) \subseteq Pending(x.s, r)
    BY <2>1, <2>3, <2>4 DEF Pending
  <2>6. Grows(x.s, s1) BY <2>3, <2>4, <2>5 DEF Grows, Keeps, Linked
  <2>7. Grows(s1, s2) BY <2>1, <2>6, MarkDirtyGrows, GrowsSame DEF Grows, s2
  <2>8. Grows(x.s, s2) BY <2>6, <2>7, GrowsFurther
  <2>9. y.s = s2 /\ y = [s |-> y.s, go |-> x.go] BY <1>1, <1>2, <1>4
  <2>10. QED BY <1>1, <2>8, <2>9 DEF Climbing, Grows, Linked
<1>5. QED BY <1>3, <1>4

(* propagate as a whole, from a folder with a record. *)
LEMMA PropagateGrows ==
  ASSUME NEW s, Linked(s), NEW p \in Paths, s.acc[p] # None
  PROVE  Grows(s, Propagate(s, p))
<1> DEFINE L == Lineage[p]
           n == Len(L)
           At0 == [s |-> s, go |-> TRUE]
           A == [i \in 0..n |-> {x \in Climbing : /\ Grows(s, x.s)
                                                  /\ x.go /\ i < n => x.s.acc[L[i + 1]] # None}]
<1>1. /\ L \in Seq(Paths) /\ n \in Nat /\ n >= 1 /\ L[1] = p
      /\ \A i \in 1..(n - 1) : L[i] \in Kids(L[i + 1])
  BY LineageIsChain, LenProperties DEF Chain
<1> HIDE DEF L, n
<1>2. At0 \in Climbing BY DEF Climbing, Linked
<1>3. At0 \in A[0] BY <1>1, <1>2, GrowsSame
<1>4. ASSUME NEW i \in 1..n, NEW v \in A[i - 1]
      PROVE  PropagateStep(v, L[i]) \in A[i]
  <2>1. i \in 0..n /\ i - 1 \in 0..n /\ i - 1 < n /\ (i - 1) + 1 = i /\ L[i] \in Paths
    BY <1>1, ElementOfSeq DEF n
  <2>2. v \in Climbing /\ Grows(s, v.s) /\ (v.go => v.s.acc[L[i]] # None)
    BY <2>1
  <2> HIDE DEF A
  <2> DEFINE y == PropagateStep(v, L[i])
             q == v.s.parent[L[i]]
  <2>3. /\ y \in Climbing /\ Grows(v.s, y.s)
        /\ y.go => q \in Paths /\ L[i] \in Kids(q) /\ y.s.acc[q] # None
    BY <2>1, <2>2, PropagateStepGrows DEF Grows
  <2> HIDE DEF y
  <2>4. Grows(s, y.s) BY <2>2, <2>3, GrowsFurther
  <2>5. i < n => i \in 1..(n - 1) /\ L[i] \in Kids(L[i + 1]) /\ L[i + 1] \in Paths
    <3> SUFFICES ASSUME i < n PROVE i \in 1..(n - 1) /\ L[i + 1] \in Paths
      BY <1>1
    <3>1. i \in 1..(n - 1) /\ i + 1 \in 1..n BY <1>1
    <3>2. QED BY <1>1, <3>1, ElementOfSeq DEF n
  <2>6. y.go /\ i < n => y.s.acc[L[i + 1]] # None BY <2>3, <2>5, OneParent
  <2>7. y \in A[i] BY <2>1, <2>3, <2>4, <2>6 DEF A
  <2>8. QED BY <2>7 DEF y
<1> HIDE DEF A
<1>5. Along(PropagateStep, At0, L) \in A[n]
  BY <1>1, <1>3, <1>4, AlongPropagate DEF n
<1>6. n \in 0..n BY <1>1
<1>7. Propagate(s, p) = Along(PropagateStep, At0, L).s BY DEF Propagate, L
<1>8. QED BY <1>5, <1>6, <1>7 DEF A

(* on_subtree_complete as a whole. *)
LEMMA OnSubtreeCompleteGrows ==
  ASSUME NEW s, Linked(s), NEW p \in Paths, GenTyped
  PROVE  Grows(s, OnSubtreeComplete(s, p))
<1> DEFINE L == Lineage[p]
           n == Len(L)
           At0 == [s |-> s, go |-> TRUE]
           A == [i \in 0..n |-> {x \in Climbing : Grows(s, x.s)}]
<1>1. L \in Seq(Paths) /\ n \in Nat
  BY LineageIsChain, LenProperties DEF Chain
<1> HIDE DEF L, n
<1>2. At0 \in Climbing BY DEF Climbing, Linked
<1>3. At0 \in A[0] BY <1>1, <1>2, GrowsSame
<1>4. ASSUME NEW i \in 1..n, NEW v \in A[i - 1]
      PROVE  CompleteStep(v, L[i]) \in A[i]
  <2>1. i \in 0..n /\ i - 1 \in 0..n /\ L[i] \in Paths
    BY <1>1, ElementOfSeq DEF n
  <2>2. v \in Climbing /\ Grows(s, v.s) BY <2>1
  <2> HIDE DEF A
  <2>3. CompleteStep(v, L[i]) \in Climbing /\ Grows(v.s, CompleteStep(v, L[i]).s)
    BY <2>1, <2>2, CompleteStepGrows DEF Grows
  <2>4. Grows(s, CompleteStep(v, L[i]).s) BY <2>2, <2>3, GrowsFurther
  <2>5. QED BY <2>1, <2>3, <2>4 DEF A
<1> HIDE DEF A
<1>5. Along(CompleteStep, At0, L) \in A[n]
  BY <1>1, <1>3, <1>4, AlongComplete DEF n
<1>6. n \in 0..n BY <1>1
<1>7. OnSubtreeComplete(s, p) = Along(CompleteStep, At0, L).s
  BY DEF OnSubtreeComplete, L
<1>8. QED BY <1>5, <1>6, <1>7 DEF A

(* _mark_abandoned as a whole. *)
LEMMA MarkAbandonedGrows ==
  ASSUME NEW s, Linked(s), NEW p \in Paths
  PROVE  Grows(s, MarkAbandoned(s, p))
<1> DEFINE L == Lineage[p]
           n == Len(L)
           At0 == [s |-> s, go |-> TRUE]
           A == [i \in 0..n |-> {x \in Climbing : Grows(s, x.s)}]
<1>1. L \in Seq(Paths) /\ n \in Nat
  BY LineageIsChain, LenProperties DEF Chain
<1> HIDE DEF L, n
<1>2. At0 \in Climbing BY DEF Climbing, Linked
<1>3. At0 \in A[0] BY <1>1, <1>2, GrowsSame
<1>4. ASSUME NEW i \in 1..n, NEW v \in A[i - 1]
      PROVE  AbandonStep(v, L[i]) \in A[i]
  <2>1. i \in 0..n /\ i - 1 \in 0..n /\ L[i] \in Paths
    BY <1>1, ElementOfSeq DEF n
  <2>2. v \in Climbing /\ Grows(s, v.s) BY <2>1
  <2> HIDE DEF A
  <2>3. AbandonStep(v, L[i]) \in Climbing /\ Grows(v.s, AbandonStep(v, L[i]).s)
    BY <2>1, <2>2, AbandonStepGrows DEF Grows
  <2>4. Grows(s, AbandonStep(v, L[i]).s) BY <2>2, <2>3, GrowsFurther
  <2>5. QED BY <2>1, <2>3, <2>4 DEF A
<1> HIDE DEF A
<1>5. Along(AbandonStep, At0, L) \in A[n]
  BY <1>1, <1>3, <1>4, AlongAbandon DEF n
<1>6. n \in 0..n BY <1>1
<1>7. MarkAbandoned(s, p) = Along(AbandonStep, At0, L).s
  BY DEF MarkAbandoned, L
<1>8. QED BY <1>5, <1>6, <1>7 DEF A

(* _maybe_complete as a whole. *)
LEMMA MaybeCompleteGrows ==
  ASSUME NEW s, Linked(s), NEW p \in Paths, GenTyped
  PROVE  Grows(s, MaybeComplete(s, p))
<1> DEFINE x == FinishHere(s, p)
<1>1. Grows(s, x.s) BY FinishHereGrows
<1>2. MaybeComplete(s, p) = IF x.go THEN OnSubtreeComplete(x.s, p) ELSE x.s
  BY DEF MaybeComplete
<1> HIDE DEF x
<1>3. Grows(x.s, OnSubtreeComplete(x.s, p))
  BY <1>1, OnSubtreeCompleteGrows DEF Grows
<1>4. QED BY <1>1, <1>2, <1>3, GrowsFurther

(* A complete child is added into its parent. *)
LEMMA AttachGrows ==
  ASSUME NEW s, Linked(s), NEW p \in Paths, NEW sf \in Paths, s.acc[sf] # None, GenTyped
  PROVE  Grows(s, Attach(s, p, sf))
<1> DEFINE s1 == Propagate(s, sf)
           s2 == IF s1.acc[sf].diff = "diff" THEN NoteDiff(s1, p) ELSE s1
<1>1. Grows(s, s1) BY PropagateGrows
<1>2. Attach(s, p, sf) = OnSubtreeComplete(s2, sf) BY DEF Attach
<1> HIDE DEF s1
<1>3. Grows(s1, s2) BY <1>1, NoteDiffGrows, GrowsSame DEF Grows
<1> HIDE DEF s2
<1>4. Grows(s, s2) BY <1>1, <1>3, GrowsFurther
<1>5. Grows(s2, OnSubtreeComplete(s2, sf))
  BY <1>4, OnSubtreeCompleteGrows DEF Grows
<1>6. QED BY <1>2, <1>4, <1>5, GrowsFurther

(* _repair_complete_children_locked. *)
LEMMA RepairGrows ==
  ASSUME NEW s, Linked(s), NEW p \in Paths, GenTyped
  PROVE  Grows(s, Repair(s, p))
<1> DEFINE L == Subfolders[p]
           n == Len(L)
           A == [i \in 0..n |-> {x \in StateSet : Grows(s, x)}]
           s1 == AttachWhole(s, p)
<1>1. L \in Seq(Paths) /\ n \in Nat BY TreeShape, LenProperties
<1>2. s \in A[0] BY <1>1, GrowsSame DEF Linked
<1>3. ASSUME NEW i \in 1..n, NEW v \in A[i - 1]
      PROVE  (IF L[i] \in Pending(s, p) /\ IsWhole(v, L[i])
                THEN Attach(v, p, L[i]) ELSE v) \in A[i]
  <2>1. i \in 0..n /\ i - 1 \in 0..n /\ L[i] \in Paths BY <1>1, ElementOfSeq
  <2>2. v \in StateSet /\ Grows(s, v) BY <2>1
  <2> HIDE DEF A, L, n
  <2>3. CASE L[i] \in Pending(s, p) /\ IsWhole(v, L[i])
    <3>1. Grows(v, Attach(v, p, L[i]))
      BY <2>1, <2>2, <2>3, AttachGrows DEF Grows, IsWhole
    <3>2. Grows(s, Attach(v, p, L[i])) BY <2>2, <3>1, GrowsFurther
    <3>3. QED BY <2>1, <2>3, <3>2 DEF A, Grows, Linked
  <2>4. CASE ~(L[i] \in Pending(s, p) /\ IsWhole(v, L[i]))
    BY <2>1, <2>2, <2>4 DEF A
  <2>5. QED BY <2>3, <2>4
<1> HIDE DEF A
<1>4. s1 \in A[n] BY <1>1, <1>2, <1>3, AlongAttach
<1> HIDE DEF L, n
<1>5. Grows(s, s1) BY <1>1, <1>4 DEF A
<1>6. Grows(s1, MaybeComplete(s1, p)) BY <1>5, MaybeCompleteGrows DEF Grows
<1>7. Repair(s, p) \in {s1, MaybeComplete(s1, p)} BY DEF Repair
<1>8. QED BY <1>5, <1>6, <1>7, GrowsFurther

-----------------------------------------------------------------------------
(* The queue, and what forgets a folder *)

(* A job is queued. *)
LEMMA PutIsBag ==
  ASSUME NEW q \in JobBags, NEW j \in Job
  PROVE  Put(q, j) \in JobBags
<1>1. PICK D \in SUBSET Job : q \in [D -> Nat \ {0}] BY DEF JobBags
<1> DEFINE r == [e \in D \cup {j} |-> (IF e \in D THEN q[e] ELSE 0) + (IF e \in {j} THEN 1 ELSE 0)]
<1>2. DOMAIN q = D BY <1>1
<1>3. DOMAIN SetToBag({j}) = {j} /\ \A e \in {j} : SetToBag({j})[e] = 1
  BY DEF SetToBag
<1>4. Put(q, j) = [e \in D \cup {j} |-> (IF e \in D THEN q[e] ELSE 0)
                                    + (IF e \in {j} THEN SetToBag({j})[e] ELSE 0)]
  BY <1>2, <1>3 DEF Put, (+)
<1>5. D \cup {j} \in SUBSET Job
  OBVIOUS
<1>6. Put(q, j) \in [D \cup {j} -> Nat \ {0}] BY <1>1, <1>3, <1>4
<1>7. QED BY <1>5, <1>6 DEF JobBags

(* A job is taken off the queue. *)
LEMMA TakenIsBag ==
  ASSUME NEW q \in JobBags, NEW j
  PROVE  q (-) SetToBag({j}) \in JobBags
<1>1. PICK D \in SUBSET Job : q \in [D -> Nat \ {0}] BY DEF JobBags
<1> DEFINE B == [e \in D |-> IF e \in {j} THEN q[e] - SetToBag({j})[e] ELSE q[e]]
           E == {d \in DOMAIN B : B[d] > 0}
<1>2. DOMAIN q = D BY <1>1
<1>3. DOMAIN SetToBag({j}) = {j} /\ \A e \in {j} : SetToBag({j})[e] = 1
  BY DEF SetToBag
<1>4. q (-) SetToBag({j}) = [e \in E |-> B[e]] BY <1>2, <1>3 DEF (-)
<1>5. \A d \in D : B[d] \in Int BY <1>1, <1>3
<1>6. E \in SUBSET Job /\ \A e \in E : B[e] \in Nat \ {0}
  <2> HIDE DEF B
  <2>1. DOMAIN B = D BY DEF B
  <2>2. QED BY <1>5, <2>1
<1> HIDE DEF B, E
<1>7. [e \in E |-> B[e]] \in [E -> Nat \ {0}] BY <1>6
<1>8. QED BY <1>4, <1>6, <1>7 DEF JobBags

(* The jobs of a folder are taken off the queue. *)
LEMMA WithoutIsBag ==
  ASSUME NEW q \in JobBags, NEW p
  PROVE  Without(q, p) \in JobBags
<1>1. PICK D \in SUBSET Job : q \in [D -> Nat \ {0}] BY DEF JobBags
<1> DEFINE E == {j \in D : j.path # p}
<1>2. Without(q, p) = [j \in E |-> q[j]] BY <1>1 DEF Without
<1>3. E \in SUBSET Job /\ [j \in E |-> q[j]] \in [E -> Nat \ {0}] BY <1>1
<1>4. QED BY <1>2, <1>3 DEF JobBags

(* A subfolder is a folder. *)
LEMMA KidIsPath == \A p \in Paths : Kids(p) \subseteq Paths
<1> SUFFICES ASSUME NEW p \in Paths PROVE Kids(p) \subseteq Paths
  OBVIOUS
<1>1. Subfolders[p] \in Seq(Paths) BY TreeShape
<1>2. DOMAIN Subfolders[p] = 1..Len(Subfolders[p]) BY <1>1, LenProperties
<1>3. QED BY <1>1, <1>2, ElementOfSeq DEF Kids, ToSet

(* A restarted folder waits for no subfolder; its subfolders still know *)
(* it. *)
LEMMA RestartedIsLinked ==
  ASSUME NEW s, Linked(s), NEW p \in Paths
  PROVE  Linked(Restarted(s, p))
<1> DEFINE x == Restarted(s, p)
<1>1. s \in StateSet BY DEF Linked
<1>2. x = [s EXCEPT !.abandoned = s.abandoned \ {p}, !.direct = [s.direct EXCEPT ![p] = 0],
                    !.pending = [s.pending EXCEPT ![p] = None],
                    !.contrib = [s.contrib EXCEPT ![p] = 0]]
  BY <1>1 DEF Restarted, StateSet
<1> HIDE DEF x
<1>3. /\ [s.direct EXCEPT ![p] = 0] \in [Paths -> 0..MaxPage]
      /\ [s.pending EXCEPT ![p] = None] \in [Paths -> (SUBSET Paths) \cup {None}]
      /\ [s.contrib EXCEPT ![p] = 0] \in [Paths -> Int]
      /\ s.abandoned \ {p} \in SUBSET Paths
  <2>1. 0 \in 0..MaxPage BY BoundsAndPages
  <2>2. /\ s.direct \in [Paths -> 0..MaxPage] /\ s.contrib \in [Paths -> Int]
        /\ s.pending \in [Paths -> (SUBSET Paths) \cup {None}] /\ s.abandoned \in SUBSET Paths
    BY <1>1 DEF StateSet
  <2>3. [s.pending EXCEPT ![p] = None] \in [Paths -> (SUBSET Paths) \cup {None}]
    BY <2>2
  <2>4. QED BY <2>1, <2>2, <2>3
<1>4. /\ x \in StateSet /\ x.acc = s.acc /\ x.parent = s.parent /\ x.dirty = s.dirty
      /\ x.pending[p] = None /\ \A r \in Paths \ {p} : x.pending[r] = s.pending[r]
  BY <1>1, <1>2, <1>3 DEF StateSet
<1>5. QED BY <1>4 DEF Linked, Pending, x

(* invalidate: nobody waits for p, and p is nobody's parent any more; a *)
(* top folder loses the record that its new generation outdates. *)
LEMMA ForgottenIsLinked ==
  ASSUME NEW p \in Paths, Linked(st), GenTyped,
         generation' = [generation EXCEPT ![p] = @ + 1], st' = Forgotten(st, p)
  PROVE  (Linked(st))'
<1> DEFINE s == st
           x == st'
<1>1. s \in StateSet BY DEF Linked
<1>2. 0 \in 0..MaxPage BY BoundsAndPages
<1>3. /\ x \in StateSet
      /\ x.acc[p] = None /\ \A q \in Paths \ {p} : x.acc[q] = s.acc[q]
      /\ x.dirty[p] = None /\ \A q \in Paths \ {p} : x.dirty[q] = s.dirty[q]
      /\ \A q \in Paths : x.parent[q] = IF q = p \/ s.parent[q] = p THEN None ELSE s.parent[q]
      /\ \A q \in Paths : x.pending[q] = IF q = p \/ s.pending[q] = None THEN None
                                         ELSE s.pending[q] \ {p}
  BY <1>1, <1>2 DEF StateSet, Forgotten
<1>4. \A q \in Paths \ {p} : generation'[q] = generation[q] BY DEF GenTyped
<1>5. \A q \in Paths : \A c \in Pending(x, q) : q # p /\ c # p /\ c \in Pending(s, q)
  <2> SUFFICES ASSUME NEW q \in Paths, NEW c \in Pending(x, q)
               PROVE  q # p /\ c # p /\ c \in Pending(s, q)
    OBVIOUS
  <2>1. x.pending[q] = IF q = p \/ s.pending[q] = None THEN None ELSE s.pending[q] \ {p}
    BY <1>3
  <2> HIDE DEF x, s
  <2> QED
    BY <2>1 DEF Pending
<1>6. \A q \in Paths : \A c \in Pending(x, q) : c \in Kids(q) /\ x.parent[c] = q
  BY <1>3, <1>5, KidIsPath DEF Linked
<1>7. \A c \in Paths : x.parent[c] # None => c \in Kids(x.parent[c])
  BY <1>3 DEF Linked
<1>8. \A q \in Paths : x.dirty[q] # None => x.acc[q] # None
  BY <1>3 DEF Linked
<1>9. \A q \in Paths : Top(q) /\ x.acc[q] # None => x.acc[q].gen \in {generation'[q], None}
  BY <1>3, <1>4 DEF Linked
<1> HIDE DEF s, x
<1>10. QED BY <1>3, <1>6, <1>7, <1>8, <1>9 DEF Linked, x, Top, Pending, StateSet, Kids

-----------------------------------------------------------------------------
(* A listing *)

(* A subfolder is given its parent. *)
LEMMA AdoptGrows ==
  ASSUME NEW s, Linked(s), NEW p \in Paths, NEW sf \in Kids(p),
         NEW x, x = Adopted(s, p, sf)
  PROVE  Grows(s, x) /\ x.parent[sf] = p /\ x.pending = s.pending /\ x.acc = s.acc
<1> DEFINE P == [s.parent EXCEPT ![sf] = p]
           C == [s.contrib EXCEPT ![sf] = 0]
<1>1. s \in StateSet /\ sf \in Paths BY KidIsPath DEF Linked
<1>2. x = [s EXCEPT !.parent = P, !.contrib = C]
  BY <1>1 DEF StateSet, Adopted
<1>3. /\ P \in [Paths -> Paths \cup {None}] /\ C \in [Paths -> Int]
      /\ P[sf] = p /\ \A r \in Paths \ {sf} : P[r] = s.parent[r]
  BY <1>1 DEF StateSet
<1> HIDE DEF P, C
<1>4. /\ x \in StateSet /\ x.acc = s.acc /\ x.pending = s.pending /\ x.dirty = s.dirty
      /\ x.parent[sf] = p /\ \A r \in Paths \ {sf} : x.parent[r] = s.parent[r]
  <2>1. x.acc = s.acc /\ x.pending = s.pending /\ x.dirty = s.dirty /\ x.parent = P
    BY <1>1, <1>2 DEF StateSet
  <2>2. x \in StateSet BY <1>1, <1>2, <1>3 DEF StateSet
  <2>3. QED BY <1>3, <2>1, <2>2
<1>5. \A r \in Paths : \A c \in Pending(x, r) : c \in Kids(r) /\ x.parent[c] = r
  <2> SUFFICES ASSUME NEW r \in Paths, NEW c \in Pending(x, r)
               PROVE  c \in Kids(r) /\ x.parent[c] = r
    OBVIOUS
  <2>1. c \in Kids(r) /\ s.parent[c] = r BY <1>4 DEF Linked, Pending
  <2>2. c \in Paths BY <2>1, KidIsPath
  <2>3. c = sf => r = p BY <2>1, OneParent
  <2>4. QED BY <1>4, <2>1, <2>2, <2>3
<1>6. QED BY <1>1, <1>4, <1>5 DEF Grows, Linked, Keeps

(* A folder is settled with a record, and keeps its pending subfolders. *)
LEMMA RecordGrows ==
  ASSUME NEW s, Linked(s), NEW sf \in Paths, NEW a \in Acc,
         Top(sf) => a.gen \in {generation[sf], None}, NEW t \in Epochs,
         NEW x, x = WithRecord(s, sf, a, t)
  PROVE  Grows(s, x) /\ x.acc[sf] # None
<1> DEFINE pend == Pending(s, sf)
           C == [s.acc EXCEPT ![sf] = a]
           D == [s.direct EXCEPT ![sf] = t]
           P == [s.pending EXCEPT ![sf] = pend]
<1>1. s \in StateSet /\ sf \in Paths BY DEF Linked
<1>2. a \in Acc
  OBVIOUS
<1>3. a # None BY <1>2, NoneApart
<1>4. pend \in SUBSET Paths BY <1>1 DEF Pending, StateSet
<1>5. t \in 0..MaxPage BY DEF Epochs
<1>6. x = [s EXCEPT !.acc = C, !.direct = D, !.pending = P]
  BY <1>1 DEF StateSet, WithRecord
<1>7. \A q \in Paths : Pending(x, q) = Pending(s, q)
  <2>1. \A q \in Paths : x.pending[q] = IF q = sf THEN pend ELSE s.pending[q]
    BY <1>1, <1>6 DEF StateSet
  <2>2. QED BY <2>1 DEF Pending
<1> HIDE DEF pend
<1>8. /\ C \in [Paths -> Acc \cup {None}] /\ D \in [Paths -> 0..MaxPage]
      /\ P \in [Paths -> (SUBSET Paths) \cup {None}]
      /\ C[sf] = a /\ \A q \in Paths \ {sf} : C[q] = s.acc[q]
      /\ P[sf] = pend /\ \A q \in Paths \ {sf} : P[q] = s.pending[q]
  <2>1. /\ s.acc \in [Paths -> Acc \cup {None}] /\ s.direct \in [Paths -> 0..MaxPage]
        /\ s.pending \in [Paths -> (SUBSET Paths) \cup {None}]
    BY <1>1 DEF StateSet
  <2>2. /\ C \in [Paths -> Acc \cup {None}]
        /\ C[sf] = a /\ \A q \in Paths \ {sf} : C[q] = s.acc[q]
    BY <1>1, <1>2, <2>1
  <2>3. D \in [Paths -> 0..MaxPage] BY <1>5, <2>1
  <2>4. /\ P \in [Paths -> (SUBSET Paths) \cup {None}]
        /\ P[sf] = pend /\ \A q \in Paths \ {sf} : P[q] = s.pending[q]
    BY <1>1, <1>4, <2>1
  <2>5. QED BY <2>2, <2>3, <2>4
<1> HIDE DEF C, D, P
<1>9. /\ x \in StateSet /\ x.parent = s.parent /\ x.dirty = s.dirty
      /\ x.acc[sf] = a /\ \A q \in Paths \ {sf} : x.acc[q] = s.acc[q]
      /\ x.pending[sf] = pend /\ \A q \in Paths \ {sf} : x.pending[q] = s.pending[q]
  <2>1. x.acc = C /\ x.pending = P /\ x.dirty = s.dirty /\ x.parent = s.parent
    BY <1>1, <1>6 DEF StateSet
  <2>2. x \in StateSet BY <1>1, <1>6, <1>8 DEF StateSet
  <2>3. QED BY <1>8, <2>1, <2>2
<1>10. QED BY <1>1, <1>3, <1>4, <1>7, <1>9 DEF Grows, Linked, Keeps

(* A subfolder is settled with the record read from disk. *)
LEMMA ReuseGrows ==
  ASSUME NEW s, Linked(s), NEW p \in Paths, NEW sf \in Kids(p), NEW r \in Record,
         NEW t \in Epochs,
         NEW x, x = [s EXCEPT
                       !.acc[sf] = [total |-> r.total, diff |-> r.diff, gen |-> r.gen],
                       !.direct[sf] = t,
                       !.pending[sf] = Pending(s, sf)]
  PROVE  Grows(s, x) /\ x.acc[sf] # None
<1> DEFINE a == [total |-> r.total, diff |-> r.diff, gen |-> r.gen]
<1>1. sf \in Paths /\ ~Top(sf) BY KidIsPath DEF Top
<1>2. a \in Acc BY DEF Record, Acc
<1>3. x = WithRecord(s, sf, a, t) BY DEF WithRecord
<1> HIDE DEF a
<1>4. QED BY <1>1, <1>2, <1>3, RecordGrows

(* A listed folder waits for a subfolder. *)
LEMMA WaitGrows ==
  ASSUME NEW s, Linked(s), NEW p \in Paths, NEW sf \in Kids(p), s.parent[sf] = p,
         s.pending[p] \in SUBSET Paths, NEW d \in {0, s.direct[sf]},
         NEW x, x = [s EXCEPT !.pending[p] = @ \cup {sf}, !.direct[sf] = d]
  PROVE  Grows(s, x)
<1> DEFINE pend == s.pending[p] \cup {sf}
           P == [s.pending EXCEPT ![p] = pend]
           D == [s.direct EXCEPT ![sf] = d]
<1>1. s \in StateSet /\ sf \in Paths BY KidIsPath DEF Linked
<1>2. pend \in SUBSET Paths BY <1>1
<1>3. d \in 0..MaxPage BY <1>1, BoundsAndPages DEF StateSet
<1>4. x = [s EXCEPT !.pending = P, !.direct = D] BY <1>1 DEF StateSet
<1>5. /\ P \in [Paths -> (SUBSET Paths) \cup {None}] /\ D \in [Paths -> 0..MaxPage]
      /\ P[p] = pend /\ \A q \in Paths \ {p} : P[q] = s.pending[q]
  <2>1. s.direct \in [Paths -> 0..MaxPage] /\ s.pending \in [Paths -> (SUBSET Paths) \cup {None}]
    BY <1>1 DEF StateSet
  <2> HIDE DEF pend
  <2>2. QED BY <1>2, <1>3, <2>1
<1>6. /\ x \in StateSet /\ x.parent = s.parent /\ x.dirty = s.dirty /\ x.acc = s.acc
      /\ x.pending[p] = pend /\ \A q \in Paths \ {p} : x.pending[q] = s.pending[q]
  <2> HIDE DEF pend, P, D
  <2>1. x.acc = s.acc /\ x.pending = P /\ x.dirty = s.dirty /\ x.parent = s.parent
    BY <1>1, <1>4 DEF StateSet
  <2>2. x \in StateSet BY <1>1, <1>4, <1>5 DEF StateSet
  <2>3. QED BY <1>5, <2>1, <2>2
<1> HIDE DEF P, D
<1>7. \A q \in Paths : \A c \in Pending(x, q) : c \in Kids(q) /\ x.parent[c] = q
  <2> SUFFICES ASSUME NEW q \in Paths, NEW c \in Pending(x, q)
               PROVE  c \in Kids(q) /\ x.parent[c] = q
    OBVIOUS
  <2>1. CASE c \in Pending(s, q) BY <1>6, <2>1 DEF Linked
  <2>2. CASE c \notin Pending(s, q)
    <3>1. q = p BY <1>6, <2>2 DEF Pending
    <3>2. c \in pend BY <1>6, <3>1 DEF Pending
    <3>3. CASE c = sf BY <1>6, <3>1, <3>3
    <3>4. CASE c \in s.pending[p]
      <4>1. s.pending[p] # None BY NoneIsNothing
      <4>2. QED BY <2>2, <3>1, <3>4, <4>1 DEF Pending
    <3>5. QED BY <3>2, <3>3, <3>4
  <2>3. QED BY <2>1, <2>2
<1>8. QED BY <1>2, <1>6, <1>7 DEF Grows, Linked, Keeps

(* One subfolder of a listing, whichever way it goes. *)
LEMMA AddSubfolderGrows ==
  ASSUME GenTyped, NEW x, x \in Adding, Linked(x.s), NEW p \in Paths, NEW sf \in Kids(p),
         NEW t \in Epochs, NEW seen, seen[sf] \in Record \cup {None}, NEW depth \in 0..DepthCap,
         x.s.pending[p] \in SUBSET Paths,
         NEW y, y = AddSubfolder(x, p, sf, t, seen, depth)
  PROVE  y \in Adding /\ Grows(x.s, y.s)
<1> DEFINE s1 == Adopted(x.s, p, sf)
           reusable == x.owned[sf] = 0 /\ seen[sf] # None /\ seen[sf].complete
           reused == [s1 EXCEPT
                        !.acc[sf] = [total |-> seen[sf].total, diff |-> seen[sf].diff,
                                     gen |-> seen[sf].gen],
                        !.direct[sf] = t,
                        !.pending[sf] = Pending(s1, sf)]
           d == IF Pending(s1, sf) = {} THEN 0 ELSE s1.direct[sf]
           waiting == [s1 EXCEPT !.pending[p] = @ \cup {sf}, !.direct[sf] = d]
           owned == [x.owned EXCEPT ![sf] = t]
           q == Put(x.q, JobOf(sf, t, depth))
<1>1. /\ x = [s |-> x.s, owned |-> x.owned, q |-> x.q] /\ x.s \in StateSet
      /\ x.owned \in [Paths -> 0..MaxPage] /\ x.q \in JobBags /\ sf \in Paths
  BY KidIsPath DEF Adding
<1>2. y = IF IsWhole(s1, sf) THEN [x EXCEPT !.s = Attach(s1, p, sf)]
          ELSE IF reusable THEN [x EXCEPT !.s = Attach(reused, p, sf)]
          ELSE IF t < minPage THEN [x EXCEPT !.s = MarkAbandoned(waiting, sf)]
          ELSE IF waiting.direct[sf] = 0 /\ x.owned[sf] = 0
            THEN [s |-> waiting, owned |-> owned, q |-> q]
          ELSE [x EXCEPT !.s = waiting]
  <2>1. waiting = [s1 EXCEPT !.pending[p] = @ \cup {sf},
                             !.direct[sf] = IF Pending(s1, sf) = {} THEN 0 ELSE @]
    OBVIOUS
  <2>2. QED BY <2>1 DEF AddSubfolder, Adopted
<1>3. Grows(x.s, s1) /\ s1.parent[sf] = p /\ s1.pending[p] \in SUBSET Paths
  BY AdoptGrows
<1> HIDE DEF s1
<1>4. Linked(s1) BY <1>3 DEF Grows
<1>5. IsWhole(s1, sf) => Grows(s1, Attach(s1, p, sf))
  BY <1>1, <1>4, AttachGrows DEF IsWhole
<1>6. reusable => Grows(s1, Attach(reused, p, sf))
  <2> SUFFICES ASSUME reusable PROVE Grows(s1, Attach(reused, p, sf))
    OBVIOUS
  <2>1. seen[sf] \in Record
    OBVIOUS
  <2>2. Grows(s1, reused) /\ reused.acc[sf] # None BY <1>4, <2>1, ReuseGrows
  <2> HIDE DEF reused
  <2>3. Grows(reused, Attach(reused, p, sf))
    BY <1>1, <2>2, AttachGrows DEF Grows
  <2>4. QED BY <2>2, <2>3, GrowsFurther
<1> HIDE DEF reused, reusable
<1>7. Grows(s1, waiting)
  <2>1. d \in {0, s1.direct[sf]}
    OBVIOUS
  <2> HIDE DEF d
  <2>2. QED BY <1>3, <1>4, <2>1, WaitGrows
<1> HIDE DEF waiting
<1>8. Grows(s1, MarkAbandoned(waiting, sf))
  <2>1. Grows(waiting, MarkAbandoned(waiting, sf))
    BY <1>1, <1>7, MarkAbandonedGrows DEF Grows
  <2>2. QED BY <1>7, <2>1, GrowsFurther
<1>9. owned \in [Paths -> 0..MaxPage] BY <1>1 DEF Epochs
<1>10. q \in JobBags
  <2>1. JobOf(sf, t, depth) \in Job BY <1>1 DEF JobOf, Job, Epochs
  <2>2. QED BY <1>1, <2>1, PutIsBag
<1> HIDE DEF owned, q
<1>11. /\ y = [s |-> y.s, owned |-> y.owned, q |-> y.q] /\ y.owned \in {x.owned, owned}
       /\ y.q \in {x.q, q} /\ Grows(s1, y.s)
  <2>1. CASE IsWhole(s1, sf)
    <3>1. y = [s |-> Attach(s1, p, sf), owned |-> x.owned, q |-> x.q]
      BY <1>1, <1>2, <2>1
    <3>2. QED BY <1>5, <2>1, <3>1
  <2>2. CASE ~IsWhole(s1, sf) /\ reusable
    <3>1. y = [s |-> Attach(reused, p, sf), owned |-> x.owned, q |-> x.q]
      BY <1>1, <1>2, <2>2
    <3>2. QED BY <1>6, <2>2, <3>1
  <2>3. CASE ~IsWhole(s1, sf) /\ ~reusable /\ t < minPage
    <3>1. y = [s |-> MarkAbandoned(waiting, sf), owned |-> x.owned, q |-> x.q]
      BY <1>1, <1>2, <2>3
    <3>2. QED BY <1>8, <3>1
  <2>4. CASE ~IsWhole(s1, sf) /\ ~reusable /\ ~(t < minPage)
    <3>1. \/ y = [s |-> waiting, owned |-> owned, q |-> q]
          \/ y = [s |-> waiting, owned |-> x.owned, q |-> x.q]
      BY <1>1, <1>2, <2>4
    <3>2. QED BY <1>7, <3>1
  <2>5. QED BY <2>1, <2>2, <2>3, <2>4
<1>12. Grows(x.s, y.s) BY <1>3, <1>11, GrowsFurther
<1>13. y \in Adding
  BY <1>1, <1>9, <1>10, <1>11, <1>12 DEF Adding, Grows, Linked
<1>14. QED BY <1>12, <1>13

(* The folder's own record, which is of the generation the job was claimed *)
(* for. *)
LEMMA BegunIsLinked ==
  ASSUME Linked(st), GenTyped, NEW w \in Workers, Doing(w) \in Paths, ~CalledOff(w),
         Epoch(w) \in Epochs
  PROVE  Linked(Begun(w)) /\ Begun(w).pending[Doing(w)] \in SUBSET Paths
<1> DEFINE p == Doing(w)
           t == Epoch(w)
           a == FreshAcc(p, worker[w].gen)
           C == [st.acc EXCEPT ![p] = a]
           D == [st.direct EXCEPT ![p] = t]
           P == [st.pending EXCEPT ![p] = {}]
           fresh == [st EXCEPT !.abandoned = @ \ {p}, !.acc[p] = FreshAcc(p, worker[w].gen),
                               !.direct[p] = Epoch(w), !.pending[p] = {}]
           compared == IF p \in DirectDiffs THEN NoteDiff(fresh, p) ELSE fresh
           marked == MarkDirty(compared, p, Subfolders[p] = <<>>)
<1>1. st \in StateSet /\ p \in Paths /\ t \in 0..MaxPage
  BY DEF Linked, Epochs
<1>2. a \in Acc /\ a.gen = generation[p]
  <2>1. DirectTotal[p] \in Int BY <1>1, TotalsPositive
  <2>2. worker[w].gen = generation[p] /\ generation[p] \in Nat
    BY <1>1 DEF CalledOff, GenTyped
  <2>3. QED BY <2>1, <2>2 DEF FreshAcc, Acc
<1>3. Begun(w) = Propagate(marked, p) BY DEF Begun
<1>4. fresh = [st EXCEPT !.abandoned = st.abandoned \ {p}, !.acc = C, !.direct = D, !.pending = P]
  BY <1>1 DEF StateSet
<1> HIDE DEF a, p, t, fresh, marked
<1>5. a # None BY <1>2, NoneApart
<1>6. /\ C \in [Paths -> Acc \cup {None}] /\ D \in [Paths -> 0..MaxPage]
      /\ P \in [Paths -> (SUBSET Paths) \cup {None}]
      /\ C[p] = a /\ \A q \in Paths \ {p} : C[q] = st.acc[q]
      /\ P[p] = {} /\ \A q \in Paths \ {p} : P[q] = st.pending[q]
  <2>1. /\ st.acc \in [Paths -> Acc \cup {None}] /\ st.direct \in [Paths -> 0..MaxPage]
        /\ st.pending \in [Paths -> (SUBSET Paths) \cup {None}]
    BY <1>1 DEF StateSet
  <2>2. /\ C \in [Paths -> Acc \cup {None}]
        /\ C[p] = a /\ \A q \in Paths \ {p} : C[q] = st.acc[q]
    BY <1>1, <1>2, <2>1
  <2>3. D \in [Paths -> 0..MaxPage] BY <1>1, <2>1
  <2>4. /\ P \in [Paths -> (SUBSET Paths) \cup {None}]
        /\ P[p] = {} /\ \A q \in Paths \ {p} : P[q] = st.pending[q]
    BY <1>1, <2>1
  <2>5. QED BY <2>2, <2>3, <2>4
<1> HIDE DEF C, D, P
<1>7. /\ fresh \in StateSet /\ fresh.acc = C /\ fresh.pending = P
      /\ fresh.parent = st.parent /\ fresh.dirty = st.dirty
  <2>1. fresh.acc = C /\ fresh.pending = P /\ fresh.parent = st.parent /\ fresh.dirty = st.dirty
    BY <1>1, <1>4 DEF StateSet
  <2>2. st.abandoned \ {p} \in SUBSET Paths BY <1>1 DEF StateSet
  <2>3. fresh \in StateSet BY <1>1, <1>4, <1>6, <2>2 DEF StateSet
  <2>4. QED BY <2>1, <2>3
<1>8. Linked(fresh) BY <1>1, <1>2, <1>5, <1>6, <1>7 DEF Linked, Pending
<1>9. Grows(fresh, compared) /\ compared.acc[p] # None
  BY <1>1, <1>5, <1>6, <1>7, <1>8, NoteDiffGrows, GrowsSame
<1> HIDE DEF compared
<1>10. Grows(compared, marked) /\ marked.acc[p] # None
  <2>1. (Subfolders[p] = <<>>) \in BOOLEAN
    OBVIOUS
  <2>2. QED BY <1>1, <1>9, <2>1, MarkDirtyGrows DEF Grows, marked
<1>11. Grows(marked, Begun(w))
  BY <1>1, <1>3, <1>10, PropagateGrows DEF Grows
<1>12. Grows(fresh, Begun(w)) BY <1>9, <1>10, <1>11, GrowsFurther
<1>13. QED BY <1>1, <1>6, <1>7, <1>12 DEF Grows, Keeps, p

(* A whole listing. *)
LEMMA ListedIsLinked ==
  ASSUME Linked(st), GenTyped, NEW w \in Workers, Doing(w) \in Paths, ~CalledOff(w),
         Epoch(w) \in Epochs, worker[w].depth \in 0..DepthCap,
         worker[w].seen \in [Kids(Doing(w)) -> Record \cup {None}],
         inProgress \in [Paths -> 0..MaxPage], queue \in JobBags
  PROVE  Listed(w) \in Adding /\ Linked(Listed(w).s)
<1> DEFINE p == Doing(w)
           L == Subfolders[p]
           n == Len(L)
           d == IF worker[w].depth < DepthCap THEN worker[w].depth + 1 ELSE DepthCap
           At0 == [s |-> Begun(w), owned |-> inProgress, q |-> queue]
           A == [i \in 0..n |-> {x \in Adding : Grows(Begun(w), x.s)}]
<1>1. L \in Seq(Paths) /\ n \in Nat /\ DOMAIN L = 1..n
  BY TreeShape, LenProperties
<1>2. Linked(Begun(w)) /\ Begun(w).pending[p] \in SUBSET Paths
  BY BegunIsLinked
<1>3. d \in 0..DepthCap BY BoundsAndPages
<1>4. At0 \in A[0]
  <2>1. At0 \in Adding BY <1>2 DEF Adding, Linked
  <2>2. QED BY <1>1, <1>2, <2>1, GrowsSame
<1>5. ASSUME NEW i \in 1..n, NEW v \in A[i - 1]
      PROVE  AddSubfolder(v, p, L[i], Epoch(w), worker[w].seen, d) \in A[i]
  <2>1. i \in 0..n /\ i - 1 \in 0..n /\ L[i] \in Kids(p)
    BY <1>1 DEF Kids, ToSet
  <2>2. v \in Adding /\ Grows(Begun(w), v.s) BY <2>1
  <2>3. worker[w].seen[L[i]] \in Record \cup {None} BY <2>1
  <2> HIDE DEF A, L, n, d
  <2> DEFINE y == AddSubfolder(v, p, L[i], Epoch(w), worker[w].seen, d)
  <2>4. v.s.pending[p] \in SUBSET Paths BY <1>2, <2>2 DEF Grows, Keeps
  <2>5. y \in Adding /\ Grows(v.s, y.s)
    BY <1>3, <2>1, <2>2, <2>3, <2>4, AddSubfolderGrows DEF Grows
  <2> HIDE DEF y
  <2>6. Grows(Begun(w), y.s) BY <2>2, <2>5, GrowsFurther
  <2>7. y \in A[i] BY <2>1, <2>5, <2>6 DEF A
  <2>8. QED BY <2>7 DEF y
<1> HIDE DEF A, d
<1>6. Listed(w) \in A[n] BY <1>1, <1>4, <1>5, AlongListed DEF d
<1>7. n \in 0..n BY <1>1
<1>8. QED BY <1>6, <1>7 DEF A, Grows

-----------------------------------------------------------------------------
(* The invariant *)

(* It holds initially. *)
LEMMA InitCache == Init => CacheInv
<1> SUFFICES ASSUME Init PROVE CacheInv
  OBVIOUS
<1>1. 0 \in 0..MaxPage /\ MaxPage \in Nat BY BoundsAndPages
<1>2. st \in StateSet BY <1>1 DEF Init, StateSet
<1>3. Linked(st) BY <1>2 DEF Init, Linked, Pending
<1>4. Published BY <1>3 DEF Init, Published, GenTyped
<1>5. queue \in JobBags
  <2>1. queue \in [{} -> Nat \ {0}] BY DEF Init, EmptyBag, SetToBag
  <2>2. QED BY <2>1 DEF JobBags
<1>6. Owned BY <1>1, <1>5 DEF Init, Owned
<1>7. Timed BY <1>1 DEF Init, Timed
<1>8. Working BY DEF Init, Working, Idle
<1>9. Browsing
  <2>1. DOMAIN client = Pages /\ \A k \in Pages : client[k] = Closed
    BY DEF Init
  <2>2. /\ DOMAIN Closed = TabFields /\ Closed.step = "off"
        /\ Closed.rows = <<>> /\ Closed.left = <<>>
    BY DEF Closed, TabFields
  <2>3. \A S : <<>> \in Seq(S)
    OBVIOUS
  <2>4. QED BY <2>1, <2>2, <2>3 DEF Browsing, Tab
<1>10. QED BY <1>4, <1>6, <1>7, <1>8, <1>9 DEF CacheInv

(* A linked state stays linked while no generation changes. *)
LEMMA LinkedNext ==
  ASSUME NEW x, Linked(x), st' = x, UNCHANGED generation
  PROVE  (Linked(st))'
  BY DEF Linked, Pending, StateSet, Top, Kids

(* So does what is known, while the disk does not change either. *)
LEMMA PublishedNext ==
  ASSUME Published, NEW x, Linked(x), st' = x, UNCHANGED <<generation, disk>>
  PROVE  Published'
<1>1. (Linked(st))' BY LinkedNext
<1>2. QED BY <1>1 DEF Published, GenTyped, Record, Top, Kids

(* The jobs stay jobs while the workers rest. *)
LEMMA WorkingNext == ASSUME Working, UNCHANGED worker PROVE Working'
  BY DEF Working, Employed, JobFields, Record, Kids, Epochs

(* Taking ownership of a folder. *)
LEMMA OwnKeeps ==
  ASSUME Owned, Timed, NEW p \in Paths, NEW t \in Epochs, NEW d \in 0..DepthCap, Own(p, t, d),
         clock' \in Int, clock' >= clock, clock' >= t, clock' <= MaxPage,
         UNCHANGED <<cooling, flushing, pageKey>>
  PROVE  Owned' /\ Timed'
<1>1. JobOf(p, t, d) \in Job BY DEF JobOf, Job, Epochs
<1>2. MaxPage \in Nat /\ t \in 0..MaxPage /\ t \in Int /\ t >= 1
  BY BoundsAndPages DEF Epochs
<1>3. Put(queue, JobOf(p, t, d)) \in JobBags /\ Put(Without(queue, p), JobOf(p, t, d)) \in JobBags
  BY <1>1, PutIsBag, WithoutIsBag DEF Owned
<1>4. inProgress' \in [Paths -> 0..MaxPage] BY <1>2 DEF Owned, Own
<1>5. queue' \in JobBags BY <1>3 DEF Owned, Own
<1>6. minPage' \in {minPage, Larger(minPage, t)} BY DEF Own
<1>7. minPage' \in 0..MaxPage /\ minPage' <= clock' /\ minPage' >= minPage
  BY <1>2, <1>6 DEF Timed, Larger
<1>8. Owned' BY <1>4, <1>5 DEF Owned, JobBags, Job
<1>9. Timed' BY <1>2, <1>7 DEF Timed
<1>10. QED BY <1>8, <1>9

(* request() of a folder for a page. *)
LEMMA RequestKeeps ==
  ASSUME Published, Owned, Timed, Working, NEW p \in Paths, NEW t \in Epochs,
         NEW d \in 0..DepthCap, Request(p, t, d),
         clock' \in Int, clock' >= clock, clock' >= t, clock' <= MaxPage
  PROVE  Published' /\ Owned' /\ Timed' /\ Working'
<1>1. PICK s \in {IF Awaits(st, p) THEN Repair(st, p) ELSE st} :
       \/ /\ Awaits(s, p)
          /\ st' = s
          /\ UNCHANGED <<inProgress, queue, minPage, flushing>>
       \/ /\ ~Awaits(s, p) /\ IsWhole(s, p)
          /\ st' = MarkDirty(s, p, TRUE)
          /\ flushing' = TRUE
          /\ UNCHANGED <<inProgress, queue, minPage>>
       \/ /\ ~Awaits(s, p) /\ ~IsWhole(s, p)
          /\ st' = IF s.direct[p] # 0 THEN Restarted(s, p) ELSE s
          /\ Own(p, t, d)
          /\ UNCHANGED flushing
  BY DEF Request
<1>2. UNCHANGED <<generation, worker, disk, cooling, pageKey, mishaps>>
  BY DEF Request
<1>3. Linked(s) BY <1>1, RepairGrows DEF Published, Grows
<1>4. Working' BY <1>2, WorkingNext
<1>5. CASE Awaits(s, p) /\ st' = s /\ UNCHANGED <<inProgress, queue, minPage, flushing>>
  <2>1. Published' BY <1>2, <1>3, <1>5, PublishedNext
  <2>2. Owned' BY <1>2, <1>5 DEF Owned, JobBags, Job
  <2>3. Timed' BY <1>2, <1>5 DEF Timed
  <2>4. QED BY <1>4, <2>1, <2>2, <2>3
<1>6. CASE /\ ~Awaits(s, p) /\ IsWhole(s, p) /\ st' = MarkDirty(s, p, TRUE)
           /\ flushing' = TRUE /\ UNCHANGED <<inProgress, queue, minPage>>
  <2>1. Linked(MarkDirty(s, p, TRUE))
    BY <1>3, <1>6, MarkDirtyGrows DEF IsWhole, Grows
  <2>2. Published' BY <1>2, <1>6, <2>1, PublishedNext
  <2>3. Owned' BY <1>2, <1>6 DEF Owned, JobBags, Job
  <2>4. Timed' BY <1>2, <1>6 DEF Timed
  <2>5. QED BY <1>4, <2>2, <2>3, <2>4
<1>7. CASE /\ ~Awaits(s, p) /\ ~IsWhole(s, p)
           /\ st' = IF s.direct[p] # 0 THEN Restarted(s, p) ELSE s
           /\ Own(p, t, d) /\ UNCHANGED flushing
  <2>1. Linked(Restarted(s, p)) BY <1>3, RestartedIsLinked
  <2>2. Published' BY <1>2, <1>3, <1>7, <2>1, PublishedNext
  <2>3. Owned' /\ Timed' BY <1>2, <1>7, OwnKeeps
  <2>4. QED BY <1>4, <2>2, <2>3
<1>8. QED BY <1>1, <1>5, <1>6, <1>7

-----------------------------------------------------------------------------
(* Requests *)

(* The page times a request can carry, none beyond MaxPage. *)
LEMMA EpochsForPage ==
  ASSUME Timed, NEW k \in Pages, NEW t \in EpochsFor(k)
  PROVE  /\ t \in Epochs
         /\ Larger(clock, t) \in Int /\ Larger(clock, t) >= clock /\ Larger(clock, t) >= t
         /\ Larger(clock, t) <= MaxPage
<1>1. k # None BY NoneApart, BoundsAndPages
<1>2. MaxPage \in Nat /\ clock \in Int /\ clock <= MaxPage /\ minPage \in 0..MaxPage
  BY BoundsAndPages DEF Timed
<1>3. t \in Epochs BY <1>1, <1>2 DEF Timed, EpochsFor, Epochs
<1>4. QED BY <1>2, <1>3 DEF Larger, Epochs

(* A request of a page's thread. *)
LEMMA RequestForKeeps ==
  ASSUME Published, Owned, Timed, Working, NEW k \in Pages, NEW p \in Paths,
         NEW d \in 0..DepthCap, RequestFor(k, p, d)
  PROVE  Published' /\ Owned' /\ Timed' /\ Working' /\ clock' \in Int /\ clock' >= clock
<1>1. PICK t \in EpochsFor(k) : Request(p, t, d) /\ clock' = Larger(clock, t)
  BY DEF RequestFor
<1>2. /\ t \in Epochs /\ clock' \in Int /\ clock' >= clock /\ clock' >= t /\ clock' <= MaxPage
  BY <1>1, EpochsForPage
<1>3. QED BY <1>1, <1>2, RequestKeeps

(* A step that leaves the cache alone. *)
LEMMA CacheUnchanged ==
  ASSUME Published, Owned, Timed, Working, UNCHANGED cacheVars
  PROVE  Published' /\ Owned' /\ Timed' /\ Working'
<1>1. (Linked(st))' BY LinkedNext DEF cacheVars, Published
<1>2. Published' BY <1>1 DEF Published, GenTyped, cacheVars
<1>3. Owned' BY DEF Owned, cacheVars
<1>4. Timed' BY DEF Timed, cacheVars
<1>5. QED BY <1>2, <1>3, <1>4, WorkingNext DEF cacheVars

(* What /folder-info asks for. *)
LEMMA AskKeeps ==
  ASSUME Published, Owned, Timed, Working, NEW k \in Pages, NEW p \in Paths, Ask(k, p)
  PROVE  Published' /\ Owned' /\ Timed' /\ Working' /\ clock' \in Int /\ clock' >= clock
<1>1. 0 \in 0..DepthCap /\ clock \in Int BY BoundsAndPages DEF Timed
<1>2. CASE RequestFor(k, p, 0) BY <1>1, <1>2, RequestForKeeps
<1>3. CASE UNCHANGED cacheVars BY <1>1, <1>3, CacheUnchanged DEF cacheVars
<1>4. QED BY <1>2, <1>3 DEF Ask

(* A tab whose step changes. *)
LEMMA OneTab ==
  ASSUME Browsing, clock \in Int, clock' \in Int, clock' >= clock, NEW k \in Pages, NEW c,
         client' = [client EXCEPT ![k] = c],
         DOMAIN c = TabFields, c.step \in {"off", "load", "show", "poll"},
         c.rows \in Seq(Kids(k)), c.left \in Seq({k} \cup Kids(k)),
         c.step = "load" => c.time \in 1..clock'
  PROVE  Browsing'
<1>1. DOMAIN client = Pages /\ \A j \in Pages : Tab(client[j], j)
  BY DEF Browsing
<1>2. client'[k] = c /\ \A j \in Pages \ {k} : client'[j] = client[j]
  BY <1>1
<1>3. \A j \in Pages \ {k} : (Tab(client[j], j))'
  <2>1. \A n \in 1..clock : n \in 1..clock'
    OBVIOUS
  <2>2. QED BY <1>1, <1>2, <2>1 DEF Tab, TabFields, Kids
<1>4. (Tab(client[k], k))' BY <1>2 DEF Tab, TabFields, Kids
<1>5. QED BY <1>1, <1>3, <1>4 DEF Browsing

(* The tabs stay tabs while time goes on. *)
LEMMA SameTabs ==
  ASSUME Browsing, UNCHANGED client, clock \in Int, clock' \in Int, clock' >= clock
  PROVE  Browsing'
<1>1. \A n \in 1..clock : n \in 1..clock'
  OBVIOUS
<1>2. QED BY <1>1 DEF Browsing, Tab, TabFields, Kids

(* What Keep keeps comes from its argument. *)
LEMMA KeepIsSubsequence ==
  ASSUME NEW R, NEW S, NEW seq, Len(seq) \in Nat,
         \A i \in 1..Len(seq) : seq[i] \in S => seq[i] \in R
  PROVE  Keep(seq, S) \in Seq(R)
<1> DEFINE n == Len(seq)
           A == [i \in 0..n |-> Seq(R)]
<1>1. <<>> \in A[0]
  OBVIOUS
<1>2. ASSUME NEW i \in 1..n, NEW v \in A[i - 1] PROVE KeepStep(S, v, seq[i]) \in A[i]
  <2>1. i - 1 \in 0..n /\ i \in 0..n
    OBVIOUS
  <2>2. v \in Seq(R) BY <2>1
  <2>3. seq[i] \in R => Append(v, seq[i]) \in Seq(R)
    BY <2>2, AppendProperties
  <2>4. KeepStep(S, v, seq[i]) \in Seq(R) BY <2>2, <2>3 DEF KeepStep
  <2>5. QED BY <2>1, <2>4
<1> HIDE DEF A
<1>3. Keep(seq, S) \in A[n] BY <1>1, <1>2, AlongKeep
<1>4. QED BY <1>3 DEF A

(* What the tab does next is a tab. *)
LEMMA RoundIsTab ==
  ASSUME NEW k \in Pages, NEW rows \in Seq(Kids(k)), NEW watch, NEW c, c = Round(k, rows, watch)
  PROVE  /\ DOMAIN c = TabFields /\ c.step \in {"off", "poll"}
         /\ c.rows \in Seq(Kids(k)) /\ c.left \in Seq({k} \cup Kids(k))
<1>1. Append(rows, k) \in Seq({k} \cup Kids(k))
  BY SeqMonotonic, AppendProperties
<1>2. \A S : <<>> \in Seq(S)
  OBVIOUS
<1>3. CASE rows = <<>> /\ ~watch
  <2>1. c = Closed BY <1>3 DEF Round
  <2>2. /\ DOMAIN Closed = TabFields /\ Closed.step = "off"
        /\ Closed.rows = <<>> /\ Closed.left = <<>>
    BY DEF Closed, TabFields
  <2>3. QED BY <1>2, <2>1, <2>2
<1>4. CASE ~(rows = <<>> /\ ~watch)
  <2> DEFINE l == Append(rows, k)
             o == rows # <<>>
  <2>1. c = [Closed EXCEPT !.step = "poll", !.rows = rows, !.left = l,
                           !.polled = o, !.watch = watch]
    BY <1>4 DEF Round
  <2> HIDE DEF l, o
  <2>2. DOMAIN c = TabFields /\ c.step = "poll" /\ c.rows = rows /\ c.left = l
    BY <2>1 DEF Closed, TabFields
  <2>3. QED BY <1>1, <2>2 DEF l
<1>5. QED BY <1>3, <1>4

-----------------------------------------------------------------------------
(* The browser tab *)

(* The user opens a page. *)
LEMMA OpenPageKeeps ==
  ASSUME CacheInv, NEW k \in Pages, NEW force \in BOOLEAN, OpenPage(k, force)
  PROVE  CacheInv'
<1>1. Published /\ Owned /\ Timed /\ Working /\ Browsing BY DEF CacheInv
<1>2. /\ clock < MaxPage /\ clock' = clock + 1
      /\ client' = [client EXCEPT ![k] = [Closed EXCEPT !.step = "load", !.time = clock']]
      /\ \/ minPage' = Larger(minPage, clock') /\ pageKey' = k
         \/ UNCHANGED <<minPage, pageKey>>
      /\ UNCHANGED <<st, inProgress, generation, queue, worker, disk, cooling, flushing, mishaps>>
  BY DEF OpenPage
<1>3. MaxPage \in Nat /\ clock \in Int /\ clock >= 0 /\ minPage \in 0..MaxPage /\ minPage <= clock
  BY <1>1, BoundsAndPages DEF Timed
<1>4. clock' \in Int /\ clock' >= clock /\ clock' <= MaxPage /\ clock' \in 1..clock'
  BY <1>2, <1>3
<1>5. Published' BY <1>1, <1>2, PublishedNext DEF Published
<1>6. Owned' BY <1>1, <1>2 DEF Owned, JobBags, Job
<1>7. Timed' BY <1>1, <1>2, <1>3, <1>4 DEF Timed, Larger
<1>8. Working' BY <1>1, <1>2, WorkingNext
<1>9. Browsing'
  <2> DEFINE t == clock'
             c == [Closed EXCEPT !.step = "load", !.time = t]
  <2>1. /\ DOMAIN c = TabFields /\ c.step = "load" /\ c.time = t
        /\ c.rows = <<>> /\ c.left = <<>>
    BY DEF Closed, TabFields
  <2>2. \A S : <<>> \in Seq(S)
    OBVIOUS
  <2>3. client' = [client EXCEPT ![k] = c] BY <1>2
  <2> HIDE DEF c, t
  <2>4. t = clock' BY DEF t
  <2>5. QED BY <1>1, <1>3, <1>4, <2>1, <2>2, <2>3, <2>4, OneTab
<1>10. QED BY <1>5, <1>6, <1>7, <1>8, <1>9 DEF CacheInv

(* The rest of the load. *)
LEMMA LoadCurrentKeeps ==
  ASSUME CacheInv, NEW k \in Pages, LoadCurrent(k)
  PROVE  CacheInv'
<1>1. Published /\ Owned /\ Timed /\ Working /\ Browsing BY DEF CacheInv
<1>2. k \in Paths /\ MaxPage \in Nat /\ clock \in Int /\ clock <= MaxPage /\ 0 \in 0..DepthCap
  BY <1>1, BoundsAndPages DEF Timed
<1>3. Tab(client[k], k) /\ client[k].step = "load"
  BY <1>1 DEF Browsing, LoadCurrent
<1>4. client[k].time \in Epochs /\ client[k].time <= clock
  BY <1>2, <1>3 DEF Tab, Epochs
<1>5. Published' /\ Owned' /\ Timed' /\ Working' /\ clock' = clock
  <2>1. CASE Request(k, client[k].time, 0) /\ UNCHANGED clock
    BY <1>1, <1>2, <1>4, <2>1, RequestKeeps
  <2>2. CASE UNCHANGED cacheVars BY <1>1, <2>2, CacheUnchanged DEF cacheVars
  <2>3. QED BY <2>1, <2>2 DEF LoadCurrent
<1>6. Browsing'
  <2> DEFINE c == [client[k] EXCEPT !.step = "show", !.time = 0]
  <2>1. client' = [client EXCEPT ![k] = c] BY <1>1 DEF LoadCurrent, Browsing
  <2>2. /\ DOMAIN c = TabFields /\ c.step = "show"
        /\ c.rows = client[k].rows /\ c.left = client[k].left
    BY <1>3 DEF Tab, TabFields
  <2> HIDE DEF c
  <2>3. clock' \in Int /\ clock' >= clock BY <1>2, <1>5
  <2>4. c.rows \in Seq(Kids(k)) /\ c.left \in Seq({k} \cup Kids(k))
    BY <1>3, <2>2 DEF Tab
  <2>5. QED BY <1>1, <1>2, <2>1, <2>2, <2>3, <2>4, OneTab
<1>7. QED BY <1>5, <1>6 DEF CacheInv

(* The page is shown. *)
LEMMA ShowPageKeeps ==
  ASSUME CacheInv, NEW k \in Pages, ShowPage(k)
  PROVE  CacheInv'
<1>1. Published /\ Owned /\ Timed /\ Working /\ Browsing BY DEF CacheInv
<1>2. UNCHANGED cacheVars BY DEF ShowPage
<1>3. Published' /\ Owned' /\ Timed' /\ Working' /\ clock' = clock /\ clock \in Int
  BY <1>1, <1>2, CacheUnchanged DEF cacheVars, Timed
<1> DEFINE open == {c \in Kids(k) : ~Complete(c)}
           rows == Keep(Subfolders[k], open)
           c == Round(k, rows, HasLocalRoot)
<1>4. rows \in Seq(Kids(k))
  <2>1. Len(Subfolders[k]) \in Nat
    BY BoundsAndPages, TreeShape, LenProperties
  <2>2. \A r \in open : r \in Kids(k)
    OBVIOUS
  <2> HIDE DEF open
  <2>3. QED BY <2>1, <2>2, KeepIsSubsequence
<1>5. client' = [client EXCEPT ![k] = c] BY DEF ShowPage
<1> HIDE DEF rows
<1>6. /\ DOMAIN c = TabFields /\ c.step \in {"off", "poll"}
      /\ c.rows \in Seq(Kids(k)) /\ c.left \in Seq({k} \cup Kids(k))
  BY <1>4, RoundIsTab
<1> HIDE DEF c
<1>7. clock' \in Int /\ clock' >= clock BY <1>3
<1>8. Browsing' BY <1>1, <1>3, <1>5, <1>6, <1>7, OneTab
<1>9. QED BY <1>3, <1>8 DEF CacheInv

(* A row is polled. *)
LEMMA PollRowKeeps ==
  ASSUME CacheInv, NEW k \in Pages, PollRow(k)
  PROVE  CacheInv'
<1>1. Published /\ Owned /\ Timed /\ Working /\ Browsing BY DEF CacheInv
<1>2. /\ Tab(client[k], k) /\ client[k].step = "poll" /\ Len(client[k].left) > 1
      /\ k \in Paths /\ clock \in Int
  BY <1>1, BoundsAndPages DEF Browsing, PollRow, Timed
<1> DEFINE left == client[k].left
           p == Head(left)
           kept == IF Status(p) = "complete" THEN Keep(client[k].rows, Kids(k) \ {p})
                   ELSE client[k].rows
           c == [client[k] EXCEPT !.left = Tail(left), !.rows = kept]
<1>3. left \in Seq({k} \cup Kids(k)) /\ left # <<>> BY <1>2 DEF Tab
<1>4. p \in {k} \cup Kids(k) /\ Tail(left) \in Seq({k} \cup Kids(k))
  BY <1>3, HeadTailProperties
<1>5. p \in Paths BY <1>2, <1>4, KidIsPath
<1>6. kept \in Seq(Kids(k))
  <2>1. client[k].rows \in Seq(Kids(k)) /\ Len(client[k].rows) \in Nat
    BY <1>2, LenProperties DEF Tab
  <2>2. Keep(client[k].rows, Kids(k) \ {p}) \in Seq(Kids(k))
    BY <2>1, KeepIsSubsequence
  <2>3. QED BY <2>1, <2>2
<1>7. client' = [client EXCEPT ![k] = c] BY <1>1 DEF PollRow, Browsing
<1>8. Ask(k, p) \/ UNCHANGED cacheVars BY DEF PollRow
<1> HIDE DEF kept, p, left
<1>9. DOMAIN c = TabFields /\ c.step = "poll" /\ c.rows = kept /\ c.left = Tail(left)
  BY <1>2 DEF Tab, TabFields
<1>10. Published' /\ Owned' /\ Timed' /\ Working' /\ clock' \in Int /\ clock' >= clock
  BY <1>1, <1>2, <1>5, <1>8, AskKeeps, CacheUnchanged DEF cacheVars
<1> HIDE DEF c
<1>11. Browsing' BY <1>1, <1>2, <1>4, <1>6, <1>7, <1>9, <1>10, OneTab
<1>12. QED BY <1>10, <1>11 DEF CacheInv

(* The page itself is polled. *)
LEMMA PollCurrentKeeps ==
  ASSUME CacheInv, NEW k \in Pages, PollCurrent(k)
  PROVE  CacheInv'
<1>1. Published /\ Owned /\ Timed /\ Working /\ Browsing BY DEF CacheInv
<1>2. Tab(client[k], k) /\ k \in Paths /\ clock \in Int
  BY <1>1, BoundsAndPages DEF Browsing, Timed
<1>3. Ask(k, k) \/ UNCHANGED cacheVars BY DEF PollCurrent
<1>4. Published' /\ Owned' /\ Timed' /\ Working' /\ clock' \in Int /\ clock' >= clock
  BY <1>1, <1>2, <1>3, AskKeeps, CacheUnchanged DEF cacheVars
<1>5. PICK watch : client' = [client EXCEPT ![k] = Round(k, client[k].rows, watch)]
  BY <1>1 DEF PollCurrent, Browsing
<1> DEFINE c == Round(k, client[k].rows, watch)
<1>6. client[k].rows \in Seq(Kids(k)) BY <1>2 DEF Tab
<1>7. /\ DOMAIN c = TabFields /\ c.step \in {"off", "poll"}
      /\ c.rows \in Seq(Kids(k)) /\ c.left \in Seq({k} \cup Kids(k))
  BY <1>6, RoundIsTab
<1>8. client' = [client EXCEPT ![k] = c] BY <1>5
<1> HIDE DEF c
<1>9. Browsing' BY <1>1, <1>2, <1>4, <1>7, <1>8, OneTab
<1>10. QED BY <1>4, <1>9 DEF CacheInv

(* ensure_known_subtree: the depth it counts is that of a folder below the *)
(* page. *)
LEMMA EnsureKnownKeeps ==
  ASSUME CacheInv, NEW k \in Pages, NEW p \in Paths, EnsureKnown(k, p)
  PROVE  CacheInv'
<1>1. Published /\ Owned /\ Timed /\ Working /\ Browsing BY DEF CacheInv
<1> DEFINE above == {q \in Below(k) : p \in Below(q)}
           depth == Cardinality(above) - 1
           d == IF depth <= DepthCap THEN depth ELSE DepthCap
<1>2. depth \in Nat
  <2>1. above \subseteq Paths BY DEF Below
  <2>2. IsFiniteSet(above) BY <2>1, TreeShape, FS_Subset
  <2>3. k \in above
    <3>1. k \in Paths BY BoundsAndPages
    <3>2. Lineage[k] \in Seq(Paths) /\ Len(Lineage[k]) >= 1 /\ Lineage[k][1] = k
      BY <3>1, LineageIsChain DEF Chain
    <3>3. k \in ToSet(Lineage[k]) BY <3>2, LenProperties DEF ToSet
    <3>4. QED BY <3>1, <3>3 DEF Below, EnsureKnown
  <2> HIDE DEF above
  <2>4. Cardinality(above) \in Nat /\ Cardinality(above) # 0
    BY <2>2, <2>3, FS_CardinalityType, FS_EmptySet
  <2>5. QED BY <2>4
<1>3. RequestFor(k, p, d) /\ UNCHANGED client BY DEF EnsureKnown
<1> HIDE DEF depth
<1>4. d \in 0..DepthCap BY <1>2, BoundsAndPages
<1> HIDE DEF d
<1>5. Published' /\ Owned' /\ Timed' /\ Working' /\ clock' \in Int /\ clock' >= clock
  BY <1>1, <1>3, <1>4, RequestForKeeps
<1>6. Browsing' BY <1>1, <1>3, <1>5, SameTabs DEF Timed
<1>7. QED BY <1>5, <1>6 DEF CacheInv

-----------------------------------------------------------------------------
(* Other threads *)

(* A cooldown ends. *)
LEMMA CoolDownKeeps ==
  ASSUME CacheInv, NEW p \in Paths, CoolDown(p)
  PROVE  CacheInv'
<1>1. Published /\ Owned /\ Timed /\ Working /\ Browsing BY DEF CacheInv
<1>2. /\ cooling' = cooling \ {p}
      /\ UNCHANGED <<st, inProgress, generation, queue, worker, disk, flushing, minPage,
                     pageKey, clock, client>>
  BY DEF CoolDown
<1>3. Published' BY <1>1, <1>2, PublishedNext DEF Published
<1>4. Owned' /\ Timed' BY <1>1, <1>2 DEF Owned, Timed, JobBags, Job
<1>5. Working' /\ Browsing' BY <1>1, <1>2, WorkingNext, SameTabs DEF Timed
<1>6. QED BY <1>3, <1>4, <1>5 DEF CacheInv

(* prime_direct_listing. *)
LEMMA PrimeKeeps ==
  ASSUME CacheInv, NEW p \in Paths, Prime(p)
  PROVE  CacheInv'
<1>1. Published /\ Owned /\ Timed /\ Working /\ Browsing BY DEF CacheInv
<1> DEFINE a == FreshAcc(p, None)
           x == SetAcc(st, p, a)
<1>2. /\ st' = MarkDirty(x, p, FALSE) /\ flushing' = TRUE
      /\ UNCHANGED <<inProgress, generation, queue, worker, disk, cooling, minPage, pageKey,
                     clock, client>>
  BY DEF Prime, SetAcc
<1>3. a \in Acc /\ a.gen = None
  BY <1>1, TotalsPositive DEF FreshAcc, Acc, Published, GenTyped
<1> HIDE DEF a
<1>4. Linked(x) /\ x.acc[p] # None
  BY <1>1, <1>3, SetAccGrows DEF Published, Grows
<1> HIDE DEF x
<1>5. Linked(MarkDirty(x, p, FALSE)) BY <1>4, MarkDirtyGrows DEF Grows
<1>6. Published' BY <1>1, <1>2, <1>5, PublishedNext
<1>7. Owned' /\ Timed' BY <1>1, <1>2 DEF Owned, Timed, JobBags, Job
<1>8. Working' /\ Browsing' BY <1>1, <1>2, WorkingNext, SameTabs DEF Timed
<1>9. QED BY <1>6, <1>7, <1>8 DEF CacheInv

(* invalidate: the record on disk goes with the generation. *)
LEMMA InvalidateKeeps ==
  ASSUME CacheInv, NEW p \in Paths, Invalidate(p)
  PROVE  CacheInv'
<1>1. Published /\ Owned /\ Timed /\ Working /\ Browsing BY DEF CacheInv
<1>2. /\ generation' = [generation EXCEPT ![p] = @ + 1] /\ st' = Forgotten(st, p)
      /\ cooling' = cooling \ {p} /\ disk' = [disk EXCEPT ![p] = None]
      /\ UNCHANGED <<inProgress, queue, worker, flushing, minPage, pageKey, clock, client>>
  BY DEF Invalidate
<1>3. (Linked(st))' BY <1>1, <1>2, ForgottenIsLinked DEF Published
<1>4. /\ generation' \in [Paths -> Nat]
      /\ \A q \in Paths \ {p} : generation'[q] = generation[q] /\ disk'[q] = disk[q]
      /\ disk' \in [Paths -> Record \cup {None}] /\ disk'[p] = None
  BY <1>1, <1>2 DEF Published, GenTyped
<1>5. \A q \in Paths : Top(q) /\ disk'[q] # None => disk'[q].gen \in {generation'[q], None}
  BY <1>1, <1>4 DEF Published
<1>6. Published'
  BY <1>3, <1>4, <1>5 DEF Published, GenTyped, Record, Top, Kids
<1>7. Owned' /\ Timed' BY <1>1, <1>2 DEF Owned, Timed, JobBags, Job
<1>8. Working' /\ Browsing' BY <1>1, <1>2, WorkingNext, SameTabs DEF Timed
<1>9. QED BY <1>6, <1>7, <1>8 DEF CacheInv

(* A dirty record is written; its generation is that of the record in *)
(* memory. *)
LEMMA FlushRecordKeeps ==
  ASSUME CacheInv, NEW p \in Paths, FlushRecord(p)
  PROVE  CacheInv'
<1>1. Published /\ Owned /\ Timed /\ Working /\ Browsing BY DEF CacheInv
<1> DEFINE r == [total |-> st.acc[p].total, diff |-> st.acc[p].diff, gen |-> st.acc[p].gen,
                 complete |-> st.dirty[p]]
           D == [st.dirty EXCEPT ![p] = None]
           x == [st EXCEPT !.dirty[p] = None]
<1>2. /\ st.dirty[p] # None /\ disk' = [disk EXCEPT ![p] = r] /\ st' = x
      /\ UNCHANGED <<inProgress, generation, queue, worker, cooling, flushing, minPage,
                     pageKey, clock, client>>
  BY DEF FlushRecord
<1>3. st \in StateSet /\ st.acc[p] # None
  BY <1>1, <1>2 DEF Published, Linked
<1>4. r \in Record /\ r.gen = st.acc[p].gen
  <2>1. st.dirty[p] \in BOOLEAN /\ st.acc[p] \in Acc
    BY <1>2, <1>3 DEF StateSet
  <2>2. QED BY <2>1 DEF Acc, Record
<1>5. Linked(x)
  <2>1. D \in [Paths -> BOOLEAN \cup {None}] /\ D[p] = None
        /\ \A q \in Paths \ {p} : D[q] = st.dirty[q]
    BY <1>3 DEF StateSet
  <2>2. x = [st EXCEPT !.dirty = D] BY <1>3 DEF StateSet
  <2> HIDE DEF D, x
  <2>3. /\ x \in StateSet /\ x.dirty = D /\ x.acc = st.acc /\ x.pending = st.pending
        /\ x.parent = st.parent
    BY <1>3, <2>1, <2>2 DEF StateSet
  <2>4. QED BY <1>1, <2>1, <2>3 DEF Published, Linked, Pending
<1> HIDE DEF r, x
<1>6. disk' \in [Paths -> Record \cup {None}] /\ disk'[p] = r
      /\ \A q \in Paths \ {p} : disk'[q] = disk[q]
  BY <1>1, <1>2, <1>4 DEF Published
<1>7. (Linked(st))' BY <1>2, <1>5, LinkedNext
<1>8. \A q \in Paths : Top(q) /\ disk'[q] # None => disk'[q].gen \in {generation[q], None}
  BY <1>1, <1>3, <1>4, <1>6 DEF Published, Linked
<1>9. Published'
  BY <1>1, <1>2, <1>6, <1>7, <1>8 DEF Published, GenTyped, Record, Top, Kids
<1>10. Owned' /\ Timed' BY <1>1, <1>2 DEF Owned, Timed, JobBags, Job
<1>11. Working' /\ Browsing' BY <1>1, <1>2, WorkingNext, SameTabs DEF Timed
<1>12. QED BY <1>9, <1>10, <1>11 DEF CacheInv

(* An HTTP thread's flush ends. *)
LEMMA HttpFlushEndsKeeps ==
  ASSUME CacheInv, HttpFlushEnds
  PROVE  CacheInv'
<1>1. Published /\ Owned /\ Timed /\ Working /\ Browsing BY DEF CacheInv
<1>2. /\ flushing' = FALSE
      /\ UNCHANGED <<st, inProgress, generation, queue, worker, disk, cooling, minPage,
                     pageKey, clock, client>>
  BY DEF HttpFlushEnds
<1>3. Published' BY <1>1, <1>2, PublishedNext DEF Published
<1>4. Owned' /\ Timed' BY <1>1, <1>2 DEF Owned, Timed, JobBags, Job
<1>5. Working' /\ Browsing' BY <1>1, <1>2, WorkingNext, SameTabs DEF Timed
<1>6. QED BY <1>3, <1>4, <1>5 DEF CacheInv

-----------------------------------------------------------------------------
(* Workers *)

(* A worker moves to another step of its job, or to none. *)
LEMMA OneWorker ==
  ASSUME Working, NEW w \in Workers, NEW rec, Moves(w, rec), rec = Idle \/ Employed(rec)
  PROVE  Working'
<1>1. DOMAIN worker = Workers /\ \A v \in Workers : worker[v].pc # "idle" => Employed(worker[v])
  BY DEF Working
<1>2. /\ DOMAIN worker' = Workers /\ worker'[w] = rec
      /\ \A v \in Workers \ {w} : worker'[v] = worker[v]
  BY <1>1 DEF Moves
<1>3. rec.pc # "idle" => Employed(rec) BY DEF Idle
<1>4. \A v \in Workers : worker'[v].pc # "idle" => Employed(worker'[v])
  BY <1>1, <1>2, <1>3
<1>5. \A r : Employed(r) => (Employed(r))'
  BY DEF Employed, JobFields, Record, Kids, Epochs
<1>6. QED BY <1>2, <1>4, <1>5 DEF Working, Employed, JobFields, Record, Kids, Epochs

(* A worker's step that leaves the accumulated state alone. *)
LEMMA WorkerKeeps ==
  ASSUME CacheInv, NEW w \in Workers, NEW rec, Moves(w, rec), rec = Idle \/ Employed(rec),
         UNCHANGED <<st, generation, disk, flushing, minPage, pageKey, clock, client>>,
         inProgress' \in [Paths -> 0..MaxPage], queue' \in JobBags, cooling' \subseteq Paths
  PROVE  CacheInv'
<1>1. Published /\ Owned /\ Timed /\ Working /\ Browsing BY DEF CacheInv
<1>2. Published' BY <1>1, PublishedNext DEF Published
<1>3. Owned' /\ Timed' BY <1>1 DEF Owned, Timed, JobBags, Job
<1>4. Working' /\ Browsing' BY <1>1, OneWorker, SameTabs DEF Timed
<1>5. QED BY <1>2, <1>3, <1>4 DEF CacheInv

(* A worker's step that rewrites the accumulated state. *)
LEMMA WorkerWrites ==
  ASSUME CacheInv, NEW w \in Workers, NEW rec, Moves(w, rec), Employed(rec),
         NEW x, Linked(x), st' = x,
         UNCHANGED <<generation, disk, cooling, flushing, minPage, pageKey, clock, client>>,
         inProgress' \in [Paths -> 0..MaxPage], queue' \in JobBags
  PROVE  CacheInv'
<1>1. Published /\ Owned /\ Timed /\ Working /\ Browsing BY DEF CacheInv
<1>2. Published' BY <1>1, PublishedNext
<1>3. Owned' /\ Timed' BY <1>1 DEF Owned, Timed, JobBags, Job
<1>4. Working' /\ Browsing' BY <1>1, OneWorker, SameTabs DEF Timed
<1>5. QED BY <1>2, <1>3, <1>4 DEF CacheInv

(* What is known of the job of a worker that has one. *)
LEMMA JobShape ==
  ASSUME CacheInv, NEW w \in Workers, worker[w].pc # "idle"
  PROVE  /\ Employed(worker[w]) /\ Doing(w) \in Paths /\ Epoch(w) \in Epochs
         /\ \A force : Employed(Finishing(w, force))
         /\ \A force : Employed([Finishing(w, force) EXCEPT !.seen = None])
<1>1. Employed(worker[w]) /\ inProgress \in [Paths -> 0..MaxPage] /\ MaxPage \in Nat
  BY BoundsAndPages DEF CacheInv, Working, Owned
<1>2. Doing(w) \in Paths BY <1>1 DEF Employed, Doing
<1>3. Epoch(w) \in Epochs
  <2>1. worker[w].epoch \in 1..MaxPage /\ inProgress[Doing(w)] \in 0..MaxPage
    BY <1>1, <1>2 DEF Employed, Epochs
  <2>2. QED BY <1>1, <2>1 DEF Epoch, Larger, Epochs
<1>4. ASSUME NEW force PROVE Employed(Finishing(w, force))
  BY <1>1 DEF Finishing, Employed, JobFields
<1>5. ASSUME NEW force PROVE Employed([Finishing(w, force) EXCEPT !.seen = None])
  <2> DEFINE rec == Finishing(w, force)
  <2>1. Employed(rec) /\ rec.pc = "final"
    BY <1>1, <1>4 DEF Finishing, Employed, JobFields
  <2> HIDE DEF rec
  <2>2. Employed([rec EXCEPT !.seen = None]) BY <2>1 DEF Employed, JobFields
  <2>3. QED BY <2>2 DEF rec
<1>6. QED BY <1>1, <1>2, <1>3, <1>4, <1>5

(* A job is taken. *)
LEMMA DequeueKeeps ==
  ASSUME CacheInv, NEW w \in Workers, Dequeue(w)
  PROVE  CacheInv'
<1>1. queue \in JobBags /\ inProgress \in [Paths -> 0..MaxPage] /\ cooling \subseteq Paths
  BY DEF CacheInv, Owned
<1> DEFINE Taken(j) == [pc |-> "got", path |-> j.path, epoch |-> j.epoch, depth |-> j.depth,
                        claimed |-> FALSE, force |-> FALSE, gen |-> 0, seen |-> None]
<1>2. PICK j \in DOMAIN queue : queue' = queue (-) SetToBag({j}) /\ Moves(w, Taken(j))
  BY DEF Dequeue
<1>3. j \in Job BY <1>1 DEF JobBags
<1>4. Employed(Taken(j)) BY <1>3 DEF Employed, JobFields, Job, Epochs
<1>5. queue' \in JobBags BY <1>1, <1>2, TakenIsBag
<1>6. UNCHANGED <<st, inProgress, generation, disk, cooling, flushing, minPage, pageKey,
                  clock, client>>
  BY DEF Dequeue
<1> HIDE DEF Taken
<1>7. QED BY <1>1, <1>2, <1>4, <1>5, <1>6, WorkerKeeps

(* The worker loop's first locked section. *)
LEMMA ClaimKeeps ==
  ASSUME CacheInv, NEW w \in Workers, Claim(w)
  PROVE  CacheInv'
<1>1. queue \in JobBags /\ inProgress \in [Paths -> 0..MaxPage] /\ cooling \subseteq Paths
  BY DEF CacheInv, Owned
<1>2. worker[w].pc = "got" BY DEF Claim, At
<1>3. Employed(worker[w]) /\ Epoch(w) \in Epochs BY <1>2, JobShape
<1> DEFINE skip(pc) == [worker[w] EXCEPT !.pc = pc]
           take == [worker[w] EXCEPT !.pc = "list", !.epoch = Epoch(w),
                                     !.claimed = TRUE, !.gen = generation[Doing(w)]]
<1>4. \/ \E pc \in {"flush", "stale", "done"} : Moves(w, skip(pc))
      \/ Moves(w, take)
  BY DEF Claim
<1>5. \A pc \in {"flush", "stale", "done"} : Employed(skip(pc))
  BY <1>3 DEF Employed, JobFields
<1>6. Employed(take) BY <1>3 DEF Employed, JobFields
<1>7. UNCHANGED <<st, inProgress, generation, queue, disk, cooling, flushing, minPage, pageKey,
                  clock, client>>
  BY DEF Claim
<1> HIDE DEF skip, take
<1>8. QED BY <1>1, <1>4, <1>5, <1>6, <1>7, WorkerKeeps

(* _cancel_queued_job. *)
LEMMA SkipStaleKeeps ==
  ASSUME CacheInv, NEW w \in Workers, SkipStale(w)
  PROVE  CacheInv'
<1>1. queue \in JobBags /\ inProgress \in [Paths -> 0..MaxPage] /\ Linked(st) /\ MaxPage \in Nat
  BY BoundsAndPages DEF CacheInv, Owned, Published
<1>2. worker[w].pc = "stale" BY DEF SkipStale, At
<1>3. Doing(w) \in Paths /\ Employed(Finishing(w, TRUE)) BY <1>2, JobShape
<1>4. inProgress' \in [Paths -> 0..MaxPage] BY <1>1, <1>3 DEF SkipStale
<1>5. Linked(MarkAbandoned(st, Doing(w)))
  BY <1>1, <1>3, MarkAbandonedGrows DEF Grows
<1>6. st' = MarkAbandoned(st, Doing(w)) /\ Moves(w, Finishing(w, TRUE))
      /\ UNCHANGED <<generation, queue, disk, cooling, flushing, minPage, pageKey, clock,
                     client>>
  BY DEF SkipStale
<1>7. QED BY <1>1, <1>3, <1>4, <1>5, <1>6, WorkerWrites

(* The folder was already done for the page. *)
LEMMA SkipDoneKeeps ==
  ASSUME CacheInv, NEW w \in Workers, SkipDone(w)
  PROVE  CacheInv'
<1>1. queue \in JobBags /\ inProgress \in [Paths -> 0..MaxPage] /\ Linked(st) /\ GenTyped
  BY DEF CacheInv, Owned, Published
<1>2. worker[w].pc = "done" BY DEF SkipDone, At
<1>3. Doing(w) \in Paths /\ Employed(Finishing(w, FALSE)) BY <1>2, JobShape
<1>4. Linked(Repair(st, Doing(w))) BY <1>1, <1>3, RepairGrows DEF Grows
<1>5. st' = Repair(st, Doing(w)) /\ Moves(w, Finishing(w, FALSE))
      /\ UNCHANGED <<inProgress, generation, queue, disk, cooling, flushing, minPage, pageKey,
                     clock, client>>
  BY DEF SkipDone
<1>6. QED BY <1>1, <1>3, <1>4, <1>5, WorkerWrites

(* The listing, and the records read beside it. *)
LEMMA ListKeeps ==
  ASSUME CacheInv, NEW w \in Workers, List(w)
  PROVE  CacheInv'
<1>1. /\ queue \in JobBags /\ inProgress \in [Paths -> 0..MaxPage] /\ cooling \subseteq Paths
      /\ disk \in [Paths -> Record \cup {None}]
  BY DEF CacheInv, Owned, Published
<1>2. worker[w].pc = "list" BY DEF List, At
<1>3. Employed(worker[w]) /\ Doing(w) \in Paths BY <1>2, JobShape
<1> DEFINE seen == [c \in Kids(Doing(w)) |-> disk[c]]
           rec == [worker[w] EXCEPT !.pc = "commit", !.seen = seen]
<1>4. seen \in [Kids(worker[w].path) -> Record \cup {None}]
  BY <1>1, <1>3, KidIsPath DEF Doing
<1>5. /\ Moves(w, rec) /\ cooling' = cooling \ {Doing(w)}
      /\ UNCHANGED <<st, inProgress, generation, queue, disk, flushing, minPage, pageKey,
                     clock, client>>
  BY DEF List
<1> HIDE DEF seen
<1>6. Employed(rec) BY <1>3, <1>4 DEF Employed, JobFields
<1> HIDE DEF rec
<1>7. QED BY <1>1, <1>5, <1>6, WorkerKeeps

(* A listing that failed or was overtaken. *)
LEMMA ListStopsKeeps ==
  ASSUME CacheInv, NEW w \in Workers, ListFails(w) \/ ListSuperseded(w)
  PROVE  CacheInv'
<1>1. queue \in JobBags /\ inProgress \in [Paths -> 0..MaxPage] /\ cooling \subseteq Paths
  BY DEF CacheInv, Owned
<1>2. worker[w].pc = "list" BY DEF ListFails, ListSuperseded, At
<1>3. Doing(w) \in Paths /\ Employed(Finishing(w, TRUE)) BY <1>2, JobShape
<1>4. /\ Moves(w, Finishing(w, TRUE)) /\ cooling' \in {cooling, cooling \cup {Doing(w)}}
      /\ UNCHANGED <<st, inProgress, generation, queue, disk, flushing, minPage, pageKey,
                     clock, client>>
  BY DEF ListFails, ListSuperseded
<1>5. cooling' \subseteq Paths BY <1>1, <1>3, <1>4
<1>6. QED BY <1>1, <1>3, <1>4, <1>5, WorkerKeeps

(* An exception: the folder counts as empty. *)
LEMMA JobFailsKeeps ==
  ASSUME CacheInv, NEW w \in Workers, JobFails(w)
  PROVE  CacheInv'
<1>1. /\ queue \in JobBags /\ inProgress \in [Paths -> 0..MaxPage] /\ cooling \subseteq Paths
      /\ Linked(st) /\ GenTyped
  BY DEF CacheInv, Owned, Published
<1>2. worker[w].pc = "list" BY DEF JobFails, At
<1>3. /\ Doing(w) \in Paths /\ Epoch(w) \in Epochs
      /\ Employed(Finishing(w, TRUE)) /\ Employed(Finishing(w, FALSE))
  BY <1>2, JobShape
<1>4. UNCHANGED <<inProgress, generation, queue, disk, cooling, flushing, minPage, pageKey,
                  clock, client>>
  BY DEF JobFails
<1> DEFINE p == Doing(w)
           new == [total |-> 0, gen |-> generation[p],
                   diff |-> IF HasLocalRoot THEN "diff" ELSE "unavailable"]
           a == IF st.acc[p] # None THEN st.acc[p] ELSE new
           s == WithRecord(st, p, a, Epoch(w))
           m == MarkDirty(s, p, TRUE)
           u == Propagate(m, p)
<1>5. CASE CalledOff(w)
  <2>1. UNCHANGED st /\ Moves(w, Finishing(w, TRUE)) BY <1>5 DEF JobFails
  <2>2. QED BY <1>1, <1>3, <1>4, <2>1, WorkerKeeps
<1>6. CASE ~CalledOff(w)
  <2>1. st' = OnSubtreeComplete(u, p) /\ Moves(w, Finishing(w, FALSE))
    <3>1. s = [st EXCEPT !.acc[p] = IF @ # None THEN @ ELSE new, !.direct[p] = Epoch(w),
                         !.pending[p] = Pending(st, p)]
      BY DEF WithRecord
    <3>2. QED BY <1>6, <3>1 DEF JobFails
  <2>2. a \in Acc /\ (Top(p) => a.gen \in {generation[p], None})
    <3>1. generation[p] \in Nat BY <1>1, <1>3 DEF GenTyped
    <3>2. new \in Acc /\ new.gen = generation[p] BY <3>1 DEF Acc
    <3> HIDE DEF new
    <3>3. st.acc[p] \in Acc \cup {None} BY <1>1, <1>3 DEF Linked, StateSet
    <3>4. QED BY <1>1, <1>3, <3>2, <3>3 DEF Linked
  <2> HIDE DEF a
  <2>3. Linked(s) /\ s.acc[p] # None
    BY <1>1, <1>3, <2>2, RecordGrows DEF Grows
  <2> HIDE DEF s
  <2>4. Linked(m) /\ m.acc[p] # None BY <1>3, <2>3, MarkDirtyGrows DEF Grows
  <2> HIDE DEF m
  <2>5. Linked(u) BY <1>3, <2>4, PropagateGrows DEF Grows
  <2> HIDE DEF u
  <2>6. Linked(OnSubtreeComplete(u, p))
    BY <1>1, <1>3, <2>5, OnSubtreeCompleteGrows DEF Grows
  <2>7. QED BY <1>1, <1>3, <1>4, <2>1, <2>6, WorkerWrites
<1>7. QED BY <1>5, <1>6

(* _compute's locked section, which an invalidation since the claim calls *)
(* off. *)
LEMMA CommitKeeps ==
  ASSUME CacheInv, NEW w \in Workers, Commit(w)
  PROVE  CacheInv'
<1>1. /\ queue \in JobBags /\ inProgress \in [Paths -> 0..MaxPage] /\ cooling \subseteq Paths
      /\ Linked(st) /\ GenTyped
  BY DEF CacheInv, Owned, Published
<1>2. worker[w].pc = "commit" BY DEF Commit, At
<1> DEFINE Ended(force) == [Finishing(w, force) EXCEPT !.seen = None]
<1>3. /\ Doing(w) \in Paths /\ Epoch(w) \in Epochs /\ Employed(worker[w])
      /\ Employed(Ended(TRUE)) /\ Employed(Ended(FALSE))
  BY <1>2, JobShape
<1>4. UNCHANGED <<generation, disk, cooling, flushing, minPage, pageKey, clock, client>>
  BY DEF Commit
<1>5. CASE CalledOff(w)
  <2>1. UNCHANGED <<st, inProgress, queue>> /\ Moves(w, Ended(TRUE))
    BY <1>5 DEF Commit
  <2> HIDE DEF Ended
  <2>2. QED BY <1>1, <1>3, <1>4, <2>1, WorkerKeeps
<1>6. CASE ~CalledOff(w)
  <2> DEFINE x == Listed(w)
  <2>1. /\ st' = MaybeComplete(x.s, Doing(w)) /\ inProgress' = x.owned /\ queue' = x.q
        /\ Moves(w, Ended(FALSE))
    BY <1>6 DEF Commit
  <2> HIDE DEF Ended
  <2>2. /\ worker[w].depth \in 0..DepthCap
        /\ worker[w].seen \in [Kids(Doing(w)) -> Record \cup {None}]
    BY <1>2, <1>3 DEF Employed, Doing
  <2>3. x \in Adding /\ Linked(x.s)
    BY <1>1, <1>3, <1>6, <2>2, ListedIsLinked
  <2> HIDE DEF x
  <2>4. inProgress' \in [Paths -> 0..MaxPage] /\ queue' \in JobBags
    BY <2>1, <2>3 DEF Adding
  <2>5. Linked(MaybeComplete(x.s, Doing(w)))
    BY <1>1, <1>3, <2>3, MaybeCompleteGrows DEF Grows
  <2>6. QED BY <1>3, <1>4, <2>1, <2>4, <2>5, WorkerWrites
<1>7. QED BY <1>5, <1>6

(* The finally block. *)
LEMMA FinishKeeps ==
  ASSUME CacheInv, NEW w \in Workers, Finish(w)
  PROVE  CacheInv'
<1>1. /\ queue \in JobBags /\ inProgress \in [Paths -> 0..MaxPage] /\ cooling \subseteq Paths
      /\ MaxPage \in Nat
  BY BoundsAndPages DEF CacheInv, Owned
<1>2. worker[w].pc = "final" BY DEF Finish, At
<1>3. Doing(w) \in Paths /\ Employed(worker[w]) BY <1>2, JobShape
<1> DEFINE rec == [worker[w] EXCEPT !.pc = "flush", !.claimed = FALSE]
<1>4. Employed(rec) BY <1>3 DEF Employed, JobFields
<1>5. /\ Moves(w, rec)
      /\ UNCHANGED <<st, generation, queue, disk, cooling, flushing, minPage, pageKey, clock,
                     client>>
  BY DEF Finish
<1>6. inProgress' \in [Paths -> 0..MaxPage] BY <1>1, <1>3 DEF Finish
<1> HIDE DEF rec
<1>7. QED BY <1>1, <1>4, <1>5, <1>6, WorkerKeeps

(* The worker's flush ends. *)
LEMMA FlushEndsKeeps ==
  ASSUME CacheInv, NEW w \in Workers, FlushEnds(w)
  PROVE  CacheInv'
<1>1. queue \in JobBags /\ inProgress \in [Paths -> 0..MaxPage] /\ cooling \subseteq Paths
  BY DEF CacheInv, Owned
<1>2. /\ Moves(w, Idle)
      /\ UNCHANGED <<st, inProgress, generation, queue, disk, cooling, flushing, minPage,
                     pageKey, clock, client>>
  BY DEF FlushEnds
<1>3. QED BY <1>1, <1>2, WorkerKeeps

(* Every step keeps the invariant. *)
LEMMA CacheStep == CacheInv /\ [Next]_vars => CacheInv'
<1> SUFFICES ASSUME CacheInv, [Next]_vars PROVE CacheInv'
  OBVIOUS
<1>1. ASSUME NEW k \in Pages, NEW force \in BOOLEAN, OpenPage(k, force) PROVE CacheInv'
  BY <1>1, OpenPageKeeps
<1>2. ASSUME NEW k \in Pages, Browser(k) PROVE CacheInv'
  BY <1>2, LoadCurrentKeeps, ShowPageKeeps, PollRowKeeps, PollCurrentKeeps DEF Browser
<1>3. ASSUME NEW k \in Pages, NEW p \in Paths, EnsureKnown(k, p) PROVE CacheInv'
  BY <1>3, EnsureKnownKeeps
<1>4. ASSUME NEW p \in Paths, CoolDown(p) \/ Prime(p) \/ Invalidate(p) \/ FlushRecord(p)
      PROVE  CacheInv'
  BY <1>4, CoolDownKeeps, PrimeKeeps, InvalidateKeeps, FlushRecordKeeps
<1>5. CASE HttpFlushEnds BY <1>5, HttpFlushEndsKeeps
<1>6. ASSUME NEW w \in Workers, WorkerStep(w) PROVE CacheInv'
  <2>1. CASE Dequeue(w) \/ Claim(w) \/ SkipStale(w) \/ SkipDone(w)
    BY <2>1, DequeueKeeps, ClaimKeeps, SkipStaleKeeps, SkipDoneKeeps
  <2>2. CASE List(w) \/ ListFails(w) \/ ListSuperseded(w) \/ JobFails(w)
    BY <2>2, ListKeeps, ListStopsKeeps, JobFailsKeeps
  <2>3. CASE Commit(w) \/ Finish(w) \/ FlushEnds(w)
    BY <2>3, CommitKeeps, FinishKeeps, FlushEndsKeeps
  <2>4. QED BY <1>6, <2>1, <2>2, <2>3 DEF WorkerStep
<1>7. CASE UNCHANGED vars
  <2>1. Published /\ Owned /\ Timed /\ Working /\ Browsing BY DEF CacheInv
  <2>2. Published' /\ Owned' /\ Timed' /\ Working' /\ UNCHANGED <<client, clock>>
    BY <1>7, <2>1, CacheUnchanged DEF vars, cacheVars
  <2>3. QED BY <2>1, <2>2, SameTabs DEF CacheInv, Timed
<1>8. QED BY <1>1, <1>2, <1>3, <1>4, <1>5, <1>6, <1>7 DEF Next

(* The invariant holds in every reachable state. *)
THEOREM CacheInvHolds == Spec => []CacheInv
  BY InitCache, CacheStep, PTL DEF Spec

(* Every variable has its type, and a dirty mark is of a record in memory, *)
(* in every reachable state: _flush_dirty_cache_writes finds what it is to *)
(* write. *)
THEOREM CacheTypeCorrect == Spec => []TypeOK
<1>1. CacheInv => TypeOK
  <2> SUFFICES ASSUME CacheInv PROVE TypeOK
    OBVIOUS
  <2>1. /\ st \in StateSet /\ GenTyped /\ disk \in [Paths -> Record \cup {None}]
        /\ \A p \in Paths : st.dirty[p] # None => st.acc[p] # None
    BY DEF CacheInv, Published, Linked
  <2>2. /\ st.acc \in [Paths -> Acc \cup {None}] /\ st.direct \in [Paths -> 0..MaxPage]
        /\ st.pending \in [Paths -> (SUBSET Paths) \cup {None}]
        /\ st.parent \in [Paths -> Paths \cup {None}] /\ st.contrib \in [Paths -> Int]
        /\ st.abandoned \subseteq Paths
        /\ \A p \in Paths : st.dirty[p] # None => st.dirty[p] \in BOOLEAN /\ st.acc[p] # None
    BY <2>1 DEF StateSet
  <2>3. DOMAIN queue \subseteq Job BY DEF CacheInv, Owned, JobBags
  <2>4. \A k \in Pages :
          /\ client[k].step \in {"off", "load", "show", "poll"}
          /\ client[k].rows \in Seq(Kids(k)) /\ client[k].left \in Seq({k} \cup Kids(k))
    BY DEF CacheInv, Browsing, Tab
  <2>5. QED BY <2>1, <2>2, <2>3, <2>4 DEF CacheInv, Owned, Timed, GenTyped, TypeOK
<1>2. QED BY CacheInvHolds, <1>1, PTL

(* A child that its parent waits for knows that parent (_parent and *)
(* _pending_children agree), whatever was invalidated, restarted or *)
(* repaired. *)
THEOREM ChildrenStayLinked == Spec => []PendingLinked
<1>1. CacheInv => PendingLinked
  BY DEF CacheInv, Published, Linked, PendingLinked
<1>2. QED BY CacheInvHolds, <1>1, PTL

(* What is known of a top folder, in memory and on disk, was listed after *)
(* its last invalidation (the generation checks of _compute and of the *)
(* retry loop). *)
THEOREM RootStaysCurrent == Spec => []RootIsCurrent
<1>1. ASSUME NEW p \in Paths, Len(Lineage[p]) = 1 PROVE Top(p)
  BY <1>1, LineageIsChain DEF Chain, Top
<1>2. CacheInv => RootIsCurrent
  BY <1>1 DEF CacheInv, Published, Linked, RootIsCurrent
<1>3. QED BY CacheInvHolds, <1>2, PTL

-----------------------------------------------------------------------------
(* Listed folders are settled *)

(* With fewer exceptions it holds with more. *)
LEMMA SettledMore ==
  ASSUME NEW s, NEW E, NEW F, E \subseteq F, Settled(s, E)
  PROVE  Settled(s, F)
  BY DEF Settled

(* A folder that is decided or still waits is no exception. *)
LEMMA SettledBut ==
  ASSUME NEW s, NEW E, NEW q, Settled(s, E),
         s.direct[q] = 0 \/ Pending(s, q) # {} \/ ~Undecided(s, q)
  PROVE  Settled(s, E \ {q})
  BY DEF Settled

(* A listed folder that waits for nothing is whole. *)
LEMMA SettledIsWhole ==
  ASSUME NEW s, NEW E, Settled(s, E), NEW p \in Paths, p \notin E,
         s.direct[p] # 0, Pending(s, p) = {}
  PROVE  IsWhole(s, p)
  BY DEF Settled, IsWhole, Undecided

(* A dirty mark that is allowed. *)
LEMMA MarkDirtySettles ==
  ASSUME NEW s, Linked(s), NEW E, Settled(s, E), NEW p \in Paths, s.acc[p] # None,
         NEW c \in BOOLEAN,
         c = TRUE => s.direct[p] # 0 /\ (Undecided(s, p) => p \in E /\ Pending(s, p) = {})
  PROVE  /\ Settled(MarkDirty(s, p, c), E)
         /\ SameLists(s, MarkDirty(s, p, c))
         /\ MarkDirty(s, p, c).acc = s.acc
         /\ \A q \in Paths \ {p} : MarkDirty(s, p, c).dirty[q] = s.dirty[q]
         /\ c = FALSE /\ s.dirty[p] # TRUE => MarkDirty(s, p, c).dirty[p] # TRUE
<1> DEFINE x == MarkDirty(s, p, c)
           b == c \/ (s.dirty[p] # None /\ s.dirty[p])
<1>1. s \in StateSet BY DEF Linked
<1>2. x = [s EXCEPT !.dirty = [s.dirty EXCEPT ![p] = b]]
  BY <1>1 DEF MarkDirty, StateSet
<1>3. s.dirty[p] \in BOOLEAN \cup {None} BY <1>1 DEF StateSet
<1>4. b \in BOOLEAN /\ (b = TRUE => c = TRUE \/ s.dirty[p] = TRUE) BY <1>3
<1> HIDE DEF b, x
<1>5. /\ x.acc = s.acc /\ x.pending = s.pending /\ x.direct = s.direct /\ x.abandoned = s.abandoned
      /\ x.parent = s.parent /\ x.dirty[p] = b /\ \A q \in Paths \ {p} : x.dirty[q] = s.dirty[q]
  BY <1>1, <1>2 DEF StateSet
<1>6. \A q \in Paths : Undecided(x, q) = Undecided(s, q) /\ Pending(x, q) = Pending(s, q)
  BY <1>5 DEF Undecided, Pending
<1>7. \A q \in Paths : WholeMark(x, q) => WholeMark(s, q) \/ (q = p /\ c = TRUE)
  BY <1>4, <1>5 DEF WholeMark
<1>8. Settled(x, E) BY <1>5, <1>6, <1>7 DEF Settled
<1>9. c = FALSE /\ s.dirty[p] # TRUE => x.dirty[p] # TRUE BY <1>4, <1>5
<1>10. QED BY <1>5, <1>8, <1>9 DEF x, SameLists

(* A step that decides some folders and takes no record away. *)
LEMMA DecidingSettles ==
  ASSUME NEW s, NEW E, Settled(s, E), NEW x,
         x.abandoned = s.abandoned, x.direct = s.direct, x.pending = s.pending, x.dirty = s.dirty,
         \A q \in Paths : s.acc[q] # None => x.acc[q] # None,
         \A q \in Paths : Undecided(x, q) => Undecided(s, q)
  PROVE  Settled(x, E)
<1>1. \A q \in Paths : Pending(x, q) = Pending(s, q) /\ WholeMark(x, q) = WholeMark(s, q)
  BY DEF Pending, WholeMark
<1>2. QED BY <1>1 DEF Settled

(* A diff status other than "loading". *)
LEMMA SetDiffSettles ==
  ASSUME NEW s, Linked(s), NEW E, Settled(s, E), NEW p \in Paths, s.acc[p] # None,
         NEW d \in Diffs, d # "loading", NEW x, x = SetDiff(s, p, d)
  PROVE  /\ Settled(x, E) /\ ~Undecided(x, p) /\ x.direct = s.direct /\ x.parent = s.parent
         /\ x.pending = s.pending /\ x.dirty = s.dirty
<1> DEFINE a == [s.acc[p] EXCEPT !.diff = d]
<1>1. s \in StateSet BY DEF Linked
<1>2. a \in Acc /\ a.diff = d BY <1>1, AccShape DEF Acc
<1>3. x = [s EXCEPT !.acc = [s.acc EXCEPT ![p] = a]]
  BY <1>1 DEF StateSet, SetDiff
<1>4. a # None BY <1>2, NoneApart
<1> HIDE DEF a
<1>5. /\ x.pending = s.pending /\ x.direct = s.direct /\ x.abandoned = s.abandoned
      /\ x.parent = s.parent /\ x.dirty = s.dirty
      /\ x.acc[p] = a /\ \A q \in Paths \ {p} : x.acc[q] = s.acc[q]
  BY <1>1, <1>3 DEF StateSet
<1>6. \A q \in Paths : /\ s.acc[q] # None => x.acc[q] # None
                       /\ Undecided(x, q) => Undecided(s, q) /\ q # p
  BY <1>2, <1>4, <1>5 DEF Undecided
<1>7. Settled(x, E) BY <1>5, <1>6, DecidingSettles
<1>8. QED BY <1>5, <1>6, <1>7

(* _note_diff. *)
LEMMA NoteDiffSettles ==
  ASSUME NEW s, Linked(s), NEW E, Settled(s, E), NEW p \in Paths, NEW x, x = NoteDiff(s, p)
  PROVE  /\ Settled(x, E) /\ ~Undecided(x, p) /\ x.direct = s.direct /\ x.parent = s.parent
         /\ x.pending = s.pending /\ x.dirty = s.dirty
<1>1. CASE s.acc[p] = None
  <2> DEFINE a == [total |-> 0, diff |-> "diff", gen |-> generation[p]]
  <2>1. s \in StateSet BY DEF Linked
  <2>2. x = [s EXCEPT !.acc = [s.acc EXCEPT ![p] = a]]
    BY <1>1, <2>1 DEF NoteDiff, StateSet
  <2>3. a.diff = "diff"
    OBVIOUS
  <2> HIDE DEF a
  <2>4. /\ x.pending = s.pending /\ x.direct = s.direct /\ x.abandoned = s.abandoned
        /\ x.parent = s.parent /\ x.dirty = s.dirty
        /\ x.acc[p] = a /\ \A q \in Paths \ {p} : x.acc[q] = s.acc[q]
    BY <2>1, <2>2 DEF StateSet
  <2>5. \A q \in Paths : /\ s.acc[q] # None => x.acc[q] # None
                         /\ Undecided(x, q) => Undecided(s, q) /\ q # p
    BY <1>1, <2>3, <2>4 DEF Undecided
  <2>6. QED BY <2>4, <2>5, DecidingSettles
<1>2. CASE s.acc[p] # None
  <2>1. x = SetDiff(s, p, "diff") /\ "diff" \in Diffs
    BY <1>2 DEF NoteDiff, SetDiff, Diffs
  <2>2. QED BY <1>2, <2>1, SetDiffSettles
<1>3. QED BY <1>1, <1>2

(* _maybe_complete on a folder that was listed: it is no exception any more. *)
LEMMA FinishHereSettles ==
  ASSUME NEW s, Linked(s), NEW E, Settled(s, E), NEW p \in Paths, s.direct[p] # 0,
         NEW y, y = FinishHere(s, p)
  PROVE  Settled(y.s, E \ {p}) /\ y.s.direct = s.direct
<1> DEFINE done == s.direct[p] # 0 /\ Pending(s, p) = {}
           partial == p \in s.abandoned \/ ((HasLocalRoot \/ s.acc[p].diff = "diff") /\ ~done)
           d == CASE s.acc[p].diff = "diff" -> "diff"
                  [] HasLocalRoot -> "synced"
                  [] OTHER -> "unavailable"
           z == SetDiff(s, p, d)
<1>1. y = IF s.acc[p] = None THEN [s |-> s, go |-> FALSE]
          ELSE IF partial THEN [s |-> MarkDirty(s, p, FALSE), go |-> FALSE]
          ELSE [s |-> MarkDirty(z, p, TRUE), go |-> TRUE]
  BY DEF FinishHere, SetDiff
<1>2. d \in Diffs /\ d # "loading" BY DEF Diffs
<1>3. s.acc[p] # None /\ s.abandoned = {} BY DEF Settled
<1> HIDE DEF d
<1>4. CASE partial
  <2> HIDE DEF partial
  <2>1. y.s = MarkDirty(s, p, FALSE) BY <1>1, <1>3, <1>4
  <2>2. Undecided(s, p) => Pending(s, p) # {}
    BY <1>3, <1>4 DEF Undecided, partial
  <2>3. Settled(s, E \ {p}) BY <2>2, SettledBut
  <2>4. Settled(MarkDirty(s, p, FALSE), E \ {p}) /\ SameLists(s, MarkDirty(s, p, FALSE))
    BY <1>3, <2>3, MarkDirtySettles
  <2>5. QED BY <2>1, <2>4 DEF SameLists
<1>5. CASE ~partial
  <2> HIDE DEF partial
  <2>1. y.s = MarkDirty(z, p, TRUE) BY <1>1, <1>3, <1>5
  <2> HIDE DEF z
  <2>2. Grows(s, z) /\ z.acc[p] # None BY <1>2, <1>3, SetDiffGrows DEF z
  <2>3. Settled(z, E) /\ ~Undecided(z, p) /\ z.direct = s.direct
    BY <1>2, <1>3, SetDiffSettles DEF z
  <2>4. Settled(z, E \ {p}) BY <2>3, SettledBut
  <2>5. z.direct[p] # 0 /\ (Undecided(z, p) => p \in E \ {p} /\ Pending(z, p) = {})
    BY <2>3
  <2>6. Settled(MarkDirty(z, p, TRUE), E \ {p}) /\ SameLists(z, MarkDirty(z, p, TRUE))
    BY <2>2, <2>4, <2>5, MarkDirtySettles DEF Grows
  <2>7. QED BY <2>1, <2>3, <2>6 DEF SameLists
<1>6. QED BY <1>4, <1>5

-----------------------------------------------------------------------------
(* propagate and on_subtree_complete *)

(* One step of propagate. *)
LEMMA PropagateStepSettles ==
  ASSUME NEW x, x \in Climbing, Linked(x.s), NEW E, Settled(x.s, E), NEW p \in Paths,
         x.go => x.s.acc[p] # None, NEW y, y = PropagateStep(x, p)
  PROVE  /\ Settled(y.s, E) /\ SameLists(x.s, y.s)
         /\ \A r \in Paths : p \notin Kids(r) =>
              y.s.acc[r] = x.s.acc[r] /\ y.s.dirty[r] = x.s.dirty[r]
<1> DEFINE q == x.s.parent[p]
           stop == \/ ~x.go \/ q = None
                   \/ q # None /\ (x.s.acc[q] = None \/ x.s.acc[p].total = x.s.contrib[p])
           delta == x.s.acc[p].total - x.s.contrib[p]
           z == [x.s EXCEPT !.contrib[p] = x.s.acc[p].total, !.acc[q].total = @ + delta]
           b == /\ z.direct[q] # 0
                /\ Pending(z, q) = {}
                /\ q \notin z.abandoned
<1>1. x.s \in StateSet /\ x.go \in BOOLEAN /\ x = [s |-> x.s, go |-> x.go]
  BY DEF Climbing
<1>2. y = IF stop THEN [x EXCEPT !.go = FALSE] ELSE [go |-> TRUE, s |-> MarkDirty(z, q, b)]
  BY DEF PropagateStep
<1> HIDE DEF stop, z, b
<1>3. CASE stop
  <2>1. y.s = x.s BY <1>1, <1>2, <1>3
  <2>2. QED BY <2>1 DEF SameLists
<1>4. CASE ~stop
  <2>1. /\ x.go /\ q # None /\ x.s.acc[q] # None /\ x.s.acc[p] # None
        /\ q \in Paths
    BY <1>1, <1>4 DEF stop, StateSet
  <2>2. p \in Kids(q) BY <2>1 DEF Linked
  <2>3. x.s.acc[p].total \in Int /\ x.s.contrib[p] \in Int /\ x.s.acc[q] \in Acc
    BY <1>1, <2>1, AccShape DEF StateSet
  <2> DEFINE a == [x.s.acc[q] EXCEPT !.total = @ + delta]
  <2>4. a \in Acc /\ a.gen = x.s.acc[q].gen /\ a.diff = x.s.acc[q].diff
    BY <2>3 DEF Acc
  <2>5. a # None BY <2>4, NoneApart
  <2>6. z = [x.s EXCEPT !.contrib = [x.s.contrib EXCEPT ![p] = x.s.acc[p].total],
                        !.acc = [x.s.acc EXCEPT ![q] = a]]
    BY <1>1 DEF StateSet, z
  <2> HIDE DEF a
  <2>7. /\ z \in StateSet /\ z.pending = x.s.pending /\ z.parent = x.s.parent
        /\ z.dirty = x.s.dirty /\ z.direct = x.s.direct /\ z.abandoned = x.s.abandoned
        /\ z.acc[q] = a /\ \A r \in Paths \ {q} : z.acc[r] = x.s.acc[r]
    BY <1>1, <2>1, <2>3, <2>4, <2>6 DEF StateSet
  <2>8. Linked(z) BY <2>1, <2>4, <2>5, <2>7, SameLinksGrows DEF Grows
  <2>9. \A r \in Paths : /\ x.s.acc[r] # None => z.acc[r] # None
                         /\ Undecided(z, r) => Undecided(x.s, r)
    BY <2>1, <2>4, <2>5, <2>7 DEF Undecided
  <2>10. Settled(z, E) BY <2>7, <2>9, DecidingSettles
  <2>11. b \in BOOLEAN /\ (b => z.direct[q] # 0 /\ Pending(z, q) = {})
    BY DEF b
  <2>12. b = TRUE => z.direct[q] # 0 /\ (Undecided(z, q) => q \in E /\ Pending(z, q) = {})
    BY <2>1, <2>10, <2>11 DEF Settled
  <2>13. y.s = MarkDirty(z, q, b) BY <1>2, <1>4
  <2>14. z.acc[q] # None BY <2>5, <2>7
  <2> DEFINE m == MarkDirty(z, q, b)
  <2>15. /\ Settled(m, E) /\ SameLists(z, m) /\ m.acc = z.acc
         /\ \A r \in Paths \ {q} : m.dirty[r] = z.dirty[r]
    <3> HIDE DEF q
    <3>1. q \in Paths /\ b \in BOOLEAN BY <2>1, <2>11
    <3>2. QED BY <2>8, <2>10, <3>1, <2>12, <2>14, MarkDirtySettles
  <2> HIDE DEF m
  <2>16. \A r \in Paths : p \notin Kids(r) => r # q BY <2>2
  <2>17. QED BY <2>7, <2>13, <2>15, <2>16 DEF SameLists, m
<1>5. QED BY <1>3, <1>4

(* The way up from p does not come back to p. *)
LEMMA LineageLeaves ==
  ASSUME NEW p \in Paths, NEW i \in 1..Len(Lineage[p])
  PROVE  Lineage[p][i] \notin Kids(p)
<1> DEFINE L == Lineage[p]
           S == {L[j] : j \in 1..i}
<1>1. /\ L \in Seq(Paths) /\ Len(L) \in Nat /\ L[1] = p
      /\ \A j \in 1..(Len(L) - 1) : L[j] \in Kids(L[j + 1])
  BY LineageIsChain, LenProperties DEF Chain
<1> HIDE DEF L
<1>2. i \in 1..Len(L) BY DEF L
<1>3. \A j \in 1..i : j \in 1..Len(L) /\ L[j] \in Paths
  BY <1>1, <1>2, ElementOfSeq
<1>4. SUFFICES ASSUME L[i] \in Kids(p) PROVE FALSE
  BY DEF L
<1>5. S \in (SUBSET Paths) \ {{}}
  <2>1. 1 \in 1..i BY <1>1, <1>2
  <2>2. QED BY <1>3, <2>1
<1>6. PICK q \in S : \A r \in S : q \notin Kids(r)
  <2> HIDE DEF S
  <2>1. QED BY <1>5, TreeShape
<1>7. PICK j \in 1..i : q = L[j] BY <1>6
<1>8. CASE j = i
  <2>1. p \in S BY <1>1, <1>2
  <2> HIDE DEF S
  <2>2. QED BY <1>4, <1>6, <1>7, <1>8, <2>1
<1>9. CASE j # i
  <2>1. j \in 1..(Len(L) - 1) /\ j + 1 \in 1..i BY <1>1, <1>2, <1>9
  <2>2. L[j + 1] \in S /\ L[j] \in Kids(L[j + 1]) BY <1>1, <2>1
  <2> HIDE DEF S
  <2>3. QED BY <1>6, <1>7, <2>2
<1>10. QED BY <1>8, <1>9

(* propagate as a whole: the folder it starts from stays as it is. *)
LEMMA PropagateSettles ==
  ASSUME NEW s, Linked(s), NEW E, Settled(s, E), NEW p \in Paths, s.acc[p] # None,
         NEW x, x = Propagate(s, p)
  PROVE  /\ Settled(x, E) /\ SameLists(s, x) /\ Linked(x)
         /\ x.acc[p] = s.acc[p] /\ x.dirty[p] = s.dirty[p]
<1> DEFINE L == Lineage[p]
           n == Len(L)
           At0 == [s |-> s, go |-> TRUE]
           Like(v) == /\ Settled(v.s, E) /\ SameLists(s, v.s)
                      /\ v.s.acc[p] = s.acc[p] /\ v.s.dirty[p] = s.dirty[p]
           A == [i \in 0..n |-> {v \in Climbing : /\ Linked(v.s) /\ Like(v)
                                                  /\ v.go /\ i < n => v.s.acc[L[i + 1]] # None}]
<1>1. /\ L \in Seq(Paths) /\ n \in Nat /\ n >= 1 /\ L[1] = p
      /\ \A i \in 1..(n - 1) : L[i] \in Kids(L[i + 1])
      /\ \A i \in 1..n : L[i] \notin Kids(p)
  BY LineageIsChain, LineageLeaves, LenProperties DEF Chain
<1> HIDE DEF L, n
<1>2. At0 \in Climbing BY DEF Climbing, Linked
<1>3. At0 \in A[0] BY <1>1, <1>2 DEF SameLists
<1>4. ASSUME NEW i \in 1..n, NEW v \in A[i - 1]
      PROVE  PropagateStep(v, L[i]) \in A[i]
  <2>1. i \in 0..n /\ i - 1 \in 0..n /\ i - 1 < n /\ (i - 1) + 1 = i /\ L[i] \in Paths
    BY <1>1, ElementOfSeq DEF n
  <2>2. v \in Climbing /\ Linked(v.s) /\ Like(v) /\ (v.go => v.s.acc[L[i]] # None)
    BY <2>1
  <2> HIDE DEF A, Like
  <2> DEFINE y == PropagateStep(v, L[i])
             q == v.s.parent[L[i]]
  <2>3. /\ y \in Climbing /\ Grows(v.s, y.s)
        /\ y.go => q \in Paths /\ L[i] \in Kids(q) /\ y.s.acc[q] # None
    BY <2>1, <2>2, PropagateStepGrows
  <2>4. /\ Settled(y.s, E) /\ SameLists(v.s, y.s)
        /\ y.s.acc[p] = v.s.acc[p] /\ y.s.dirty[p] = v.s.dirty[p]
    <3>1. Settled(v.s, E) /\ L[i] \notin Kids(p) BY <1>1, <2>2 DEF Like
    <3>2. y = PropagateStep(v, L[i])
      OBVIOUS
    <3> HIDE DEF y
    <3>3. /\ Settled(y.s, E) /\ SameLists(v.s, y.s)
          /\ \A r \in Paths : L[i] \notin Kids(r) =>
               y.s.acc[r] = v.s.acc[r] /\ y.s.dirty[r] = v.s.dirty[r]
      BY <2>1, <2>2, <3>1, <3>2, PropagateStepSettles
    <3>4. QED BY <3>1, <3>3
  <2> HIDE DEF y
  <2>5. Like(y) BY <2>2, <2>4 DEF Like, SameLists
  <2>6. i < n => i \in 1..(n - 1) /\ L[i] \in Kids(L[i + 1]) /\ L[i + 1] \in Paths
    <3> SUFFICES ASSUME i < n PROVE i \in 1..(n - 1) /\ L[i + 1] \in Paths
      BY <1>1
    <3>1. i \in 1..(n - 1) /\ i + 1 \in 1..n BY <1>1
    <3>2. QED BY <1>1, <3>1, ElementOfSeq DEF n
  <2>7. y.go /\ i < n => y.s.acc[L[i + 1]] # None BY <2>3, <2>6, OneParent
  <2>8. y \in A[i] BY <2>1, <2>3, <2>5, <2>7 DEF A, Grows
  <2>9. QED BY <2>8 DEF y
<1> HIDE DEF A, Like
<1>5. Along(PropagateStep, At0, L) \in A[n]
  BY <1>1, <1>3, <1>4, AlongPropagate DEF n
<1>6. n \in 0..n BY <1>1
<1>7. x = Along(PropagateStep, At0, L).s BY DEF Propagate, L
<1>8. QED BY <1>5, <1>6, <1>7 DEF A, Like

(* One step of on_subtree_complete: the parent that crosses p off is no *)
(* exception any more. *)
LEMMA CompleteStepSettles ==
  ASSUME NEW x, x \in Climbing, Linked(x.s), NEW E, Settled(x.s, E), NEW p \in Paths, GenTyped,
         NEW y, y = CompleteStep(x, p)
  PROVE  /\ Settled(y.s, E) /\ y.s.direct = x.s.direct
         /\ \A q \in Paths : x.go /\ x.s.parent[p] = q /\ x.s.pending[q] # None =>
              Settled(y.s, E \ {q})
<1> DEFINE q == x.s.parent[p]
           stop == ~x.go \/ q = None \/ (q # None /\ x.s.pending[q] = None)
           s1 == [x.s EXCEPT !.pending[q] = @ \ {p}]
           s2 == IF s1.acc[p] # None /\ s1.acc[p].diff = "diff" THEN NoteDiff(s1, q) ELSE s1
           fin == FinishHere(s2, q)
           all == s2.direct[q] # 0 /\ s2.pending[q] = {}
<1>1. x.s \in StateSet /\ x.go \in BOOLEAN /\ x = [s |-> x.s, go |-> x.go]
  BY DEF Climbing
<1>2. y = IF stop THEN [x EXCEPT !.go = FALSE]
          ELSE IF all THEN fin ELSE [s |-> s2, go |-> FALSE]
  BY DEF CompleteStep
<1>3. CASE stop
  <2>1. y.s = x.s BY <1>1, <1>2, <1>3
  <2>2. \A r \in Paths : ~(x.go /\ x.s.parent[p] = r /\ x.s.pending[r] # None)
    BY <1>3, NoneApart
  <2>3. QED BY <2>1, <2>2
<1>4. CASE ~stop
  <2>1. q # None /\ x.s.pending[q] # None /\ q \in Paths /\ x.s.pending[q] \in SUBSET Paths
    BY <1>1, <1>4 DEF StateSet
  <2> HIDE DEF stop
  <2> DEFINE rest == x.s.pending[q] \ {p}
  <2>2. s1 = [x.s EXCEPT !.pending = [x.s.pending EXCEPT ![q] = rest]]
    BY <1>1 DEF StateSet
  <2>3. rest \in SUBSET Paths /\ rest \subseteq x.s.pending[q] /\ rest # None
    BY <2>1, NoneIsNothing
  <2> HIDE DEF s1, rest
  <2>4. /\ s1 \in StateSet /\ s1.acc = x.s.acc /\ s1.parent = x.s.parent /\ s1.dirty = x.s.dirty
        /\ s1.direct = x.s.direct /\ s1.abandoned = x.s.abandoned
        /\ s1.pending[q] = rest /\ \A r \in Paths \ {q} : s1.pending[r] = x.s.pending[r]
    BY <1>1, <2>1, <2>2, <2>3 DEF StateSet
  <2>5. \A r \in Paths : Pending(s1, r) \subseteq Pending(x.s, r)
    BY <2>1, <2>3, <2>4 DEF Pending
  <2>6. Linked(s1) BY <2>3, <2>4, <2>5 DEF Linked
  <2>7. Settled(s1, E \cup {q})
    <3>1. \A r \in Paths : /\ Undecided(s1, r) = Undecided(x.s, r)
                           /\ WholeMark(s1, r) = WholeMark(x.s, r)
      BY <2>4 DEF Undecided, WholeMark
    <3>2. \A r \in Paths : r # q => Pending(s1, r) = Pending(x.s, r)
      BY <2>4 DEF Pending
    <3>3. QED BY <2>4, <2>5, <3>1, <3>2 DEF Settled
  <2>8. /\ Linked(s2) /\ Settled(s2, E \cup {q}) /\ s2.direct = x.s.direct
        /\ s2.pending = s1.pending
    BY <2>1, <2>4, <2>6, <2>7, NoteDiffGrows, NoteDiffSettles DEF Grows
  <2> HIDE DEF s2
  <2>9. Settled(y.s, (E \cup {q}) \ {q}) /\ y.s.direct = x.s.direct
    <3>1. CASE all
      <4>1. y = fin BY <1>2, <1>4, <3>1
      <4>2. QED BY <2>1, <2>8, <3>1, <4>1, FinishHereSettles
    <3>2. CASE ~all
      <4>1. y.s = s2 BY <1>2, <1>4, <3>2
      <4>2. s2.direct[q] = 0 \/ Pending(s2, q) # {}
        BY <2>3, <2>4, <2>8, <3>2 DEF Pending
      <4>3. QED BY <2>8, <4>1, <4>2, SettledBut
    <3>3. QED BY <3>1, <3>2
  <2>10. (E \cup {q}) \ {q} = E \ {q}
    OBVIOUS
  <2>11. Settled(y.s, E) BY <2>9, <2>10, SettledMore
  <2>12. QED BY <2>9, <2>10, <2>11
<1>5. QED BY <1>3, <1>4

(* on_subtree_complete as a whole. *)
LEMMA OnSubtreeCompleteSettles ==
  ASSUME NEW s, Linked(s), NEW E, Settled(s, E), NEW p \in Paths, GenTyped,
         NEW x, x = OnSubtreeComplete(s, p)
  PROVE  /\ Settled(x, E) /\ x.direct = s.direct
         /\ \A q \in Paths : s.parent[p] = q /\ s.pending[q] # None => Settled(x, E \ {q})
<1> DEFINE L == Lineage[p]
           n == Len(L)
           At0 == [s |-> s, go |-> TRUE]
           q == s.parent[p]
           served == q \in Paths /\ s.pending[q] # None
           A == [i \in 0..n |-> {v \in Climbing : /\ Linked(v.s) /\ v.s.direct = s.direct
                                                  /\ Settled(v.s, E)
                                                  /\ i = 0 => v = At0
                                                  /\ i > 0 /\ served => Settled(v.s, E \ {q})}]
<1>1. L \in Seq(Paths) /\ n \in Nat /\ n >= 1 /\ L[1] = p
  BY LineageIsChain, LenProperties DEF Chain
<1> HIDE DEF L, n, served
<1>2. At0 \in Climbing BY DEF Climbing, Linked
<1>3. At0 \in A[0] BY <1>1, <1>2
<1>4. ASSUME NEW i \in 1..n, NEW v \in A[i - 1]
      PROVE  CompleteStep(v, L[i]) \in A[i]
  <2>1. i \in 0..n /\ i - 1 \in 0..n /\ L[i] \in Paths /\ i > 0 /\ (i = 1 \/ i - 1 > 0)
    BY <1>1, ElementOfSeq DEF n
  <2>2. /\ v \in Climbing /\ Linked(v.s) /\ v.s.direct = s.direct /\ Settled(v.s, E)
        /\ i - 1 = 0 => v = At0
        /\ i - 1 > 0 /\ served => Settled(v.s, E \ {q})
    BY <2>1
  <2> HIDE DEF A, At0
  <2> DEFINE y == CompleteStep(v, L[i])
  <2>3. y \in Climbing /\ Linked(y.s)
    BY <2>1, <2>2, CompleteStepGrows DEF Grows
  <2>4. /\ Settled(y.s, E) /\ y.s.direct = s.direct
        /\ \A r \in Paths : v.go /\ v.s.parent[L[i]] = r /\ v.s.pending[r] # None =>
             Settled(y.s, E \ {r})
    BY <2>1, <2>2, CompleteStepSettles
  <2>5. served => Settled(y.s, E \ {q})
    <3> SUFFICES ASSUME served PROVE Settled(y.s, E \ {q})
      OBVIOUS
    <3>1. CASE i = 1
      <4>1. v.go /\ v.s = s /\ L[i] = p BY <1>1, <2>2, <3>1 DEF At0
      <4> HIDE DEF y
      <4>2. QED BY <2>4, <4>1 DEF served
    <3>2. CASE i - 1 > 0 BY <2>1, <2>2, <3>2, CompleteStepSettles
    <3>3. QED BY <2>1, <3>1, <3>2
  <2> HIDE DEF y
  <2>6. y \in A[i] BY <2>1, <2>3, <2>4, <2>5 DEF A
  <2>7. QED BY <2>6 DEF y
<1> HIDE DEF A
<1>5. Along(CompleteStep, At0, L) \in A[n]
  BY <1>1, <1>3, <1>4, AlongComplete DEF n
<1>6. n \in 0..n /\ n > 0 BY <1>1
<1>7. x = Along(CompleteStep, At0, L).s BY DEF OnSubtreeComplete, L
<1>8. Settled(x, E) /\ x.direct = s.direct /\ (served => Settled(x, E \ {q}))
  BY <1>5, <1>6, <1>7 DEF A
<1>9. QED BY <1>8 DEF served

(* _maybe_complete as a whole, on a folder that was listed. *)
LEMMA MaybeCompleteSettles ==
  ASSUME NEW s, Linked(s), NEW p \in Paths, Settled(s, {p}), s.direct[p] # 0, GenTyped,
         NEW x, x = MaybeComplete(s, p)
  PROVE  Settled(x, {}) /\ x.direct = s.direct
<1> DEFINE y == FinishHere(s, p)
<1>1. Linked(y.s) BY FinishHereGrows DEF Grows
<1>2. Settled(y.s, {p} \ {p}) /\ y.s.direct = s.direct BY FinishHereSettles
<1>3. {p} \ {p} = {}
  OBVIOUS
<1>4. x = IF y.go THEN OnSubtreeComplete(y.s, p) ELSE y.s
  BY DEF MaybeComplete
<1> HIDE DEF y
<1>5. Settled(OnSubtreeComplete(y.s, p), {}) /\ OnSubtreeComplete(y.s, p).direct = y.s.direct
  BY <1>1, <1>2, <1>3, OnSubtreeCompleteSettles
<1>6. QED BY <1>2, <1>3, <1>4, <1>5

(* A complete child is added into its parent. *)
LEMMA AttachSettles ==
  ASSUME NEW s, Linked(s), NEW E, Settled(s, E), NEW p \in Paths, NEW sf \in Paths,
         s.acc[sf] # None, GenTyped, NEW x, x = Attach(s, p, sf)
  PROVE  /\ Settled(x, E) /\ x.direct = s.direct
         /\ s.parent[sf] = p /\ s.pending[p] # None => Settled(x, E \ {p})
<1> DEFINE s1 == Propagate(s, sf)
           s2 == IF s1.acc[sf].diff = "diff" THEN NoteDiff(s1, p) ELSE s1
<1>1. Settled(s1, E) /\ SameLists(s, s1) /\ Linked(s1) BY PropagateSettles
<1>2. x = OnSubtreeComplete(s2, sf) BY DEF Attach
<1> HIDE DEF s1
<1>3. /\ Linked(s2) /\ Settled(s2, E) /\ s2.direct = s1.direct /\ s2.parent = s1.parent
      /\ s2.pending = s1.pending
  BY <1>1, NoteDiffGrows, NoteDiffSettles DEF Grows
<1> HIDE DEF s2
<1>4. /\ Settled(x, E) /\ x.direct = s2.direct
      /\ \A q \in Paths : s2.parent[sf] = q /\ s2.pending[q] # None => Settled(x, E \ {q})
  BY <1>2, <1>3, OnSubtreeCompleteSettles
<1>5. QED BY <1>1, <1>3, <1>4 DEF SameLists

(* _repair_complete_children_locked. *)
LEMMA RepairSettles ==
  ASSUME NEW s, Linked(s), Settled(s, {}), NEW p \in Paths, GenTyped,
         NEW x, x = Repair(s, p)
  PROVE  Settled(x, {}) /\ x.direct = s.direct
<1> DEFINE L == Subfolders[p]
           n == Len(L)
           A == [i \in 0..n |-> {v \in StateSet : /\ Linked(v) /\ Settled(v, {})
                                                  /\ v.direct = s.direct}]
           s1 == AttachWhole(s, p)
<1>1. L \in Seq(Paths) /\ n \in Nat BY TreeShape, LenProperties
<1>2. s \in A[0] BY <1>1 DEF Linked
<1>3. ASSUME NEW i \in 1..n, NEW v \in A[i - 1]
      PROVE  (IF L[i] \in Pending(s, p) /\ IsWhole(v, L[i])
                THEN Attach(v, p, L[i]) ELSE v) \in A[i]
  <2>1. i \in 0..n /\ i - 1 \in 0..n /\ L[i] \in Paths BY <1>1, ElementOfSeq
  <2>2. v \in StateSet /\ Linked(v) /\ Settled(v, {}) /\ v.direct = s.direct
    BY <2>1
  <2> HIDE DEF A, L, n
  <2>3. CASE L[i] \in Pending(s, p) /\ IsWhole(v, L[i])
    <3> DEFINE y == Attach(v, p, L[i])
    <3>1. v.acc[L[i]] # None BY <2>3 DEF IsWhole
    <3>2. Linked(y) BY <2>1, <2>2, <3>1, AttachGrows DEF Grows
    <3>3. Settled(y, {}) /\ y.direct = v.direct
      BY <2>1, <2>2, <3>1, AttachSettles
    <3> HIDE DEF y
    <3>4. y \in A[i] BY <2>1, <2>2, <3>2, <3>3 DEF A, Linked
    <3>5. QED BY <2>3, <3>4 DEF y
  <2>4. CASE ~(L[i] \in Pending(s, p) /\ IsWhole(v, L[i]))
    BY <2>1, <2>2, <2>4 DEF A
  <2>5. QED BY <2>3, <2>4
<1> HIDE DEF A
<1>4. s1 \in A[n] BY <1>1, <1>2, <1>3, AlongAttach
<1>5. x = IF s1.direct[p] # 0 /\ Pending(s1, p) = {} THEN MaybeComplete(s1, p) ELSE s1
  BY DEF Repair
<1> HIDE DEF L, n, s1
<1>6. Linked(s1) /\ Settled(s1, {}) /\ s1.direct = s.direct
  BY <1>1, <1>4 DEF A
<1>7. Settled(s1, {p}) BY <1>6, SettledMore
<1>8. QED BY <1>5, <1>6, <1>7, MaybeCompleteSettles

-----------------------------------------------------------------------------
(* A listing settles its folder *)

(* The queue with one job more, and with one taken off it. *)
LEMMA QueueChanges ==
  ASSUME NEW q \in JobBags, NEW j
  PROVE  /\ DOMAIN Put(q, j) = DOMAIN q \cup {j}
         /\ DOMAIN q \ {j} \subseteq DOMAIN (q (-) SetToBag({j}))
<1>1. PICK D \in SUBSET Job : q \in [D -> Nat \ {0}] BY DEF JobBags
<1>2. DOMAIN q = D /\ \A e \in D : q[e] \in Nat \ {0} BY <1>1
<1>3. DOMAIN SetToBag({j}) = {j} BY DEF SetToBag
<1>4. DOMAIN Put(q, j) = D \cup {j} BY <1>2, <1>3 DEF Put, (+)
<1> DEFINE B == [e \in D |-> IF e \in {j} THEN q[e] - SetToBag({j})[e] ELSE q[e]]
           E == {d \in DOMAIN B : B[d] > 0}
<1>5. q (-) SetToBag({j}) = [e \in E |-> B[e]] BY <1>2, <1>3 DEF (-)
<1>6. D \ {j} \subseteq E
  <2> SUFFICES ASSUME NEW e \in D, e # j PROVE B[e] > 0
    OBVIOUS
  <2>1. B[e] = q[e]
    OBVIOUS
  <2>2. QED BY <1>2, <2>1
<1> HIDE DEF E, B
<1>7. QED BY <1>2, <1>4, <1>5, <1>6

(* No folder is listed in itself. *)
LEMMA NotOwnKid == \A p \in Paths : p \notin Kids(p)
<1> SUFFICES ASSUME NEW p \in Paths PROVE p \notin Kids(p)
  OBVIOUS
<1>1. Len(Lineage[p]) \in Nat /\ Len(Lineage[p]) >= 1 /\ Lineage[p][1] = p
  BY LineageIsChain, LenProperties DEF Chain
<1>2. QED BY <1>1, LineageLeaves

(* One subfolder of a listing: afterwards the listed folder p is decided, or *)
(* waits.  No folder stops being listed; one that becomes so was not owned; *)
(* and a folder that becomes owned has a job. *)
LEMMA AddSubfolderSettles ==
  ASSUME GenTyped, NEW x, x \in Adding, Linked(x.s), NEW p \in Paths, NEW sf \in Kids(p),
         NEW t \in Epochs, ~(t < minPage), NEW seen, seen[sf] \in Record \cup {None},
         Decided(seen[sf]), NEW depth \in 0..DepthCap, x.s.pending[p] \in SUBSET Paths,
         Settled(x.s, {p}), WholeMark(x.s, p) => ~Undecided(x.s, p),
         NEW y, y = AddSubfolder(x, p, sf, t, seen, depth)
  PROVE  Settled(y.s, {}) /\ OnlyAdds(x, y)
<1> SUFFICES /\ Settled(y.s, {})
             /\ \A q \in Paths : x.s.direct[q] # 0 => y.s.direct[q] # 0
             /\ \A q \in Paths : y.s.direct[q] # 0 => x.s.direct[q] # 0 \/ x.owned[q] = 0
             /\ \A q \in Paths : x.owned[q] # 0 => y.owned[q] # 0
             /\ \A q \in Paths : y.owned[q] # 0 =>
                  x.owned[q] # 0 \/ \E j \in DOMAIN y.q : j.path = q
             /\ DOMAIN x.q \subseteq DOMAIN y.q
  BY DEF OnlyAdds
<1> DEFINE s1 == Adopted(x.s, p, sf)
           reusable == x.owned[sf] = 0 /\ seen[sf] # None /\ seen[sf].complete
           reused == [s1 EXCEPT
                        !.acc[sf] = [total |-> seen[sf].total, diff |-> seen[sf].diff,
                                     gen |-> seen[sf].gen],
                        !.direct[sf] = t,
                        !.pending[sf] = Pending(s1, sf)]
           d == IF Pending(s1, sf) = {} THEN 0 ELSE s1.direct[sf]
           waiting == [s1 EXCEPT !.pending[p] = @ \cup {sf}, !.direct[sf] = d]
           owned == [x.owned EXCEPT ![sf] = t]
           job == JobOf(sf, t, depth)
           q1 == Put(x.q, job)
<1>1. /\ x = [s |-> x.s, owned |-> x.owned, q |-> x.q] /\ x.s \in StateSet
      /\ x.owned \in [Paths -> 0..MaxPage] /\ x.q \in JobBags /\ sf \in Paths /\ sf # p
  BY KidIsPath, NotOwnKid DEF Adding
<1>2. y = IF IsWhole(s1, sf) THEN [x EXCEPT !.s = Attach(s1, p, sf)]
          ELSE IF reusable THEN [x EXCEPT !.s = Attach(reused, p, sf)]
          ELSE IF waiting.direct[sf] = 0 /\ x.owned[sf] = 0
            THEN [s |-> waiting, owned |-> owned, q |-> q1]
          ELSE [x EXCEPT !.s = waiting]
  <2>1. waiting = [s1 EXCEPT !.pending[p] = @ \cup {sf},
                             !.direct[sf] = IF Pending(s1, sf) = {} THEN 0 ELSE @]
    OBVIOUS
  <2>2. QED BY <2>1 DEF AddSubfolder, Adopted
<1>3. Linked(s1) /\ s1.parent[sf] = p /\ s1.pending = x.s.pending /\ s1.acc = x.s.acc
  BY AdoptGrows DEF Grows
<1>4. s1.direct = x.s.direct /\ s1.dirty = x.s.dirty /\ s1.abandoned = x.s.abandoned
  BY <1>1 DEF Adopted, StateSet
<1> HIDE DEF s1
<1>5. /\ \A q \in Paths : Undecided(s1, q) = Undecided(x.s, q)
      /\ \A q \in Paths : Pending(s1, q) = Pending(x.s, q)
      /\ \A q \in Paths : WholeMark(s1, q) = WholeMark(x.s, q)
  BY <1>3, <1>4 DEF Undecided, Pending, WholeMark
<1>6. Settled(s1, {p}) /\ (WholeMark(s1, p) => ~Undecided(s1, p))
  <2>1. Settled(s1, {p}) BY <1>3, <1>4, <1>5, DecidingSettles
  <2>2. QED BY <1>5, <2>1
<1>7. s1.pending[p] \in SUBSET Paths /\ s1.pending[p] # None
  BY <1>3, NoneIsNothing
<1>8. {p} \ {p} = {}
  OBVIOUS
<1>9. CASE IsWhole(s1, sf)
  <2>1. y = [s |-> Attach(s1, p, sf), owned |-> x.owned, q |-> x.q]
    BY <1>1, <1>2, <1>9
  <2>2. Settled(Attach(s1, p, sf), {}) /\ Attach(s1, p, sf).direct = s1.direct
    <3>1. s1.acc[sf] # None BY <1>9 DEF IsWhole
    <3>2. QED BY <1>1, <1>3, <1>6, <1>7, <1>8, <3>1, AttachSettles
  <2>3. QED BY <1>4, <2>1, <2>2
<1>10. CASE ~IsWhole(s1, sf) /\ reusable
  <2>1. y = [s |-> Attach(reused, p, sf), owned |-> x.owned, q |-> x.q]
    BY <1>1, <1>2, <1>10
  <2>2. seen[sf] \in Record /\ x.owned[sf] = 0 /\ seen[sf] # None /\ seen[sf].complete
    BY <1>10
  <2>3. Linked(reused) /\ reused.acc[sf] # None
    BY <1>3, <2>2, ReuseGrows DEF Grows
  <2> DEFINE a == [total |-> seen[sf].total, diff |-> seen[sf].diff, gen |-> seen[sf].gen]
             pend == Pending(s1, sf)
  <2>4. s1 \in StateSet /\ t # 0 /\ a.diff = seen[sf].diff
    BY <1>3 DEF Linked, Epochs
  <2>5. reused = [s1 EXCEPT !.acc = [s1.acc EXCEPT ![sf] = a],
                            !.direct = [s1.direct EXCEPT ![sf] = t],
                            !.pending = [s1.pending EXCEPT ![sf] = pend]]
    BY <2>4 DEF StateSet
  <2> HIDE DEF reused, a, pend
  <2>6. /\ reused.acc[sf] = a /\ \A q \in Paths \ {sf} : reused.acc[q] = s1.acc[q]
        /\ reused.direct[sf] = t /\ \A q \in Paths \ {sf} : reused.direct[q] = s1.direct[q]
        /\ reused.pending[sf] = pend
        /\ \A q \in Paths \ {sf} : reused.pending[q] = s1.pending[q]
        /\ reused.parent = s1.parent /\ reused.dirty = s1.dirty
        /\ reused.abandoned = s1.abandoned
    BY <1>1, <2>4, <2>5 DEF StateSet
  <2>7. Settled(reused, {p})
    <3>1. HasLocalRoot => a.diff # "loading" BY <2>2, <2>4 DEF Decided
    <3>2. \A q \in Paths : Undecided(reused, q) => Undecided(s1, q) /\ q # sf
      BY <2>6, <3>1 DEF Undecided
    <3>3. \A q \in Paths \ {sf} : Pending(reused, q) = Pending(s1, q)
      BY <2>6 DEF Pending
    <3>4. \A q \in Paths : WholeMark(reused, q) = WholeMark(s1, q)
      BY <2>6 DEF WholeMark
    <3>5. \A q \in Paths : reused.direct[q] # 0 => reused.acc[q] # None
      BY <1>6, <2>3, <2>6 DEF Settled
    <3>6. \A q \in Paths : s1.direct[q] # 0 => reused.direct[q] # 0
      BY <2>4, <2>6
    <3>7. \A q \in Paths : Undecided(reused, q) =>
            reused.direct[q] # 0 /\ (Pending(reused, q) # {} \/ q \in {p})
      BY <1>6, <3>2, <3>3, <3>6 DEF Settled
    <3>8. \A q \in Paths : WholeMark(reused, q) =>
            /\ reused.direct[q] # 0
            /\ Undecided(reused, q) => q \in {p} /\ Pending(reused, q) = {}
      BY <1>6, <3>2, <3>3, <3>4, <3>6 DEF Settled
    <3>9. QED BY <1>6, <2>6, <3>5, <3>7, <3>8 DEF Settled
  <2>8. reused.parent[sf] = p /\ reused.pending[p] # None
    BY <1>1, <1>3, <1>7, <2>6
  <2> DEFINE z == Attach(reused, p, sf)
  <2>9. Settled(z, {}) /\ z.direct = reused.direct
    <3>1. z = Attach(reused, p, sf)
      OBVIOUS
    <3> HIDE DEF z
    <3>2. Settled(z, {p} \ {p}) /\ z.direct = reused.direct
      BY <1>1, <2>3, <2>7, <2>8, <3>1, AttachSettles
    <3>3. QED BY <1>8, <3>2
  <2> HIDE DEF z
  <2>10. /\ \A q \in Paths : x.s.direct[q] # 0 => z.direct[q] # 0
         /\ \A q \in Paths : z.direct[q] # 0 => x.s.direct[q] # 0 \/ x.owned[q] = 0
    BY <1>4, <2>2, <2>4, <2>6, <2>9
  <2>11. y.s = z /\ y.owned = x.owned /\ y.q = x.q BY <2>1 DEF z
  <2>12. QED BY <2>9, <2>10, <2>11
<1>11. CASE ~IsWhole(s1, sf) /\ ~reusable
  <2>1. d = s1.direct[sf] BY <1>1, <1>6, <1>11, SettledIsWhole
  <2> HIDE DEF d, reusable
  <2> DEFINE pend == s1.pending[p] \cup {sf}
  <2>2. s1 \in StateSet BY <1>3 DEF Linked
  <2>3. waiting = [s1 EXCEPT !.pending = [s1.pending EXCEPT ![p] = pend],
                             !.direct = [s1.direct EXCEPT ![sf] = d]]
    BY <2>2 DEF StateSet
  <2>4. pend # {} /\ pend # None BY <1>1, <1>7, NoneIsNothing
  <2> HIDE DEF waiting, pend
  <2>5. /\ waiting.pending[p] = pend /\ \A q \in Paths \ {p} : waiting.pending[q] = s1.pending[q]
        /\ waiting.direct[sf] = d /\ \A q \in Paths \ {sf} : waiting.direct[q] = s1.direct[q]
        /\ waiting.acc = s1.acc /\ waiting.dirty = s1.dirty /\ waiting.abandoned = s1.abandoned
    BY <1>1, <2>2, <2>3 DEF StateSet
  <2>6. \A q \in Paths : waiting.direct[q] = s1.direct[q] BY <2>1, <2>5
  <2>7. Settled(waiting, {})
    <3>1. \A q \in Paths : /\ Undecided(waiting, q) = Undecided(s1, q)
                           /\ WholeMark(waiting, q) = WholeMark(s1, q)
      BY <2>5 DEF Undecided, WholeMark
    <3>2. Pending(waiting, p) # {} /\ \A q \in Paths \ {p} : Pending(waiting, q) = Pending(s1, q)
      BY <2>4, <2>5 DEF Pending
    <3>3. \A q \in Paths : waiting.direct[q] # 0 => waiting.acc[q] # None
      BY <1>6, <2>5, <2>6 DEF Settled
    <3>4. \A q \in Paths : Undecided(waiting, q) =>
            waiting.direct[q] # 0 /\ Pending(waiting, q) # {}
      BY <1>6, <2>6, <3>1, <3>2 DEF Settled
    <3>5. \A q \in Paths : WholeMark(waiting, q) =>
            waiting.direct[q] # 0 /\ ~Undecided(waiting, q)
      BY <1>6, <2>6, <3>1 DEF Settled
    <3>6. QED BY <1>6, <2>5, <3>3, <3>4, <3>5 DEF Settled
  <2>8. DOMAIN q1 = DOMAIN x.q \cup {job} /\ job.path = sf
    BY <1>1, QueueChanges DEF JobOf
  <2>9. owned[sf] # 0 /\ \A q \in Paths \ {sf} : owned[q] = x.owned[q]
    BY <1>1 DEF Epochs
  <2> HIDE DEF owned, q1, job
  <2>10. /\ y.s = waiting
         /\ \/ y.owned = owned /\ y.q = q1
            \/ y.owned = x.owned /\ y.q = x.q
    BY <1>1, <1>2, <1>11 DEF reusable
  <2>11. \A q \in Paths : y.s.direct[q] = x.s.direct[q] BY <1>4, <2>6, <2>10
  <2>12. CASE y.owned = x.owned /\ y.q = x.q BY <2>7, <2>10, <2>11, <2>12
  <2>13. CASE y.owned = owned /\ y.q = q1
    <3>1. \A q \in Paths : x.owned[q] # 0 => owned[q] # 0 BY <2>9
    <3>2. \A q \in Paths : owned[q] # 0 => x.owned[q] # 0 \/ \E j \in DOMAIN q1 : j.path = q
      BY <2>8, <2>9
    <3>3. QED BY <2>7, <2>8, <2>10, <2>11, <2>13, <3>1, <3>2
  <2>14. QED BY <2>10, <2>12, <2>13
<1>12. QED BY <1>9, <1>10, <1>11

(* The folder's own record: an exception until its subfolders are added. *)
LEMMA BegunSettles ==
  ASSUME Linked(st), GenTyped, NEW w \in Workers, Doing(w) \in Paths, ~CalledOff(w),
         Epoch(w) \in Epochs, Settled(st, {}), st.direct[Doing(w)] = 0,
         NEW x, x = Begun(w)
  PROVE  /\ Settled(x, {Doing(w)})
         /\ Subfolders[Doing(w)] # <<>> => ~WholeMark(x, Doing(w))
         /\ x.direct[Doing(w)] # 0
         /\ \A q \in Paths \ {Doing(w)} : x.direct[q] = st.direct[q]
<1> DEFINE p == Doing(w)
           t == Epoch(w)
           a == FreshAcc(p, worker[w].gen)
           fresh == [st EXCEPT !.abandoned = @ \ {p}, !.acc[p] = FreshAcc(p, worker[w].gen),
                               !.direct[p] = Epoch(w), !.pending[p] = {}]
           compared == IF p \in DirectDiffs THEN NoteDiff(fresh, p) ELSE fresh
           empty == Subfolders[p] = <<>>
           marked == MarkDirty(compared, p, Subfolders[p] = <<>>)
<1>1. st \in StateSet /\ p \in Paths /\ t \in 0..MaxPage /\ t # 0
  BY DEF Linked, Epochs
<1>2. a \in Acc /\ a.gen = generation[p]
  <2>1. DirectTotal[p] \in Int BY <1>1, TotalsPositive
  <2>2. worker[w].gen = generation[p] /\ generation[p] \in Nat
    BY <1>1 DEF CalledOff, GenTyped
  <2>3. QED BY <2>1, <2>2 DEF FreshAcc, Acc
<1>3. x = Propagate(marked, p) BY DEF Begun
<1>4. fresh = [st EXCEPT !.abandoned = st.abandoned \ {p}, !.acc = [st.acc EXCEPT ![p] = a],
                         !.direct = [st.direct EXCEPT ![p] = t],
                         !.pending = [st.pending EXCEPT ![p] = {}]]
  BY <1>1 DEF StateSet
<1>5. a # None BY <1>2, NoneApart
<1> HIDE DEF a, p, t, fresh, empty
<1>6. /\ fresh.acc[p] = a /\ \A q \in Paths \ {p} : fresh.acc[q] = st.acc[q]
      /\ fresh.direct[p] = t /\ \A q \in Paths \ {p} : fresh.direct[q] = st.direct[q]
      /\ fresh.pending[p] = {} /\ \A q \in Paths \ {p} : fresh.pending[q] = st.pending[q]
      /\ fresh.parent = st.parent /\ fresh.dirty = st.dirty
      /\ fresh.abandoned = st.abandoned \ {p}
  BY <1>1, <1>4 DEF StateSet
<1>7. Linked(fresh)
  <2>1. [st.acc EXCEPT ![p] = a] \in [Paths -> Acc \cup {None}]
    BY <1>1, <1>2 DEF StateSet
  <2>2. [st.direct EXCEPT ![p] = t] \in [Paths -> 0..MaxPage]
    <3>1. st.direct \in [Paths -> 0..MaxPage] BY <1>1 DEF StateSet
    <3>2. QED BY <1>1, <3>1
  <2>3. [st.pending EXCEPT ![p] = {}] \in [Paths -> (SUBSET Paths) \cup {None}]
    <3>1. st.pending \in [Paths -> (SUBSET Paths) \cup {None}]
      BY <1>1 DEF StateSet
    <3>2. QED BY <1>1, <3>1
  <2>4. fresh \in StateSet
    <3>1. st.abandoned \ {p} \in SUBSET Paths BY <1>1 DEF StateSet
    <3>2. QED BY <1>1, <1>4, <2>1, <2>2, <2>3, <3>1 DEF StateSet
  <2>5. QED BY <1>1, <1>2, <1>5, <1>6, <2>4 DEF Linked, Pending
<1>8. ~WholeMark(st, p) BY <1>1 DEF Settled, p
<1>9. Settled(fresh, {p}) /\ ~WholeMark(fresh, p)
  <2>1. \A q \in Paths : WholeMark(fresh, q) = WholeMark(st, q)
    BY <1>6 DEF WholeMark
  <2>2. \A q \in Paths \ {p} : /\ Undecided(fresh, q) = Undecided(st, q)
                               /\ Pending(fresh, q) = Pending(st, q)
    BY <1>6 DEF Undecided, Pending
  <2>3. st.abandoned = {} BY DEF Settled
  <2>4. fresh.abandoned = {} BY <1>6, <2>3
  <2>5. \A q \in Paths : fresh.direct[q] # 0 => fresh.acc[q] # None
    BY <1>5, <1>6 DEF Settled
  <2>6. \A q \in Paths : Undecided(fresh, q) =>
          fresh.direct[q] # 0 /\ (Pending(fresh, q) # {} \/ q \in {p})
    BY <1>1, <1>6, <2>2 DEF Settled
  <2>7. \A q \in Paths : WholeMark(fresh, q) =>
          fresh.direct[q] # 0 /\ (Undecided(fresh, q) => q \in {p} /\ Pending(fresh, q) = {})
    BY <1>6, <1>8, <2>1, <2>2 DEF Settled
  <2>8. Settled(fresh, {p}) BY <2>4, <2>5, <2>6, <2>7 DEF Settled
  <2>9. QED BY <1>1, <1>8, <2>1, <2>8
<1>10. /\ Linked(compared) /\ Settled(compared, {p}) /\ compared.acc[p] # None
       /\ SameLists(fresh, compared) /\ compared.dirty = fresh.dirty
  <2>1. CASE p \in DirectDiffs
    <3>1. compared = NoteDiff(fresh, p) BY <2>1
    <3> HIDE DEF compared
    <3>2. QED
      BY <1>1, <1>7, <1>9, <3>1, NoteDiffGrows, NoteDiffSettles DEF Grows, SameLists
  <2>2. CASE p \notin DirectDiffs
    BY <1>5, <1>6, <1>7, <1>9, <2>2 DEF SameLists
  <2>3. QED BY <2>1, <2>2
<1> HIDE DEF compared, marked
<1>11. marked = MarkDirty(compared, p, empty) /\ empty \in BOOLEAN
  BY DEF marked, empty
<1>12. /\ Linked(marked) /\ Settled(marked, {p}) /\ marked.acc[p] # None
       /\ SameLists(compared, marked)
       /\ empty = FALSE => ~WholeMark(marked, p)
  <2>1. compared.direct[p] # 0 /\ Pending(compared, p) = {} /\ p \in {p}
    BY <1>1, <1>6, <1>10 DEF SameLists, Pending
  <2>2. /\ Linked(marked) /\ marked.acc = compared.acc
    BY <1>1, <1>10, <1>11, MarkDirtyGrows DEF Grows
  <2>3. /\ Settled(marked, {p}) /\ SameLists(compared, marked)
        /\ empty = FALSE /\ compared.dirty[p] # TRUE => marked.dirty[p] # TRUE
    BY <1>1, <1>10, <1>11, <2>1, MarkDirtySettles
  <2>4. QED BY <1>9, <1>10, <2>2, <2>3 DEF WholeMark
<1>13. Settled(x, {p}) /\ SameLists(marked, x) /\ x.dirty[p] = marked.dirty[p]
  BY <1>1, <1>3, <1>12, PropagateSettles
<1>14. x.direct = fresh.direct BY <1>10, <1>12, <1>13 DEF SameLists
<1>15. Subfolders[p] # <<>> => ~WholeMark(x, p)
  BY <1>11, <1>12, <1>13 DEF WholeMark, empty
<1>16. QED BY <1>1, <1>6, <1>13, <1>14, <1>15 DEF p

(* Two subfolders in a row. *)
LEMMA OnlyAddsFurther ==
  ASSUME NEW x, NEW y, NEW z, OnlyAdds(x, y), OnlyAdds(y, z)
  PROVE  OnlyAdds(x, z)
<1>1. \A q \in Paths : z.s.direct[q] # 0 => x.s.direct[q] # 0 \/ x.owned[q] = 0
  BY DEF OnlyAdds
<1>2. \A q \in Paths : z.owned[q] # 0 => x.owned[q] # 0 \/ \E j \in DOMAIN z.q : j.path = q
  BY DEF OnlyAdds
<1>3. QED BY <1>1, <1>2 DEF OnlyAdds

(* A whole listing. *)
LEMMA ListedSettles ==
  ASSUME Linked(st), GenTyped, NEW w \in Workers, Doing(w) \in Paths, ~CalledOff(w),
         Epoch(w) \in Epochs, worker[w].depth \in 0..DepthCap,
         worker[w].seen \in [Kids(Doing(w)) -> Record \cup {None}],
         inProgress \in [Paths -> 0..MaxPage], queue \in JobBags,
         Settled(st, {}), st.direct[Doing(w)] = 0, ~(Epoch(w) < minPage),
         \A c \in Kids(Doing(w)) : Decided(worker[w].seen[c]),
         NEW x, x = Listed(w)
  PROVE  /\ Settled(x.s, {Doing(w)})
         /\ OnlyAdds([s |-> Begun(w), owned |-> inProgress, q |-> queue], x)
<1> DEFINE p == Doing(w)
           L == Subfolders[p]
           n == Len(L)
           d == IF worker[w].depth < DepthCap THEN worker[w].depth + 1 ELSE DepthCap
           At0 == [s |-> Begun(w), owned |-> inProgress, q |-> queue]
           Fine(i, v) == /\ Grows(Begun(w), v.s) /\ OnlyAdds(At0, v) /\ Settled(v.s, {p})
                         /\ i > 0 => Settled(v.s, {})
                         /\ i = 0 /\ n > 0 => ~WholeMark(v.s, p)
           A == [i \in 0..n |-> {v \in Adding : Fine(i, v)}]
<1>1. L \in Seq(Paths) /\ n \in Nat /\ DOMAIN L = 1..n /\ (L = <<>> => n = 0)
  BY TreeShape, LenProperties
<1>2. Linked(Begun(w)) /\ Begun(w).pending[p] \in SUBSET Paths
  BY BegunIsLinked
<1>3. Settled(Begun(w), {p}) /\ (L # <<>> => ~WholeMark(Begun(w), p))
  BY BegunSettles
<1>4. d \in 0..DepthCap BY BoundsAndPages
<1>5. At0 \in A[0]
  <2>1. At0 \in Adding BY <1>2 DEF Adding, Linked
  <2>2. OnlyAdds(At0, At0) BY DEF OnlyAdds
  <2>3. Grows(Begun(w), At0.s) BY <1>2, GrowsSame
  <2>4. Fine(0, At0) BY <1>1, <1>3, <2>2, <2>3
  <2>5. 0 \in 0..n BY <1>1
  <2> HIDE DEF Fine, At0
  <2>6. QED BY <2>1, <2>4, <2>5
<1>6. ASSUME NEW i \in 1..n, NEW v \in A[i - 1]
      PROVE  AddSubfolder(v, p, L[i], Epoch(w), worker[w].seen, d) \in A[i]
  <2>1. i \in 0..n /\ i - 1 \in 0..n /\ L[i] \in Kids(p) /\ i > 0 /\ n > 0
    <3>1. i \in DOMAIN L BY <1>1
    <3> HIDE DEF n
    <3>2. i \in 0..n /\ i - 1 \in 0..n /\ i > 0 /\ n > 0 BY <1>1
    <3>3. QED BY <3>1, <3>2 DEF Kids, ToSet
  <2>2. v \in Adding /\ Fine(i - 1, v) BY <2>1
  <2>3. worker[w].seen[L[i]] \in Record \cup {None} /\ Decided(worker[w].seen[L[i]])
    BY <2>1
  <2> HIDE DEF A, L, n, d
  <2> DEFINE y == AddSubfolder(v, p, L[i], Epoch(w), worker[w].seen, d)
  <2>4. v.s.pending[p] \in SUBSET Paths /\ Linked(v.s) /\ Settled(v.s, {p})
    BY <1>2, <2>2 DEF Grows, Keeps
  <2>5. y \in Adding /\ Grows(v.s, y.s)
    BY <1>4, <2>1, <2>2, <2>3, <2>4, AddSubfolderGrows
  <2>6. WholeMark(v.s, p) => ~Undecided(v.s, p)
    <3>1. CASE i - 1 = 0 BY <2>1, <2>2, <3>1
    <3>2. CASE i - 1 # 0
      <4>1. Settled(v.s, {}) /\ p \notin {} BY <1>1, <2>1, <2>2, <3>2
      <4>2. QED BY <4>1 DEF Settled
    <3>3. QED BY <3>1, <3>2
  <2>7. Settled(y.s, {}) /\ OnlyAdds(v, y)
    <3>1. v \in Adding BY <2>2
    <3>2. y = AddSubfolder(v, p, L[i], Epoch(w), worker[w].seen, d)
      OBVIOUS
    <3> HIDE DEF y, At0
    <3> DEFINE sf == L[i]
               t == Epoch(w)
               seen == worker[w].seen
    <3>3. sf \in Kids(p) /\ p \in Paths /\ t \in Epochs /\ ~(t < minPage)
      BY <2>1
    <3>4. seen[sf] \in Record \cup {None} /\ Decided(seen[sf]) BY <2>3
    <3>5. y = AddSubfolder(v, p, sf, t, seen, d) BY <3>2
    <3> HIDE DEF sf, t, seen, p
    <3>6. QED BY <1>4, <2>4, <2>6, <3>1, <3>3, <3>4, <3>5, AddSubfolderSettles
  <2> HIDE DEF y
  <2>8. Settled(y.s, {p}) BY <2>7, SettledMore
  <2>9. Grows(Begun(w), y.s) /\ OnlyAdds(At0, y)
    <3> HIDE DEF At0
    <3>1. QED BY <2>2, <2>5, <2>7, GrowsFurther, OnlyAddsFurther
  <2>10. Fine(i, y) BY <1>1, <2>1, <2>7, <2>8, <2>9
  <2>11. y \in A[i] BY <2>1, <2>5, <2>10 DEF A
  <2>12. QED BY <2>11 DEF y
<1> HIDE DEF A, d
<1>7. Listed(w) \in A[n] BY <1>1, <1>5, <1>6, AlongListed DEF d
<1>8. n \in 0..n BY <1>1
<1>9. Fine(n, x) BY <1>7, <1>8 DEF A
<1>10. QED BY <1>9
-----------------------------------------------------------------------------
(* Steps that leave the workers alone *)

(* The values of one page epoch. *)
LEMMA OneEpochValues ==
  ASSUME OneEpoch, CacheInv
  PROVE  /\ Epochs = {1} /\ minPage \in {0, 1}
         /\ \A p \in Paths : inProgress[p] \in {0, 1} /\ st.direct[p] \in {0, 1}
         /\ \A t \in Epochs : ~(t < minPage)
<1>1. MaxPage = 1 BY DEF OneEpoch
<1>2. minPage \in 0..1 /\ inProgress \in [Paths -> 0..1]
  BY <1>1 DEF CacheInv, Timed, Owned
<1>3. st.direct \in [Paths -> 0..1]
  BY <1>1 DEF CacheInv, Published, Linked, StateSet
<1>4. Epochs = {1} BY <1>1 DEF Epochs
<1>5. \A t \in Epochs : ~(t < minPage) BY <1>2, <1>4
<1>6. QED BY <1>2, <1>3, <1>4, <1>5

(* A settled state stays settled. *)
LEMMA SettledNext ==
  ASSUME NEW x, Settled(x, {}), st' = x
  PROVE  (Settled(st, {}))'
  BY DEF Settled, Undecided, WholeMark, Pending

(* A step of another thread: no folder begins or stops being listed, and a *)
(* folder that becomes owned has a job. *)
LEMMA OthersKeepOwned ==
  ASSUME CacheInv, OwnedInv, UNCHANGED worker, NEW x, Settled(x, {}), st' = x,
         \A p \in Paths : Decided(disk'[p]),
         x.direct = st.direct, DOMAIN queue \subseteq DOMAIN queue',
         \A q \in Paths : inProgress[q] # 0 => inProgress'[q] # 0,
         \A q \in Paths : inProgress'[q] # 0 =>
           inProgress[q] # 0 \/ \E j \in DOMAIN queue' : j.path = q
  PROVE  OwnedInv'
<1>1. \A w \in Workers : worker[w].pc # "idle" => worker[w].path \in Paths
  BY DEF CacheInv, Working, Employed
<1>2. (Settled(st, {}))' BY SettledNext
<1>3. ASSUME NEW w \in Workers PROVE (Serves(worker[w], st.direct, inProgress))'
  BY <1>1 DEF OwnedInv, Serves, Decided, Kids
<1>4. (OwnedHasWork)' BY DEF OwnedInv, OwnedHasWork, HasWork, Doing
<1>5. \A v, w \in Workers : v # w => (Apart(worker[v], worker[w]))'
  BY DEF OwnedInv, Apart, Claims
<1>6. \A p \in Paths : (Decided(disk[p]))' BY DEF Decided
<1>7. QED BY <1>2, <1>3, <1>4, <1>5, <1>6 DEF OwnedInv

(* A step that leaves the cache alone. *)
LEMMA UnchangedKeepsOwned ==
  ASSUME CacheInv, OwnedInv, UNCHANGED <<st, inProgress, queue, worker, disk>>
  PROVE  OwnedInv'
<1>1. Settled(st, {}) /\ \A p \in Paths : Decided(disk'[p]) BY DEF OwnedInv
<1>2. QED BY <1>1, OthersKeepOwned

(* request(): a folder that was listed is repaired or written, never listed *)
(* again, so that the only ownership taken is with a job. *)
LEMMA RequestKeepsOwned ==
  ASSUME OneEpoch, CacheInv, OwnedInv, NEW p \in Paths, NEW t \in Epochs, NEW d,
         Request(p, t, d)
  PROVE  OwnedInv'
<1>1. PICK s \in {IF Awaits(st, p) THEN Repair(st, p) ELSE st} :
       \/ /\ Awaits(s, p)
          /\ st' = s
          /\ UNCHANGED <<inProgress, queue, minPage, flushing>>
       \/ /\ ~Awaits(s, p) /\ IsWhole(s, p)
          /\ st' = MarkDirty(s, p, TRUE)
          /\ flushing' = TRUE
          /\ UNCHANGED <<inProgress, queue, minPage>>
       \/ /\ ~Awaits(s, p) /\ ~IsWhole(s, p)
          /\ st' = IF s.direct[p] # 0 THEN Restarted(s, p) ELSE s
          /\ Own(p, t, d)
          /\ UNCHANGED flushing
  BY DEF Request
<1>2. UNCHANGED <<worker, disk>> BY DEF Request
<1>3. Linked(st) /\ GenTyped /\ Settled(st, {}) /\ \A q \in Paths : Decided(disk'[q])
  BY <1>2 DEF CacheInv, Published, OwnedInv
<1>4. Linked(s) /\ Settled(s, {}) /\ s.direct = st.direct
  <2>1. CASE Awaits(st, p)
    <3>1. s = Repair(st, p) BY <1>1, <2>1
    <3>2. Linked(Repair(st, p)) BY <1>3, RepairGrows DEF Grows
    <3>3. Settled(s, {}) /\ s.direct = st.direct
      BY <1>3, <3>1, RepairSettles
    <3>4. QED BY <3>1, <3>2, <3>3
  <2>2. CASE ~Awaits(st, p) BY <1>1, <1>3, <2>2
  <2>3. QED BY <2>1, <2>2
<1>5. CASE Awaits(s, p) /\ st' = s /\ UNCHANGED <<inProgress, queue, minPage, flushing>>
  BY <1>2, <1>3, <1>4, <1>5, OthersKeepOwned
<1>6. CASE /\ ~Awaits(s, p) /\ IsWhole(s, p) /\ st' = MarkDirty(s, p, TRUE)
           /\ flushing' = TRUE /\ UNCHANGED <<inProgress, queue, minPage>>
  <2>1. s.acc[p] # None /\ s.direct[p] # 0 /\ ~Undecided(s, p)
    BY <1>6 DEF IsWhole, Undecided
  <2>2. Settled(MarkDirty(s, p, TRUE), {}) /\ SameLists(s, MarkDirty(s, p, TRUE))
    BY <1>4, <2>1, MarkDirtySettles
  <2>3. MarkDirty(s, p, TRUE).direct = st.direct BY <1>4, <2>2 DEF SameLists
  <2>4. QED BY <1>2, <1>3, <1>6, <2>2, <2>3, OthersKeepOwned
<1>7. CASE /\ ~Awaits(s, p) /\ ~IsWhole(s, p)
           /\ st' = IF s.direct[p] # 0 THEN Restarted(s, p) ELSE s
           /\ Own(p, t, d) /\ UNCHANGED flushing
  <2>1. s.direct[p] = 0
    <3> SUFFICES ASSUME s.direct[p] # 0 PROVE FALSE
      OBVIOUS
    <3>1. Pending(s, p) = {} BY <1>4, <1>7 DEF Awaits, Settled
    <3>2. QED BY <1>4, <1>7, <3>1, SettledIsWhole
  <2>2. st' = s BY <1>7, <2>1
  <2>3. queue \in JobBags /\ inProgress \in [Paths -> 0..MaxPage]
    BY DEF CacheInv, Owned
  <2>4. \A q \in Paths : inProgress[q] \in {0, 1} BY OneEpochValues
  <2>5. t = 1 BY OneEpochValues
  <2>6. CASE UNCHANGED <<inProgress, queue, minPage>>
    BY <1>2, <1>3, <1>4, <2>2, <2>6, OthersKeepOwned
  <2>7. CASE /\ inProgress' = [inProgress EXCEPT ![p] = t]
             /\ queue' = Put(queue, JobOf(p, t, d))
    <3>1. inProgress'[p] = t /\ \A q \in Paths \ {p} : inProgress'[q] = inProgress[q]
      BY <2>3, <2>7
    <3>2. DOMAIN queue' = DOMAIN queue \cup {JobOf(p, t, d)} /\ JobOf(p, t, d).path = p
      BY <2>3, <2>7, QueueChanges DEF JobOf
    <3>3. DOMAIN queue \subseteq DOMAIN queue' /\ \E j \in DOMAIN queue' : j.path = p
      BY <3>2
    <3>4. /\ \A q \in Paths : inProgress[q] # 0 => inProgress'[q] # 0
          /\ \A q \in Paths : inProgress'[q] # 0 =>
               inProgress[q] # 0 \/ \E j \in DOMAIN queue' : j.path = q
      BY <2>5, <3>1, <3>3
    <3>5. QED BY <1>2, <1>3, <1>4, <2>2, <3>3, <3>4, OthersKeepOwned
  <2>8. ~(inProgress[p] # 0 /\ t > inProgress[p]) BY <2>4, <2>5
  <2>9. QED BY <1>7, <2>6, <2>7, <2>8 DEF Own
<1>8. QED BY <1>1, <1>5, <1>6, <1>7

(* A record is written: if as complete, then it is decided. *)
LEMMA FlushRecordKeepsOwned ==
  ASSUME CacheInv, OwnedInv, NEW p \in Paths, FlushRecord(p)
  PROVE  OwnedInv'
<1> DEFINE r == [total |-> st.acc[p].total, diff |-> st.acc[p].diff, gen |-> st.acc[p].gen,
                 complete |-> st.dirty[p]]
           x == [st EXCEPT !.dirty[p] = None]
<1>1. /\ st.dirty[p] # None /\ disk' = [disk EXCEPT ![p] = r] /\ st' = x
      /\ UNCHANGED <<inProgress, queue, worker>>
  BY DEF FlushRecord
<1>2. /\ st \in StateSet /\ st.acc[p] # None /\ disk \in [Paths -> Record \cup {None}]
      /\ Settled(st, {}) /\ \A q \in Paths : Decided(disk[q])
  BY <1>1 DEF CacheInv, Published, Linked, OwnedInv
<1>3. x = [st EXCEPT !.dirty = [st.dirty EXCEPT ![p] = None]]
  BY <1>2 DEF StateSet
<1>4. st.dirty[p] \in BOOLEAN BY <1>1, <1>2 DEF StateSet
<1>5. Decided(r)
  <2>1. r.complete = st.dirty[p] /\ r.diff = st.acc[p].diff
    OBVIOUS
  <2> HIDE DEF r
  <2> SUFFICES ASSUME HasLocalRoot, r.complete PROVE r.diff # "loading"
    BY DEF Decided
  <2>2. st.dirty[p] = TRUE BY <1>4, <2>1
  <2>3. ~Undecided(st, p) BY <1>2, <2>2 DEF Settled, WholeMark
  <2>4. QED BY <1>2, <2>1, <2>3 DEF Undecided
<1> HIDE DEF r, x
<1>6. /\ x.acc = st.acc /\ x.pending = st.pending /\ x.direct = st.direct
      /\ x.abandoned = st.abandoned
      /\ x.dirty[p] = None /\ \A q \in Paths \ {p} : x.dirty[q] = st.dirty[q]
  BY <1>2, <1>3 DEF StateSet
<1>7. Settled(x, {})
  <2>1. \A q \in Paths : WholeMark(x, q) => WholeMark(st, q)
    BY <1>6, NoneIsNothing DEF WholeMark
  <2>2. \A q \in Paths : Undecided(x, q) = Undecided(st, q) /\ Pending(x, q) = Pending(st, q)
    BY <1>6 DEF Undecided, Pending
  <2>3. QED BY <1>2, <1>6, <2>1, <2>2 DEF Settled
<1>8. \A q \in Paths : Decided(disk'[q]) BY <1>1, <1>2, <1>5
<1>9. QED BY <1>1, <1>6, <1>7, <1>8, OthersKeepOwned

(* Every step of a thread that is not a worker. *)
LEMMA OthersKeep ==
  ASSUME OneEpoch, CacheInv, OwnedInv, Next, ~\E w \in Workers : WorkerStep(w)
  PROVE  OwnedInv'
<1>1. ASSUME NEW k \in Pages, NEW p \in Paths, NEW d, RequestFor(k, p, d) PROVE OwnedInv'
  <2>1. PICK t \in EpochsFor(k) : Request(p, t, d) BY <1>1 DEF RequestFor
  <2>2. t \in Epochs BY <2>1, EpochsForPage DEF CacheInv
  <2>3. QED BY <2>1, <2>2, RequestKeepsOwned
<1>2. ASSUME UNCHANGED cacheVars PROVE OwnedInv'
  BY <1>2, UnchangedKeepsOwned DEF cacheVars
<1>3. ASSUME NEW k \in Pages, NEW p \in Paths, Ask(k, p) PROVE OwnedInv'
  BY <1>1, <1>2, <1>3 DEF Ask
<1>4. ASSUME NEW k \in Pages, Browser(k) PROVE OwnedInv'
  <2>1. k \in Paths /\ Tab(client[k], k)
    BY BoundsAndPages DEF CacheInv, Browsing
  <2>2. CASE LoadCurrent(k)
    <3>1. CASE Request(k, client[k].time, 0)
      <4>1. client[k].time \in 1..clock BY <2>1, <2>2 DEF LoadCurrent, Tab
      <4>2. client[k].time \in Epochs
        BY <4>1, BoundsAndPages DEF CacheInv, Timed, Epochs
      <4>3. QED BY <2>1, <3>1, <4>2, RequestKeepsOwned
    <3>2. QED BY <1>2, <2>2, <3>1 DEF LoadCurrent
  <2>3. CASE ShowPage(k) BY <1>2, <2>3 DEF ShowPage
  <2>4. CASE PollRow(k)
    <3>1. client[k].left \in Seq({k} \cup Kids(k)) /\ client[k].left # <<>>
      BY <2>1, <2>4 DEF PollRow, Tab
    <3>2. Head(client[k].left) \in Paths
      BY <2>1, <3>1, HeadTailProperties, KidIsPath
    <3>3. QED BY <1>2, <1>3, <2>4, <3>2 DEF PollRow
  <2>5. CASE PollCurrent(k) BY <1>2, <1>3, <2>1, <2>5 DEF PollCurrent
  <2>6. QED BY <1>4, <2>2, <2>3, <2>4, <2>5 DEF Browser
<1>5. ASSUME NEW k \in Pages, NEW force \in BOOLEAN, OpenPage(k, force) PROVE OwnedInv'
  BY <1>5, UnchangedKeepsOwned DEF OpenPage
<1>6. ASSUME NEW k \in Pages, NEW p \in Paths, EnsureKnown(k, p) PROVE OwnedInv'
  BY <1>1, <1>6 DEF EnsureKnown
<1>7. ASSUME NEW p \in Paths, CoolDown(p) PROVE OwnedInv'
  BY <1>7, UnchangedKeepsOwned DEF CoolDown
<1>8. \A p \in Paths : ~Prime(p) /\ ~Invalidate(p)
  BY DEF OneEpoch, Prime, Invalidate, Mishap
<1>9. HttpFlushEnds => OwnedInv' BY UnchangedKeepsOwned DEF HttpFlushEnds
<1>10. QED BY <1>4, <1>5, <1>6, <1>7, <1>8, <1>9, FlushRecordKeepsOwned DEF Next
-----------------------------------------------------------------------------
(* Steps of the workers *)

(* A worker's step keeps every part of the invariant but the last, if the *)
(* folders that others list stay unlisted and owned. *)
LEMMA WorkerServes ==
  ASSUME CacheInv, OwnedInv, NEW w \in Workers, NEW rec, Moves(w, rec), UNCHANGED disk,
         NEW x, Settled(x, {}), st' = x,
         \A q \in Paths : st.direct[q] # 0 => x.direct[q] # 0,
         \A v \in Workers \ {w} : Listing(v) => x.direct[Doing(v)] = 0 /\ inProgress'[Doing(v)] # 0,
         Serves(rec, x.direct, inProgress'),
         \A v \in Workers \ {w} : Apart(rec, worker[v]), (OwnedHasWork)'
  PROVE  OwnedInv'
<1>1. /\ DOMAIN worker = Workers
      /\ \A v \in Workers : worker[v].pc # "idle" => worker[v].path \in Paths
  BY DEF CacheInv, Working, Employed
<1>2. worker'[w] = rec /\ \A v \in Workers \ {w} : worker'[v] = worker[v]
  BY <1>1 DEF Moves
<1>3. (Settled(st, {}))' BY SettledNext
<1>4. ASSUME NEW v \in Workers \ {w} PROVE (Serves(worker[v], st.direct, inProgress))'
  <2>1. Serves(worker[v], st.direct, inProgress) /\ worker'[v] = worker[v]
    BY <1>2 DEF OwnedInv
  <2>2. worker[v].pc \in {"list", "commit"} =>
          st'.direct[worker[v].path] = 0 /\ inProgress'[worker[v].path] # 0
    BY DEF Listing, Doing
  <2>3. worker[v].pc \in {"done", "final"} /\ st.direct[worker[v].path] # 0 =>
          st'.direct[worker[v].path] # 0
    BY <1>1
  <2>4. QED BY <2>1, <2>2, <2>3 DEF Serves, Decided, Kids
<1>5. (Serves(worker[w], st.direct, inProgress))'
  BY <1>2 DEF Serves, Decided, Kids
<1>6. ASSUME NEW u \in Workers, NEW v \in Workers, u # v
      PROVE  (Apart(worker[u], worker[v]))'
  <2>1. Apart(worker[u], worker[v]) BY <1>6 DEF OwnedInv
  <2>2. QED BY <1>2, <1>6, <2>1 DEF Apart, Claims
<1>7. \A p \in Paths : (Decided(disk[p]))' BY DEF OwnedInv, Decided
<1>8. QED BY <1>3, <1>4, <1>5, <1>6, <1>7 DEF OwnedInv

(* Nor does an owned folder lose its work, if w goes on with its folder, or *)
(* the folder is released, or another worker has it. *)
LEMMA WorkStays ==
  ASSUME CacheInv, OwnedInv, NEW w \in Workers, NEW rec, Moves(w, rec),
         DOMAIN queue \subseteq DOMAIN queue',
         \A q \in Paths : inProgress'[q] # 0 =>
           inProgress[q] # 0 \/ \E j \in DOMAIN queue' : j.path = q,
         \/ rec.pc \notin {"idle", "flush"} /\ rec.path = Doing(w)
         \/ inProgress'[Doing(w)] = 0
         \/ worker[w].pc \in {"idle", "flush"}
         \/ \E v \in Workers \ {w} :
              worker[v].pc \notin {"idle", "flush"} /\ Doing(v) = Doing(w)
  PROVE  (OwnedHasWork)'
<1>1. DOMAIN worker = Workers BY DEF CacheInv, Working
<1>2. worker'[w] = rec /\ \A v \in Workers \ {w} : worker'[v] = worker[v]
  BY <1>1 DEF Moves
<1> SUFFICES ASSUME NEW p \in Paths, inProgress'[p] # 0 PROVE (HasWork(p))'
  BY DEF OwnedHasWork
<1>3. CASE \E j \in DOMAIN queue' : j.path = p BY <1>3 DEF HasWork
<1>4. CASE \E j \in DOMAIN queue : j.path = p BY <1>4 DEF HasWork
<1>5. CASE \E v \in Workers : worker[v].pc \notin {"idle", "flush"} /\ Doing(v) = p
  <2>1. PICK v \in Workers : worker[v].pc \notin {"idle", "flush"} /\ Doing(v) = p
    BY <1>5
  <2>2. CASE v # w BY <1>2, <2>1, <2>2 DEF HasWork, Doing
  <2>3. CASE v = w
    <3>1. CASE rec.pc \notin {"idle", "flush"} /\ rec.path = Doing(w)
      BY <1>2, <2>1, <2>3, <3>1 DEF HasWork, Doing
    <3>2. CASE \E u \in Workers \ {w} :
                 worker[u].pc \notin {"idle", "flush"} /\ Doing(u) = Doing(w)
      BY <1>2, <2>1, <2>3, <3>2 DEF HasWork, Doing
    <3>3. QED BY <2>1, <2>3, <3>1, <3>2
  <2>4. QED BY <2>2, <2>3
<1>6. inProgress[p] # 0 => HasWork(p) BY DEF OwnedInv, OwnedHasWork
<1>7. QED BY <1>3, <1>4, <1>5, <1>6 DEF HasWork

(* Both, for a step that leaves the accumulated state alone. *)
LEMMA WorkerMoves ==
  ASSUME CacheInv, OwnedInv, NEW w \in Workers, NEW rec, Moves(w, rec), UNCHANGED <<st, disk>>,
         \A v \in Workers \ {w} : Listing(v) => inProgress'[Doing(v)] # 0,
         Serves(rec, st.direct, inProgress'),
         \A v \in Workers \ {w} : Apart(rec, worker[v]), (OwnedHasWork)'
  PROVE  OwnedInv'
<1>1. Settled(st, {}) /\ \A v \in Workers : Serves(worker[v], st.direct, inProgress)
  BY DEF OwnedInv
<1>2. \A v \in Workers \ {w} : Listing(v) =>
        st.direct[Doing(v)] = 0 /\ inProgress'[Doing(v)] # 0
  BY <1>1 DEF Serves, Listing, Doing
<1>3. QED BY <1>1, <1>2, WorkerServes

(* The record of a worker that enters its finally block with force. *)
LEMMA ForcedFields ==
  ASSUME CacheInv, NEW w \in Workers, worker[w].pc # "idle", NEW rec,
         rec \in {Finishing(w, TRUE), [Finishing(w, TRUE) EXCEPT !.seen = None]}
  PROVE  /\ rec.pc = "final" /\ rec.force = TRUE
         /\ rec.claimed = worker[w].claimed /\ rec.path = Doing(w)
<1>1. DOMAIN worker[w] = JobFields BY DEF CacheInv, Working, Employed
<1>2. QED BY <1>1 DEF Finishing, JobFields, Doing

(* The record of a worker that enters it without. *)
LEMMA UnforcedFields ==
  ASSUME CacheInv, NEW w \in Workers, worker[w].pc # "idle", NEW rec,
         rec \in {Finishing(w, FALSE), [Finishing(w, FALSE) EXCEPT !.seen = None]}
  PROVE  rec.pc = "final" /\ rec.claimed = worker[w].claimed /\ rec.path = Doing(w)
<1>1. DOMAIN worker[w] = JobFields BY DEF CacheInv, Working, Employed
<1>2. QED BY <1>1 DEF Finishing, JobFields, Doing

(* The folder of a listing worker is claimed, owned and unlisted. *)
LEMMA ListingServes ==
  ASSUME CacheInv, ClaimInv, OwnedInv, NEW w \in Workers, Listing(w)
  PROVE  /\ worker[w].pc # "idle" /\ worker[w].claimed /\ Doing(w) \in Paths
         /\ st.direct[Doing(w)] = 0 /\ inProgress[Doing(w)] # 0
         /\ \A v \in Workers \ {w} : Listing(v) => Doing(v) # Doing(w)
<1>1. worker[w].pc # "idle" /\ worker[w].claimed
  BY DEF Listing, ClaimInv, ListingIsClaimed
<1>2. Doing(w) \in Paths BY <1>1, JobShape
<1>3. Serves(worker[w], st.direct, inProgress) BY DEF OwnedInv
<1>4. QED BY <1>1, <1>2, <1>3 DEF Serves, Listing, Doing, ClaimInv, SingleFlight

(* A worker that had claimed its folder, and still works on it. *)
LEMMA SameClaim ==
  ASSUME OwnedInv, NEW w \in Workers, NEW rec, worker[w].pc # "idle",
         rec.path = Doing(w), rec.claimed => worker[w].claimed
  PROVE  \A v \in Workers \ {w} : Apart(rec, worker[v])
  BY DEF OwnedInv, Apart, Claims, Doing

(* A listing ends without a result: the folder will be given up. *)
LEMMA ListingEnds ==
  ASSUME CacheInv, ClaimInv, OwnedInv, NEW w \in Workers, Listing(w), NEW rec, Moves(w, rec),
         rec \in {Finishing(w, TRUE), [Finishing(w, TRUE) EXCEPT !.seen = None]},
         UNCHANGED <<st, inProgress, queue, disk>>
  PROVE  OwnedInv'
<1>1. worker[w].pc # "idle" /\ worker[w].claimed BY ListingServes
<1>2. rec.pc = "final" /\ rec.force = TRUE /\ rec.claimed = worker[w].claimed
      /\ rec.path = Doing(w)
  BY <1>1, ForcedFields
<1>3. Serves(rec, st.direct, inProgress') BY <1>1, <1>2 DEF Serves
<1>4. \A v \in Workers \ {w} : Apart(rec, worker[v])
  BY <1>1, <1>2, SameClaim
<1>5. (OwnedHasWork)' BY <1>2, WorkStays
<1>6. \A v \in Workers \ {w} : Listing(v) => inProgress'[Doing(v)] # 0
  BY ListingServes
<1>7. QED BY <1>3, <1>4, <1>5, <1>6, WorkerMoves

(* A job is taken: its folder has a worker in place of the job. *)
LEMMA DequeueKeepsOwned ==
  ASSUME CacheInv, ClaimInv, OwnedInv, NEW w \in Workers, Dequeue(w)
  PROVE  OwnedInv'
<1> DEFINE Taken(j) == [pc |-> "got", path |-> j.path, epoch |-> j.epoch, depth |-> j.depth,
                        claimed |-> FALSE, force |-> FALSE, gen |-> 0, seen |-> None]
<1>1. PICK j \in DOMAIN queue : queue' = queue (-) SetToBag({j}) /\ Moves(w, Taken(j))
  BY DEF Dequeue
<1>2. worker[w].pc = "idle" /\ UNCHANGED <<st, inProgress, disk>>
  BY DEF Dequeue, At
<1>3. queue \in JobBags /\ DOMAIN worker = Workers
  BY DEF CacheInv, Owned, Working
<1>4. DOMAIN queue \ {j} \subseteq DOMAIN queue' BY <1>1, <1>3, QueueChanges
<1> DEFINE rec == Taken(j)
<1>5. rec.pc = "got" /\ rec.claimed = FALSE /\ rec.path = j.path
  OBVIOUS
<1>6. Moves(w, rec) BY <1>1
<1> HIDE DEF rec, Taken
<1>7. Serves(rec, st.direct, inProgress') BY <1>5 DEF Serves
<1>8. \A v \in Workers \ {w} : Apart(rec, worker[v])
  BY <1>5 DEF Apart, Claims
<1>9. worker'[w] = rec /\ \A v \in Workers \ {w} : worker'[v] = worker[v]
  BY <1>3, <1>6 DEF Moves
<1>10. ASSUME NEW p \in Paths, inProgress'[p] # 0 PROVE (HasWork(p))'
  <2>1. HasWork(p) BY <1>2, <1>10 DEF OwnedInv, OwnedHasWork
  <2>2. CASE \E k \in DOMAIN queue : k.path = p
    <3>1. PICK k \in DOMAIN queue : k.path = p BY <2>2
    <3>2. CASE k = j BY <1>5, <1>9, <3>1, <3>2 DEF HasWork, Doing
    <3>3. CASE k # j BY <1>4, <3>1, <3>3 DEF HasWork
    <3>4. QED BY <3>2, <3>3
  <2>3. CASE \E v \in Workers : worker[v].pc \notin {"idle", "flush"} /\ Doing(v) = p
    BY <1>2, <1>9, <2>3 DEF HasWork, Doing
  <2>4. QED BY <2>1, <2>2, <2>3 DEF HasWork
<1>11. (OwnedHasWork)' BY <1>10 DEF OwnedHasWork
<1>12. \A v \in Workers \ {w} : Listing(v) => inProgress'[Doing(v)] # 0
  BY <1>2, ListingServes
<1>13. QED BY <1>2, <1>6, <1>7, <1>8, <1>11, <1>12, WorkerMoves

(* The first locked section: the folder is claimed, or skipped because it is *)
(* not owned, was listed already or has another worker. *)
LEMMA ClaimKeepsOwned ==
  ASSUME OneEpoch, CacheInv, ClaimInv, OwnedInv, NEW w \in Workers, Claim(w)
  PROVE  OwnedInv'
<1> DEFINE p == Doing(w)
           skip(pc) == [worker[w] EXCEPT !.pc = pc]
           take == [worker[w] EXCEPT !.pc = "list", !.epoch = Epoch(w),
                                     !.claimed = TRUE, !.gen = generation[p]]
<1>1. worker[w].pc = "got" /\ UNCHANGED <<st, inProgress, queue, disk>>
  BY DEF Claim, At
<1>2. p \in Paths /\ Epoch(w) \in Epochs /\ DOMAIN worker[w] = JobFields
  BY <1>1, JobShape DEF Employed
<1>3. Epoch(w) = 1 /\ ~(Epoch(w) < minPage) /\ st.direct[p] \in {0, 1}
  BY <1>2, OneEpochValues
<1>4. ~worker[w].claimed BY <1>1 DEF OwnedInv, Serves
<1>5. \/ inProgress[p] = 0 /\ Moves(w, skip("flush"))
      \/ st.direct[p] # 0 /\ Moves(w, skip("done"))
      \/ Active(p) /\ Moves(w, skip("flush"))
      \/ inProgress[p] # 0 /\ st.direct[p] = 0 /\ ~Active(p) /\ Moves(w, take)
  BY <1>3 DEF Claim
<1>6. \A pc \in {"flush", "done"} :
        skip(pc).pc = pc /\ skip(pc).path = p /\ skip(pc).claimed = worker[w].claimed
  BY <1>2 DEF JobFields, Doing
<1>7. take.pc = "list" /\ take.path = p BY <1>2 DEF JobFields, Doing
<1> HIDE DEF skip, take, p
<1>8. p = Doing(w) BY DEF p
<1>9. \A v \in Workers \ {w} : Listing(v) => inProgress'[Doing(v)] # 0
  BY <1>1, ListingServes
<1>10. \A pc \in {"flush", "done"} : \A v \in Workers \ {w} : Apart(skip(pc), worker[v])
  BY <1>4, <1>6 DEF Apart, Claims
<1>11. Serves(skip("flush"), st.direct, inProgress')
  BY <1>4, <1>6 DEF Serves
<1>12. CASE inProgress[p] = 0 /\ Moves(w, skip("flush"))
  <2>1. (OwnedHasWork)' BY <1>1, <1>8, <1>12, WorkStays
  <2>2. QED BY <1>1, <1>9, <1>10, <1>11, <1>12, <2>1, WorkerMoves
<1>13. CASE st.direct[p] # 0 /\ Moves(w, skip("done"))
  <2>1. (OwnedHasWork)' BY <1>1, <1>6, <1>8, <1>13, WorkStays
  <2>2. Serves(skip("done"), st.direct, inProgress')
    BY <1>1, <1>4, <1>6, <1>13 DEF Serves
  <2>3. QED BY <1>1, <1>9, <1>10, <1>13, <2>1, <2>2, WorkerMoves
<1>14. CASE Active(p) /\ Moves(w, skip("flush"))
  <2>1. PICK v \in Workers : worker[v].pc # "idle" /\ worker[v].claimed /\ worker[v].path = p
    BY <1>14 DEF Active
  <2>2. v # w BY <1>4, <2>1
  <2>3. worker[v].pc \notin {"idle", "flush"} /\ Doing(v) = Doing(w)
    BY <1>8, <2>1 DEF OwnedInv, Serves, Doing
  <2>4. (OwnedHasWork)' BY <1>1, <1>14, <2>2, <2>3, WorkStays
  <2>5. QED BY <1>1, <1>9, <1>10, <1>11, <1>14, <2>4, WorkerMoves
<1>15. CASE inProgress[p] # 0 /\ st.direct[p] = 0 /\ ~Active(p) /\ Moves(w, take)
  <2>1. (OwnedHasWork)' BY <1>1, <1>7, <1>8, <1>15, WorkStays
  <2>2. Serves(take, st.direct, inProgress') BY <1>1, <1>7, <1>15 DEF Serves
  <2>3. \A v \in Workers \ {w} : Apart(take, worker[v])
    BY <1>7, <1>15 DEF Apart, Claims, Active
  <2>4. QED BY <1>1, <1>9, <1>15, <2>1, <2>2, <2>3, WorkerMoves
<1>16. QED BY <1>5, <1>12, <1>13, <1>14, <1>15

(* The folder had been listed: it is repaired, and will be given up. *)
LEMMA SkipDoneKeepsOwned ==
  ASSUME CacheInv, ClaimInv, OwnedInv, NEW w \in Workers, SkipDone(w)
  PROVE  OwnedInv'
<1> DEFINE x == Repair(st, Doing(w))
           rec == Finishing(w, FALSE)
<1>1. /\ worker[w].pc = "done" /\ st' = x /\ Moves(w, rec)
      /\ UNCHANGED <<inProgress, queue, disk>>
  BY DEF SkipDone, At
<1>2. /\ Doing(w) \in Paths /\ Linked(st) /\ GenTyped /\ Settled(st, {})
      /\ Serves(worker[w], st.direct, inProgress)
  BY <1>1, JobShape DEF CacheInv, Published, OwnedInv
<1>3. Settled(x, {}) /\ x.direct = st.direct BY <1>2, RepairSettles
<1>4. rec.pc = "final" /\ rec.claimed = worker[w].claimed /\ rec.path = Doing(w)
  BY <1>1, UnforcedFields
<1>5. st.direct[Doing(w)] # 0 BY <1>1, <1>2 DEF Serves, Doing
<1> HIDE DEF x, rec
<1>6. Serves(rec, x.direct, inProgress')
  BY <1>1, <1>3, <1>4, <1>5 DEF Serves
<1>7. \A v \in Workers \ {w} : Apart(rec, worker[v])
  BY <1>1, <1>4, SameClaim
<1>8. (OwnedHasWork)' BY <1>1, <1>4, WorkStays
<1>9. \A v \in Workers \ {w} : Listing(v) => x.direct[Doing(v)] = 0 /\ inProgress'[Doing(v)] # 0
  BY <1>1, <1>3, ListingServes
<1>10. QED BY <1>1, <1>3, <1>6, <1>7, <1>8, <1>9, WorkerServes

(* The listing: the records read beside it are decided. *)
LEMMA ListKeepsOwned ==
  ASSUME CacheInv, ClaimInv, OwnedInv, NEW w \in Workers, List(w)
  PROVE  OwnedInv'
<1> DEFINE seen == [c \in Kids(Doing(w)) |-> disk[c]]
           rec == [worker[w] EXCEPT !.pc = "commit", !.seen = seen]
<1>1. worker[w].pc = "list" /\ Moves(w, rec) /\ UNCHANGED <<st, inProgress, queue, disk>>
  BY DEF List, At
<1>2. Listing(w) BY <1>1 DEF Listing
<1>3. /\ worker[w].claimed /\ Doing(w) \in Paths
      /\ st.direct[Doing(w)] = 0 /\ inProgress[Doing(w)] # 0
  BY <1>2, ListingServes
<1>4. DOMAIN worker[w] = JobFields BY <1>1, JobShape DEF Employed
<1>5. \A c \in Kids(Doing(w)) : Decided(seen[c])
  BY <1>3, KidIsPath DEF OwnedInv
<1> HIDE DEF seen
<1>6. /\ rec.pc = "commit" /\ rec.path = Doing(w) /\ rec.seen = seen
      /\ rec.claimed = worker[w].claimed
  BY <1>4 DEF JobFields, Doing
<1> HIDE DEF rec
<1>7. Serves(rec, st.direct, inProgress')
  <2>1. st.direct[rec.path] = 0 /\ inProgress'[rec.path] # 0
    BY <1>1, <1>3, <1>6
  <2>2. \A c \in Kids(rec.path) : Decided(rec.seen[c]) BY <1>5, <1>6
  <2>3. QED BY <1>6, <2>1, <2>2 DEF Serves, Decided, Kids
<1>8. \A v \in Workers \ {w} : Apart(rec, worker[v])
  BY <1>1, <1>6, SameClaim
<1>9. (OwnedHasWork)' BY <1>1, <1>6, WorkStays
<1>10. \A v \in Workers \ {w} : Listing(v) => inProgress'[Doing(v)] # 0
  BY <1>1, ListingServes
<1>11. QED BY <1>1, <1>7, <1>8, <1>9, <1>10, WorkerMoves
(* A listing failed, or was overtaken. *)
LEMMA ListStopsKeepsOwned ==
  ASSUME CacheInv, ClaimInv, OwnedInv, NEW w \in Workers, ListFails(w) \/ ListSuperseded(w)
  PROVE  OwnedInv'
<1> DEFINE rec == Finishing(w, TRUE)
<1>1. /\ Listing(w) /\ Moves(w, rec) /\ UNCHANGED <<st, inProgress, queue, disk>>
  BY DEF ListFails, ListSuperseded, At, Listing
<1>2. rec \in {Finishing(w, TRUE), [Finishing(w, TRUE) EXCEPT !.seen = None]}
  OBVIOUS
<1> HIDE DEF rec
<1>3. QED BY <1>1, <1>2, ListingEnds

(* A step that ends a listing with a result: the folder was listed, and no *)
(* folder that another worker lists became so. *)
LEMMA ListingServed ==
  ASSUME CacheInv, ClaimInv, OwnedInv, NEW w \in Workers, Listing(w), NEW rec, Moves(w, rec),
         rec \in {Finishing(w, FALSE), [Finishing(w, FALSE) EXCEPT !.seen = None]},
         NEW x, Settled(x, {}), st' = x, UNCHANGED disk, x.direct[Doing(w)] # 0,
         \A q \in Paths : st.direct[q] # 0 => x.direct[q] # 0,
         \A q \in Paths \ {Doing(w)} : x.direct[q] # 0 => st.direct[q] # 0 \/ inProgress[q] = 0,
         DOMAIN queue \subseteq DOMAIN queue',
         \A q \in Paths : inProgress[q] # 0 => inProgress'[q] # 0,
         \A q \in Paths : inProgress'[q] # 0 =>
           inProgress[q] # 0 \/ \E j \in DOMAIN queue' : j.path = q
  PROVE  OwnedInv'
<1>1. worker[w].pc # "idle" /\ worker[w].claimed BY ListingServes
<1>2. rec.pc = "final" /\ rec.claimed = worker[w].claimed /\ rec.path = Doing(w)
  BY <1>1, UnforcedFields
<1>3. Serves(rec, x.direct, inProgress') BY <1>1, <1>2 DEF Serves
<1>4. \A v \in Workers \ {w} : Apart(rec, worker[v])
  BY <1>1, <1>2, SameClaim
<1>5. (OwnedHasWork)' BY <1>2, WorkStays
<1>6. \A v \in Workers \ {w} : Listing(v) => x.direct[Doing(v)] = 0 /\ inProgress'[Doing(v)] # 0
  BY ListingServes
<1>7. QED BY <1>3, <1>4, <1>5, <1>6, WorkerServes

(* An exception: the folder counts as listed, and is decided. *)
LEMMA JobFailsKeepsOwned ==
  ASSUME CacheInv, ClaimInv, OwnedInv, NEW w \in Workers, JobFails(w)
  PROVE  OwnedInv'
<1> DEFINE p == Doing(w)
           t == Epoch(w)
           new == [total |-> 0, gen |-> generation[p],
                   diff |-> IF HasLocalRoot THEN "diff" ELSE "unavailable"]
           a == IF st.acc[p] # None THEN st.acc[p] ELSE new
           pend == Pending(st, p)
           s == WithRecord(st, p, a, t)
           m == MarkDirty(s, p, TRUE)
           u == Propagate(m, p)
           x == OnSubtreeComplete(u, p)
<1>1. Listing(w) /\ worker[w].pc # "idle" /\ UNCHANGED <<inProgress, queue, disk>>
  BY DEF JobFails, At, Listing
<1>2. p \in Paths /\ t \in Epochs /\ st.direct[p] = 0 /\ inProgress[p] # 0
  BY <1>1, JobShape, ListingServes
<1>3. Linked(st) /\ st \in StateSet /\ GenTyped /\ Settled(st, {})
  BY DEF CacheInv, Published, Linked, OwnedInv
<1>4. CASE CalledOff(w)
  <2> DEFINE rec == Finishing(w, TRUE)
  <2>1. UNCHANGED st /\ Moves(w, rec) BY <1>4 DEF JobFails
  <2>2. rec \in {Finishing(w, TRUE), [Finishing(w, TRUE) EXCEPT !.seen = None]}
    OBVIOUS
  <2> HIDE DEF rec
  <2>3. QED BY <1>1, <2>1, <2>2, ListingEnds
<1>5. CASE ~CalledOff(w)
  <2> DEFINE rec == Finishing(w, FALSE)
  <2>1. st' = x /\ Moves(w, rec)
    <3>1. s = [st EXCEPT !.acc[p] = IF @ # None THEN @ ELSE new, !.direct[p] = Epoch(w),
                         !.pending[p] = Pending(st, p)]
      BY DEF WithRecord
    <3>2. QED BY <1>5, <3>1 DEF JobFails
  <2>2. rec \in {Finishing(w, FALSE), [Finishing(w, FALSE) EXCEPT !.seen = None]}
    OBVIOUS
  <2>3. a \in Acc /\ (Top(p) => a.gen \in {generation[p], None})
    <3>1. generation[p] \in Nat BY <1>2, <1>3 DEF GenTyped
    <3>2. new \in Acc /\ new.gen = generation[p] BY <3>1 DEF Acc
    <3> HIDE DEF new
    <3>3. st.acc[p] \in Acc \cup {None} BY <1>2, <1>3 DEF StateSet
    <3>4. QED BY <1>2, <1>3, <3>2, <3>3 DEF Linked
  <2>4. HasLocalRoot => a.diff # "loading"
    BY <1>2, <1>3 DEF Settled, Undecided
  <2> HIDE DEF a, rec
  <2>5. Linked(s) /\ s.acc[p] # None
    BY <1>2, <1>3, <2>3, RecordGrows DEF Grows
  <2>6. s = [st EXCEPT !.acc = [st.acc EXCEPT ![p] = a],
                       !.direct = [st.direct EXCEPT ![p] = t],
                       !.pending = [st.pending EXCEPT ![p] = pend]]
    BY <1>3 DEF WithRecord, StateSet
  <2> HIDE DEF s, pend, t
  <2>7. /\ s.acc[p] = a /\ \A q \in Paths \ {p} : s.acc[q] = st.acc[q]
        /\ s.direct[p] = t /\ \A q \in Paths \ {p} : s.direct[q] = st.direct[q]
        /\ s.pending[p] = pend /\ \A q \in Paths \ {p} : s.pending[q] = st.pending[q]
        /\ s.dirty = st.dirty /\ s.abandoned = st.abandoned
    BY <1>2, <1>3, <2>6 DEF StateSet
  <2>8. t # 0 BY <1>2, BoundsAndPages DEF Epochs
  <2>9. Settled(s, {}) /\ ~Undecided(s, p)
    <3>1. ~Undecided(s, p) BY <2>4, <2>7 DEF Undecided
    <3>2. \A q \in Paths \ {p} : /\ Undecided(s, q) = Undecided(st, q)
                                 /\ Pending(s, q) = Pending(st, q)
      BY <2>7 DEF Undecided, Pending
    <3>3. \A q \in Paths : WholeMark(s, q) = WholeMark(st, q)
      BY <2>7 DEF WholeMark
    <3>4. \A q \in Paths : s.direct[q] # 0 => s.acc[q] # None
      BY <1>3, <2>5, <2>7 DEF Settled
    <3>5. \A q \in Paths : Undecided(s, q) => s.direct[q] # 0 /\ Pending(s, q) # {}
      BY <1>3, <2>7, <3>1, <3>2 DEF Settled
    <3>6. \A q \in Paths : WholeMark(s, q) => s.direct[q] # 0 /\ ~Undecided(s, q)
      BY <1>3, <2>7, <2>8, <3>1, <3>2, <3>3 DEF Settled
    <3>7. Settled(s, {}) BY <1>3, <2>7, <3>4, <3>5, <3>6 DEF Settled
    <3>8. QED BY <3>1, <3>7
  <2>10. Settled(m, {}) /\ m.direct = s.direct /\ Linked(m) /\ m.acc[p] # None
    <3>1. Settled(m, {}) /\ SameLists(s, m) /\ m.acc = s.acc
      BY <1>2, <2>5, <2>7, <2>8, <2>9, MarkDirtySettles
    <3>2. Linked(m) BY <1>2, <2>5, MarkDirtyGrows DEF Grows
    <3>3. QED BY <2>5, <3>1, <3>2 DEF SameLists
  <2> HIDE DEF m
  <2>11. Settled(u, {}) /\ u.direct = s.direct /\ Linked(u)
    BY <1>2, <2>10, PropagateSettles DEF SameLists
  <2> HIDE DEF u
  <2>12. Settled(x, {}) /\ x.direct = s.direct
    BY <1>2, <1>3, <2>11, OnSubtreeCompleteSettles
  <2> HIDE DEF x
  <2>13. x.direct[p] # 0 /\ \A q \in Paths \ {p} : x.direct[q] = st.direct[q]
    BY <2>7, <2>8, <2>12
  <2>14. \A q \in Paths : st.direct[q] # 0 => x.direct[q] # 0 BY <2>13
  <2>15. /\ DOMAIN queue \subseteq DOMAIN queue' /\ x.direct[Doing(w)] # 0
         /\ \A q \in Paths : inProgress[q] # 0 => inProgress'[q] # 0
         /\ \A q \in Paths : inProgress'[q] # 0 =>
              inProgress[q] # 0 \/ \E j \in DOMAIN queue' : j.path = q
         /\ \A q \in Paths \ {Doing(w)} : x.direct[q] # 0 => st.direct[q] # 0 \/ inProgress[q] = 0
    BY <1>1, <2>13
  <2> HIDE DEF p
  <2>16. QED BY <1>1, <2>1, <2>2, <2>12, <2>14, <2>15, ListingServed
<1>6. QED BY <1>4, <1>5

(* _compute's locked section: its subfolders become owned with a job, or *)
(* listed if nobody owns them. *)
LEMMA CommitKeepsOwned ==
  ASSUME OneEpoch, CacheInv, ClaimInv, OwnedInv, NEW w \in Workers, Commit(w)
  PROVE  OwnedInv'
<1> DEFINE p == Doing(w)
           Ended(force) == [Finishing(w, force) EXCEPT !.seen = None]
           b == [s |-> Begun(w), owned |-> inProgress, q |-> queue]
           y == Listed(w)
           x == MaybeComplete(y.s, p)
<1>1. /\ worker[w].pc = "commit" /\ Listing(w) /\ worker[w].pc # "idle" /\ UNCHANGED disk
  BY DEF Commit, At, Listing
<1>2. /\ p \in Paths /\ Epoch(w) \in Epochs /\ Employed(worker[w])
      /\ st.direct[p] = 0 /\ inProgress[p] # 0
  BY <1>1, JobShape, ListingServes
<1>3. /\ Linked(st) /\ GenTyped /\ Settled(st, {}) /\ queue \in JobBags
      /\ inProgress \in [Paths -> 0..MaxPage]
      /\ Serves(worker[w], st.direct, inProgress)
  BY DEF CacheInv, Published, Owned, OwnedInv
<1>4. CASE CalledOff(w)
  <2> DEFINE rec == Ended(TRUE)
  <2>1. UNCHANGED <<st, inProgress, queue>> /\ Moves(w, rec)
    BY <1>4 DEF Commit
  <2>2. rec \in {Finishing(w, TRUE), [Finishing(w, TRUE) EXCEPT !.seen = None]}
    OBVIOUS
  <2> HIDE DEF rec
  <2>3. QED BY <1>1, <2>1, <2>2, ListingEnds
<1>5. CASE ~CalledOff(w)
  <2> DEFINE rec == Ended(FALSE)
  <2>1. st' = x /\ inProgress' = y.owned /\ queue' = y.q /\ Moves(w, rec)
    BY <1>5 DEF Commit
  <2>2. rec \in {Finishing(w, FALSE), [Finishing(w, FALSE) EXCEPT !.seen = None]}
    OBVIOUS
  <2> HIDE DEF rec, Ended
  <2>3. worker[w].depth \in 0..DepthCap /\ worker[w].seen \in [Kids(p) -> Record \cup {None}]
    BY <1>1, <1>2 DEF Employed, Doing
  <2>4. \A c \in Kids(p) : Decided(worker[w].seen[c])
    BY <1>1, <1>3 DEF Serves, Doing
  <2>5. ~(Epoch(w) < minPage) BY <1>2, OneEpochValues
  <2>6. y = Listed(w)
    OBVIOUS
  <2>7. Linked(y.s)
    BY <1>2, <1>3, <1>5, <2>3, ListedIsLinked DEF Grows, Adding
  <2> HIDE DEF y
  <2>8. Settled(y.s, {p}) /\ OnlyAdds(b, y)
    BY <1>2, <1>3, <1>5, <2>3, <2>4, <2>5, <2>6, ListedSettles
  <2>9. b.s.direct[p] # 0 /\ \A q \in Paths \ {p} : b.s.direct[q] = st.direct[q]
    BY <1>2, <1>3, <1>5, BegunSettles
  <2>10. b.owned = inProgress /\ b.q = queue
    OBVIOUS
  <2> HIDE DEF b
  <2>11. y.s.direct[p] # 0 BY <1>2, <2>8, <2>9 DEF OnlyAdds
  <2>12. Settled(x, {}) /\ x.direct = y.s.direct
    BY <1>2, <1>3, <2>7, <2>8, <2>11, MaybeCompleteSettles
  <2> HIDE DEF x
  <2>13. /\ DOMAIN queue \subseteq DOMAIN queue'
         /\ \A q \in Paths : inProgress[q] # 0 => inProgress'[q] # 0
         /\ \A q \in Paths : inProgress'[q] # 0 =>
              inProgress[q] # 0 \/ \E j \in DOMAIN queue' : j.path = q
    BY <2>1, <2>8, <2>10 DEF OnlyAdds
  <2>14. \A q \in Paths : st.direct[q] # 0 => x.direct[q] # 0
    BY <1>2, <2>8, <2>9, <2>12 DEF OnlyAdds
  <2>15. \A q \in Paths \ {p} : x.direct[q] # 0 => st.direct[q] # 0 \/ inProgress[q] = 0
    BY <2>8, <2>9, <2>10, <2>12 DEF OnlyAdds
  <2>16. x.direct[p] # 0 BY <2>11, <2>12
  <2>17. QED BY <1>1, <2>1, <2>2, <2>12, <2>13, <2>14, <2>15, <2>16, ListingServed
<1>6. QED BY <1>4, <1>5

(* The finally block gives the folder up: it was listed, or is left alone. *)
LEMMA FinishKeepsOwned ==
  ASSUME OneEpoch, CacheInv, ClaimInv, OwnedInv, NEW w \in Workers, Finish(w)
  PROVE  OwnedInv'
<1> DEFINE p == Doing(w)
           rec == [worker[w] EXCEPT !.pc = "flush", !.claimed = FALSE]
<1>1. /\ worker[w].pc = "final" /\ Moves(w, rec) /\ UNCHANGED <<st, queue, disk>>
      /\ inProgress' = IF worker[w].force \/ st.direct[p] >= inProgress[p]
                         THEN [inProgress EXCEPT ![p] = 0] ELSE inProgress
  BY DEF Finish, At
<1>2. p \in Paths /\ DOMAIN worker[w] = JobFields /\ inProgress \in [Paths -> 0..MaxPage]
  BY <1>1, JobShape DEF Employed, CacheInv, Owned
<1>3. rec.pc = "flush" /\ rec.claimed = FALSE /\ rec.path = p
  BY <1>2 DEF JobFields, Doing
<1> HIDE DEF rec
<1>4. inProgress[p] \in {0, 1} /\ st.direct[p] \in {0, 1}
  BY <1>2, OneEpochValues
<1>5. Serves(worker[w], st.direct, inProgress) BY DEF OwnedInv
<1>6. worker[w].force \/ st.direct[p] # 0 BY <1>1, <1>5 DEF Serves, Doing
<1>7. inProgress' = [inProgress EXCEPT ![p] = 0] BY <1>1, <1>4, <1>6
<1>8. inProgress'[p] = 0 /\ \A q \in Paths \ {p} : inProgress'[q] = inProgress[q]
  BY <1>2, <1>7
<1>9. ASSUME NEW v \in Workers \ {w}, Listing(v) PROVE inProgress'[Doing(v)] # 0
  <2>1. /\ worker[v].pc # "idle" /\ worker[v].claimed /\ Doing(v) \in Paths
        /\ st.direct[Doing(v)] = 0 /\ inProgress[Doing(v)] # 0
    BY <1>9, ListingServes
  <2>2. Doing(v) # p
    <3>1. CASE worker[w].claimed
      <4>1. Apart(worker[v], worker[w]) BY DEF OwnedInv
      <4>2. QED BY <1>1, <2>1, <3>1, <4>1 DEF Apart, Claims, Doing
    <3>2. CASE ~worker[w].claimed
      <4>1. st.direct[p] # 0 BY <1>1, <1>5, <3>2 DEF Serves, Doing
      <4>2. QED BY <2>1, <4>1
    <3>3. QED BY <3>1, <3>2
  <2>3. QED BY <1>8, <2>1, <2>2
<1>10. Serves(rec, st.direct, inProgress') BY <1>3 DEF Serves
<1>11. \A v \in Workers \ {w} : Apart(rec, worker[v])
  BY <1>3 DEF Apart, Claims
<1>12. (OwnedHasWork)'
  <2>1. \A q \in Paths : inProgress'[q] # 0 => inProgress[q] # 0 BY <1>8
  <2>2. inProgress'[Doing(w)] = 0 BY <1>8
  <2> HIDE DEF p
  <2>3. QED BY <1>1, <2>1, <2>2, WorkStays
<1>13. QED BY <1>1, <1>9, <1>10, <1>11, <1>12, WorkerMoves

(* The worker's flush ends. *)
LEMMA FlushEndsKeepsOwned ==
  ASSUME CacheInv, ClaimInv, OwnedInv, NEW w \in Workers, FlushEnds(w)
  PROVE  OwnedInv'
<1>1. worker[w].pc = "flush" /\ Moves(w, Idle) /\ UNCHANGED <<st, inProgress, queue, disk>>
  BY DEF FlushEnds, At
<1>2. Idle.pc = "idle" BY DEF Idle
<1>3. Serves(Idle, st.direct, inProgress') BY <1>2 DEF Serves
<1>4. \A v \in Workers \ {w} : Apart(Idle, worker[v])
  BY <1>2 DEF Apart, Claims
<1>5. (OwnedHasWork)' BY <1>1, WorkStays
<1>6. \A v \in Workers \ {w} : Listing(v) => inProgress'[Doing(v)] # 0
  BY <1>1, ListingServes
<1>7. QED BY <1>1, <1>3, <1>4, <1>5, <1>6, WorkerMoves

(* Every step, for one page epoch. *)
LEMMA OwnedStep ==
  ASSUME OneEpoch, CacheInv, ClaimInv, OwnedInv, [Next]_vars
  PROVE  OwnedInv'
<1>1. ASSUME NEW w \in Workers, WorkerStep(w) PROVE OwnedInv'
  <2>1. ~SkipStale(w) BY DEF OwnedInv, Serves, SkipStale, At
  <2>2. CASE Dequeue(w) \/ Claim(w) \/ SkipDone(w) \/ List(w)
    BY <2>2, DequeueKeepsOwned, ClaimKeepsOwned, SkipDoneKeepsOwned, ListKeepsOwned
  <2>3. CASE ListFails(w) \/ ListSuperseded(w) \/ JobFails(w) \/ Commit(w)
    BY <2>3, ListStopsKeepsOwned, JobFailsKeepsOwned, CommitKeepsOwned
  <2>4. CASE Finish(w) \/ FlushEnds(w)
    BY <2>4, FinishKeepsOwned, FlushEndsKeepsOwned
  <2>5. QED BY <1>1, <2>1, <2>2, <2>3, <2>4 DEF WorkerStep
<1>2. CASE Next /\ ~\E w \in Workers : WorkerStep(w) BY <1>2, OthersKeep
<1>3. CASE UNCHANGED vars BY <1>3, UnchangedKeepsOwned DEF vars
<1>4. QED BY <1>1, <1>2, <1>3

(* It holds initially. *)
LEMMA InitOwned == Init => OwnedInv
<1> SUFFICES ASSUME Init PROVE OwnedInv
  OBVIOUS
<1>1. Settled(st, {})
  BY NoneIsNothing DEF Init, Settled, Undecided, WholeMark
<1>2. \A p \in Paths : Decided(disk[p]) BY DEF Init, Decided
<1>3. \A w \in Workers : worker[w].pc = "idle" BY DEF Init, Idle
<1>4. \A w \in Workers : Serves(worker[w], st.direct, inProgress)
  BY <1>3 DEF Serves
<1>5. \A v, w \in Workers : Apart(worker[v], worker[w])
  BY <1>3 DEF Apart, Claims
<1>6. OwnedHasWork BY DEF Init, OwnedHasWork
<1>7. QED BY <1>1, <1>2, <1>4, <1>5, <1>6 DEF OwnedInv

(* An owned folder has a queued job or a worker that will give it up, as *)
(* request() and serve_folder_info take for granted: while one page is shown *)
(* whose folders are not invalidated, whatever fails and however the tree, *)
(* the workers and the polls interleave. *)
THEOREM OwnedFoldersHaveWork ==
  ASSUME OneEpoch
  PROVE  Spec => []OwnedHasWork
<1>1. CacheInv /\ ClaimInv /\ OwnedInv /\ [Next]_vars => OwnedInv'
  BY OwnedStep
<1>2. OwnedInv => OwnedHasWork BY DEF OwnedInv
<1>3. QED BY <1>1, <1>2, InitOwned, CacheInvHolds, ClaimsHold, PTL DEF Spec

-----------------------------------------------------------------------------
(* Sums over finite sets *)

(* Among subsets of a finite set there is a smallest one. *)
LEMMA SmallestSubset ==
  ASSUME NEW S, IsFiniteSet(S), NEW B, B \subseteq SUBSET S, B # {}
  PROVE  \E T \in B : \A U \in SUBSET T : U # T => U \notin B
<1> DEFINE R == StrictSubsetOrdering(S)
<1>1. IsWellFoundedOn(R, FiniteSubsetsOf(S))
  BY FS_StrictSubsetOrderingWellFounded
<1>2. B \subseteq FiniteSubsetsOf(S) BY FS_Subset DEF FiniteSubsetsOf
<1> HIDE DEF R
<1>3. PICK T \in B : \A U \in B : <<U, T>> \notin R BY <1>1, <1>2, WFMin
<1>4. ASSUME NEW U \in SUBSET T, U # T, U \in B PROVE FALSE
  <2>1. <<U, T>> \in R
    BY <1>4, U \subseteq S, T \subseteq S DEF R, StrictSubsetOrdering
  <2>2. QED BY <1>3, <1>4, <2>1
<1>5. QED BY <1>3, <1>4

(* It is in the set. *)
LEMMA FirstIsIn == \A S : S # {} => FirstOf(S) \in S
  BY DEF FirstOf

(* Two such sums agree. *)
LEMMA SumsAgree ==
  ASSUME NEW f, NEW S, IsFiniteSet(S), NEW A, NEW B, S \subseteq A, S \subseteq B,
         NEW g, Sums(f, A, g), NEW h, Sums(f, B, h)
  PROVE  g[S] = h[S]
<1> DEFINE Bad == {T \in SUBSET S : g[T] # h[T]}
<1> SUFFICES ASSUME Bad # {} PROVE FALSE
  OBVIOUS
<1>1. PICK T \in Bad : \A U \in SUBSET T : U # T => U \notin Bad
  <2>1. Bad \subseteq SUBSET S
    OBVIOUS
  <2> HIDE DEF Bad
  <2>2. QED BY <2>1, SmallestSubset
<1>2. T \subseteq S /\ g[T] # h[T] /\ T \in SUBSET A /\ T \in SUBSET B
  OBVIOUS
<1>3. T # {} BY <1>2 DEF Sums
<1> DEFINE U == T \ {FirstOf(T)}
<1>4. U \in SUBSET T /\ U # T BY <1>3, FirstIsIn
<1>5. g[U] = h[U] BY <1>1, <1>2, <1>4
<1>6. QED BY <1>2, <1>3, <1>5 DEF Sums

(* There is one over every finite set. *)
LEMMA SumsExist ==
  ASSUME NEW f, NEW S, IsFiniteSet(S)
  PROVE  \E h : Sums(f, S, h)
<1> DEFINE Bad == {T \in SUBSET S : ~\E h : Sums(f, T, h)}
<1> SUFFICES ASSUME Bad # {} PROVE FALSE
  <2>1. S \in Bad \/ \E h : Sums(f, S, h)
    OBVIOUS
  <2>2. QED BY <2>1
<1>1. PICK T \in Bad : \A U \in SUBSET T : U # T => U \notin Bad
  <2>1. Bad \subseteq SUBSET S
    OBVIOUS
  <2> HIDE DEF Bad
  <2>2. QED BY <2>1, SmallestSubset
<1>2. T \subseteq S /\ ~\E h : Sums(f, T, h)
  OBVIOUS
<1> DEFINE G(U) == CHOOSE h : Sums(f, U, h)
<1>3. ASSUME NEW U \in SUBSET T, U # T PROVE Sums(f, U, G(U))
  <2>1. \E h : Sums(f, U, h) BY <1>1, <1>2, <1>3
  <2>2. QED BY <2>1
<1> HIDE DEF Bad, G
<1> DEFINE less(U) == U \ {FirstOf(U)}
           h == [U \in SUBSET T |-> IF U = {} THEN 0 ELSE f[FirstOf(U)] + G(less(U))[less(U)]]
<1>4. \A U \in SUBSET T : U # {} => less(U) \in SUBSET T /\ less(U) # T
  BY FirstIsIn
<1>5. ASSUME NEW U \in SUBSET T, U # {} PROVE h[less(U)] = G(less(U))[less(U)]
  <2>1. less(U) \in SUBSET T /\ less(U) # T BY <1>4, <1>5
  <2> DEFINE V == less(U)
  <2>2. Sums(f, V, G(V)) BY <1>3, <2>1
  <2> HIDE DEF less
  <2>3. CASE V = {} BY <2>1, <2>2, <2>3 DEF Sums
  <2>4. CASE V # {}
    <3>1. less(V) \in SUBSET V /\ less(V) \in SUBSET T /\ less(V) # T
      BY <1>4, <2>1, <2>4 DEF less
    <3>2. Sums(f, less(V), G(less(V))) BY <1>3, <3>1
    <3>3. IsFiniteSet(less(V)) BY <1>2, <3>1, FS_Subset
    <3>4. G(V)[less(V)] = G(less(V))[less(V)]
      BY <2>2, <3>1, <3>2, <3>3, SumsAgree
    <3>5. G(V)[V] = f[FirstOf(V)] + G(V)[less(V)]
      BY <2>2, <2>4 DEF Sums, less
    <3>6. h[V] = f[FirstOf(V)] + G(less(V))[less(V)] BY <2>1, <2>4
    <3>7. QED BY <3>4, <3>5, <3>6
  <2>5. QED BY <2>3, <2>4
<1>6. Sums(f, T, h)
  <2>1. h = [U \in SUBSET T |-> h[U]]
    OBVIOUS
  <2>2. \A U \in SUBSET T : h[U] = IF U = {} THEN 0 ELSE f[FirstOf(U)] + G(less(U))[less(U)]
    OBVIOUS
  <2> HIDE DEF h
  <2>3. QED BY <1>5, <2>1, <2>2 DEF Sums
<1>7. QED BY <1>2, <1>6

(* SumOver takes such a sum. *)
LEMMA SumOverIs ==
  ASSUME NEW f, NEW S, IsFiniteSet(S), NEW A, S \subseteq A, NEW g, Sums(f, A, g)
  PROVE  SumOver(f, S) = g[S]
<1> DEFINE Eq(h) == h = [T \in SUBSET S |-> IF T = {} THEN 0
                           ELSE f[CHOOSE x \in T : TRUE] + h[T \ {CHOOSE x \in T : TRUE}]]
           iter == CHOOSE h : Eq(h)
<1>1. SumOver(f, S) = iter[S]
  BY DEF SumOver, FoldFunctionOnSet, MapThenFoldSet
<1>2. PICK h : Sums(f, S, h) BY SumsExist
<1>3. Eq(h) BY <1>2 DEF Sums, FirstOf
<1>4. Eq(iter)
  <2> HIDE DEF Eq
  <2>1. QED BY <1>3
<1>5. Sums(f, S, iter)
  <2> HIDE DEF iter
  <2>1. QED BY <1>4 DEF Sums, FirstOf
<1>6. QED BY <1>1, <1>5, SumsAgree

(* One element of the sum at a time, in the fold's order. *)
LEMMA SumTakes ==
  ASSUME NEW f, NEW S, IsFiniteSet(S)
  PROVE  /\ SumOver(f, {}) = 0
         /\ S # {} => /\ FirstOf(S) \in S
                      /\ SumOver(f, S) = f[FirstOf(S)] + SumOver(f, S \ {FirstOf(S)})
<1>1. PICK g : Sums(f, S, g) BY SumsExist
<1>2. \A T \in SUBSET S : SumOver(f, T) = g[T] BY <1>1, FS_Subset, SumOverIs
<1>3. QED BY <1>1, <1>2, FirstIsIn DEF Sums

(* A sum of integers is one. *)
LEMMA SumIsInt ==
  ASSUME NEW f, NEW S, IsFiniteSet(S), \A x \in S : f[x] \in Int
  PROVE  SumOver(f, S) \in Int
<1> DEFINE Bad == {T \in SUBSET S : SumOver(f, T) \notin Int}
<1> SUFFICES ASSUME Bad # {} PROVE FALSE
  OBVIOUS
<1>1. PICK T \in Bad : \A U \in SUBSET T : U # T => U \notin Bad
  <2>1. Bad \subseteq SUBSET S
    OBVIOUS
  <2> HIDE DEF Bad
  <2>2. QED BY <2>1, SmallestSubset
<1>2. T \subseteq S /\ SumOver(f, T) \notin Int /\ IsFiniteSet(T)
  BY FS_Subset
<1>3. T # {}
  <2>1. SumOver(f, {}) = 0 BY <1>2, SumTakes
  <2>2. QED BY <1>2, <2>1
<1>4. /\ FirstOf(T) \in T
      /\ SumOver(f, T) = f[FirstOf(T)] + SumOver(f, T \ {FirstOf(T)})
  BY <1>2, <1>3, SumTakes
<1>5. SumOver(f, T \ {FirstOf(T)}) \in Int BY <1>1, <1>2, <1>4
<1>6. QED BY <1>2, <1>4, <1>5

(* Any element can be taken out. *)
LEMMA SumWithout ==
  ASSUME NEW f, NEW S, IsFiniteSet(S), \A x \in S : f[x] \in Int
  PROVE  \A x \in S : SumOver(f, S) = f[x] + SumOver(f, S \ {x})
<1> DEFINE Splits(T, x) == SumOver(f, T) = f[x] + SumOver(f, T \ {x})
           Bad == {T \in SUBSET S : \E x \in T : ~Splits(T, x)}
<1> SUFFICES ASSUME Bad # {} PROVE FALSE
  <2>1. S \in Bad \/ \A x \in S : Splits(S, x)
    OBVIOUS
  <2>2. QED BY <2>1
<1>1. PICK T \in Bad : \A U \in SUBSET T : U # T => U \notin Bad
  <2>1. Bad \subseteq SUBSET S
    OBVIOUS
  <2> HIDE DEF Bad
  <2>2. QED BY <2>1, SmallestSubset
<1>2. PICK x \in T : ~Splits(T, x)
  OBVIOUS
<1>3. T \subseteq S /\ IsFiniteSet(T) BY FS_Subset
<1>4. \A U \in SUBSET T : U # T => \A z \in U : Splits(U, z) BY <1>1, <1>3
<1> DEFINE y == FirstOf(T)
<1>5. y \in T /\ Splits(T, y) BY <1>2, <1>3, SumTakes
<1> HIDE DEF y, Bad
<1>6. x # y BY <1>2, <1>5
<1> DEFINE V == (T \ {y}) \ {x}
<1>7. V = (T \ {x}) \ {y} /\ V \subseteq S BY <1>3
<1>8. Splits(T \ {y}, x) /\ Splits(T \ {x}, y)
  BY <1>2, <1>4, <1>5, <1>6, Zenon
<1>9. IsFiniteSet(V) BY <1>3, <1>7, FS_Subset
<1>10. f[x] \in Int /\ f[y] \in Int /\ SumOver(f, V) \in Int
  BY <1>2, <1>3, <1>5, <1>7, <1>9, SumIsInt
<1> HIDE DEF V
<1>11. /\ SumOver(f, T) = f[y] + SumOver(f, T \ {y})
       /\ SumOver(f, T \ {y}) = f[x] + SumOver(f, V)
       /\ SumOver(f, T \ {x}) = f[y] + SumOver(f, V)
  BY <1>5, <1>7, <1>8 DEF V
<1>12. Splits(T, x) BY <1>10, <1>11
<1>13. QED BY <1>2, <1>12

(* Functions that agree on a set have the same sum over it. *)
LEMMA SumSame ==
  ASSUME NEW f, NEW g, NEW S, IsFiniteSet(S), \A x \in S : f[x] = g[x]
  PROVE  SumOver(f, S) = SumOver(g, S)
<1>1. PICK h : Sums(f, S, h) BY SumsExist
<1>2. Sums(g, S, h) BY <1>1, FirstIsIn DEF Sums
<1>3. QED BY <1>1, <1>2, SumOverIs

(* One element of the sum changes. *)
LEMMA SumChanges ==
  ASSUME NEW f, NEW S, IsFiniteSet(S), \A x \in S : f[x] \in Int,
         NEW p \in S, NEW g, g[p] \in Int, \A x \in S \ {p} : g[x] = f[x]
  PROVE  SumOver(g, S) = SumOver(f, S) - f[p] + g[p]
<1>1. IsFiniteSet(S \ {p}) /\ \A x \in S : g[x] \in Int BY FS_Subset
<1>2. SumOver(f, S \ {p}) = SumOver(g, S \ {p}) /\ SumOver(f, S \ {p}) \in Int
  BY <1>1, SumSame, SumIsInt
<1>3. SumOver(f, S) = f[p] + SumOver(f, S \ {p}) /\ SumOver(g, S) = g[p] + SumOver(g, S \ {p})
  BY <1>1, SumWithout
<1>4. QED BY <1>2, <1>3

(* An element that counts for nothing can be added. *)
LEMMA SumWithNothing ==
  ASSUME NEW f, NEW S, IsFiniteSet(S), \A x \in S : f[x] \in Int, NEW p, f[p] = 0
  PROVE  SumOver(f, S \cup {p}) = SumOver(f, S)
<1>1. CASE p \in S
  <2>1. S \cup {p} = S BY <1>1
  <2>2. QED BY <2>1
<1>2. CASE p \notin S
  <2>1. IsFiniteSet(S \cup {p}) /\ (S \cup {p}) \ {p} = S
    BY <1>2, FS_AddElement
  <2>2. SumOver(f, S \cup {p}) = f[p] + SumOver(f, S) BY <2>1, SumWithout
  <2>3. QED BY <2>2, SumIsInt
<1>3. QED BY <1>1, <1>2

-----------------------------------------------------------------------------
(* Totals add up *)

(* Two helpers in a row. *)
LEMMA PassesFurther ==
  ASSUME NEW V, NEW s, NEW x, NEW y, Passes(s, x, V), Passes(x, y, V)
  PROVE  Passes(s, y, V)
<1>1. \A q \in Paths : Pending(y, q) \subseteq Pending(s, q)
  BY DEF Passes, Hands
<1>2. \A q \in Paths : y.dirty[q] = TRUE => s.dirty[q] = TRUE \/ Pending(y, q) = {}
  BY DEF Passes, Hands
<1>3. QED BY <1>1, <1>2 DEF Passes, Hands

(* No helper at all. *)
LEMMA PassesSame == ASSUME NEW V, NEW s, Sound(s, V) PROVE Passes(s, s, V)
  BY DEF Passes, Hands

(* The subfolders of a folder are finitely many, their parts are numbers. *)
LEMMA AttachedAre ==
  ASSUME NEW s, s \in StateSet, NEW p \in Paths
  PROVE  /\ IsFiniteSet(Attached(s, p)) /\ \A c \in Attached(s, p) : s.contrib[c] \in Int
         /\ SumOver(s.contrib, Attached(s, p)) \in Int
<1>1. Attached(s, p) \subseteq Paths BY DEF Attached
<1>2. IsFiniteSet(Attached(s, p)) BY <1>1, TreeShape, FS_Subset
<1>3. \A c \in Attached(s, p) : s.contrib[c] \in Int BY <1>1 DEF StateSet
<1>4. QED BY <1>2, <1>3, SumIsInt

(* A step that leaves the parents, the parts and the totals alone. *)
LEMMA SameTotalsPass ==
  ASSUME NEW V, NEW s, Sound(s, V), NEW x, Grows(s, x), x.parent = s.parent, x.direct = s.direct,
         x.contrib = s.contrib,
         \A q \in Paths : Pending(x, q) \subseteq Pending(s, q),
         \A q \in Paths : s.acc[q] = None => x.acc[q] = None,
         \A q \in Paths : s.acc[q] # None => x.acc[q].total = s.acc[q].total,
         \A q \in Paths : x.dirty[q] = TRUE => s.dirty[q] = TRUE \/ Pending(x, q) = {}
  PROVE  Passes(s, x, V)
<1>1. \A q \in Paths : s.acc[q] # None <=> x.acc[q] # None
  BY DEF Grows, Keeps
<1>2. \A q \in Paths : Attached(x, q) = Attached(s, q) BY DEF Attached
<1>3. Tallied(x, V) BY <1>1, <1>2 DEF Tallied, Sound
<1>4. Homed(x) BY <1>1, s \in StateSet DEF Homed, Sound, Linked, StateSet
<1>5. QED BY <1>3, <1>4 DEF Passes, Hands, Sound, Grows

(* A dirty mark that is allowed. *)
LEMMA MarkDirtyPasses ==
  ASSUME NEW V, NEW s, Sound(s, V), NEW p \in Paths, s.acc[p] # None, NEW c \in BOOLEAN,
         c = TRUE => Pending(s, p) = {}
  PROVE  Passes(s, MarkDirty(s, p, c), V)
<1> DEFINE x == MarkDirty(s, p, c)
           b == c \/ (s.dirty[p] # None /\ s.dirty[p])
<1>1. s \in StateSet BY DEF Sound, Linked
<1>2. x = [s EXCEPT !.dirty = [s.dirty EXCEPT ![p] = b]]
  BY <1>1 DEF MarkDirty, StateSet
<1>3. s.dirty[p] \in BOOLEAN \cup {None} BY <1>1 DEF StateSet
<1>4. b \in BOOLEAN /\ (b = TRUE => c = TRUE \/ s.dirty[p] = TRUE) BY <1>3
<1>5. Grows(s, x) BY MarkDirtyGrows DEF Sound
<1> HIDE DEF b, x
<1>6. /\ x.acc = s.acc /\ x.pending = s.pending /\ x.direct = s.direct /\ x.contrib = s.contrib
      /\ x.parent = s.parent /\ x.dirty[p] = b /\ \A q \in Paths \ {p} : x.dirty[q] = s.dirty[q]
  BY <1>1, <1>2 DEF StateSet
<1>7. \A q \in Paths : Pending(x, q) = Pending(s, q) BY <1>6 DEF Pending
<1>8. Passes(s, x, V) BY <1>4, <1>5, <1>6, <1>7, SameTotalsPass
<1>9. QED BY <1>8 DEF x

(* A diff status changes. *)
LEMMA SetDiffPasses ==
  ASSUME NEW V, NEW s, Sound(s, V), NEW p \in Paths, s.acc[p] # None, NEW d \in Diffs
  PROVE  Passes(s, SetDiff(s, p, d), V)
<1> DEFINE x == SetDiff(s, p, d)
           a == [s.acc[p] EXCEPT !.diff = d]
<1>1. s \in StateSet BY DEF Sound, Linked
<1>2. x = SetAcc(s, p, a) /\ a \in Acc /\ s.acc[p] \in Acc BY <1>1, AccShape
<1>3. a.total = s.acc[p].total BY <1>2 DEF Acc
<1>4. Grows(s, x) BY SetDiffGrows DEF Sound
<1> HIDE DEF x, a
<1>5. x = [s EXCEPT !.acc = [s.acc EXCEPT ![p] = a]]
  BY <1>1, <1>2 DEF SetAcc, StateSet
<1>6. /\ x.pending = s.pending /\ x.direct = s.direct /\ x.contrib = s.contrib
      /\ x.parent = s.parent /\ x.dirty = s.dirty /\ x.acc[p] = a
      /\ \A q \in Paths \ {p} : x.acc[q] = s.acc[q]
  BY <1>1, <1>5 DEF StateSet
<1>7. \A q \in Paths : Pending(x, q) = Pending(s, q) BY <1>6 DEF Pending
<1>8. Passes(s, x, V) BY <1>3, <1>4, <1>6, <1>7, SameTotalsPass
<1>9. QED BY <1>8 DEF x

(* _note_diff of a folder in memory. *)
LEMMA NoteDiffPasses ==
  ASSUME NEW V, NEW s, Sound(s, V), NEW p \in Paths, s.acc[p] # None
  PROVE  Passes(s, NoteDiff(s, p), V)
<1>1. NoteDiff(s, p) = SetDiff(s, p, "diff") /\ "diff" \in Diffs
  BY DEF NoteDiff, SetDiff, Diffs
<1>2. QED BY <1>1, SetDiffPasses

(* _maybe_complete on one folder. *)
LEMMA FinishHerePasses ==
  ASSUME HasLocalRoot, NEW V, NEW s, Sound(s, V), NEW p \in Paths
  PROVE  Passes(s, FinishHere(s, p).s, V)
<1> DEFINE y == FinishHere(s, p)
           done == s.direct[p] # 0 /\ Pending(s, p) = {}
           partial == p \in s.abandoned \/ ((HasLocalRoot \/ s.acc[p].diff = "diff") /\ ~done)
           d == CASE s.acc[p].diff = "diff" -> "diff"
                  [] HasLocalRoot -> "synced"
                  [] OTHER -> "unavailable"
           z == SetDiff(s, p, d)
<1>1. y = IF s.acc[p] = None THEN [s |-> s, go |-> FALSE]
          ELSE IF partial THEN [s |-> MarkDirty(s, p, FALSE), go |-> FALSE]
          ELSE [s |-> MarkDirty(z, p, TRUE), go |-> TRUE]
  BY DEF FinishHere, SetDiff
<1>2. d \in Diffs BY DEF Diffs
<1>3. ~partial => Pending(s, p) = {}
  OBVIOUS
<1> HIDE DEF partial, d, y
<1>4. s.acc[p] # None => /\ Passes(s, z, V) /\ z.acc[p] # None
                         /\ ~partial => Pending(z, p) = {}
  <2>1. s.acc[p] # None => Passes(s, z, V) /\ z.acc[p] # None
    BY <1>2, SetDiffPasses, SetDiffGrows DEF Sound
  <2>2. QED BY <1>3, <2>1 DEF Passes, Hands
<1> HIDE DEF z
<1>5. CASE s.acc[p] = None BY <1>1, <1>5, PassesSame DEF y
<1>6. CASE s.acc[p] # None /\ partial
  <2>1. y.s = MarkDirty(s, p, FALSE) BY <1>1, <1>6
  <2>2. QED BY <1>6, <2>1, MarkDirtyPasses DEF y
<1>7. CASE s.acc[p] # None /\ ~partial
  <2>1. y.s = MarkDirty(z, p, TRUE) BY <1>1, <1>7
  <2>2. Passes(z, MarkDirty(z, p, TRUE), V)
    BY <1>4, <1>7, MarkDirtyPasses DEF Passes
  <2>3. QED BY <1>4, <1>7, <2>1, <2>2, PassesFurther DEF y
<1>8. QED BY <1>5, <1>6, <1>7

(* One step of propagate: the parent gains what the child's part gains. *)
LEMMA PropagateStepPasses ==
  ASSUME NEW V, NEW x, x \in Climbing, Sound(x.s, V), NEW p \in Paths, x.go => x.s.acc[p] # None,
         NEW y, y = PropagateStep(x, p)
  PROVE  Passes(x.s, y.s, V)
<1> DEFINE s == x.s
           q == x.s.parent[p]
           stop == \/ ~x.go \/ q = None
                   \/ q # None /\ (x.s.acc[q] = None \/ x.s.acc[p].total = x.s.contrib[p])
           delta == x.s.acc[p].total - x.s.contrib[p]
           z == [x.s EXCEPT !.contrib[p] = x.s.acc[p].total, !.acc[q].total = @ + delta]
           b == /\ z.direct[q] # 0
                /\ Pending(z, q) = {}
                /\ q \notin z.abandoned
<1>1. s \in StateSet /\ x.go \in BOOLEAN /\ x = [s |-> s, go |-> x.go] /\ Linked(s)
  BY DEF Climbing, Sound
<1>2. y = IF stop THEN [x EXCEPT !.go = FALSE] ELSE [go |-> TRUE, s |-> MarkDirty(z, q, b)]
  BY DEF PropagateStep
<1>3. b \in BOOLEAN /\ (b = TRUE => Pending(z, q) = {})
  OBVIOUS
<1> HIDE DEF stop, z, b
<1>4. CASE stop
  <2>1. y.s = s BY <1>1, <1>2, <1>4
  <2>2. QED BY <2>1, PassesSame
<1>5. CASE ~stop
  <2>1. x.go /\ q # None /\ s.acc[q] # None /\ s.acc[p] # None /\ q \in Paths
    BY <1>1, <1>5 DEF stop, StateSet
  <2>2. p \in Kids(q) /\ p # q
    <3>1. p \in Kids(q) BY <1>1, <2>1 DEF Linked
    <3>2. QED BY <3>1, NotOwnKid
  <2>3. s.acc[p].total \in Int /\ s.contrib[p] \in Int /\ s.acc[q] \in Acc
    BY <1>1, <2>1, AccShape DEF StateSet
  <2> DEFINE a == [s.acc[q] EXCEPT !.total = @ + delta]
  <2>4. a \in Acc /\ a.gen = s.acc[q].gen /\ a.total = s.acc[q].total + delta
    BY <2>3 DEF Acc
  <2>5. a # None BY <2>4, NoneApart
  <2>6. z = [s EXCEPT !.contrib = [s.contrib EXCEPT ![p] = s.acc[p].total],
                      !.acc = [s.acc EXCEPT ![q] = a]]
    BY <1>1 DEF StateSet, z
  <2> HIDE DEF a
  <2>7. /\ z \in StateSet /\ z.pending = s.pending /\ z.parent = s.parent
        /\ z.dirty = s.dirty /\ z.direct = s.direct /\ z.acc[q] = a
        /\ \A r \in Paths \ {q} : z.acc[r] = s.acc[r]
        /\ z.contrib[p] = s.acc[p].total /\ \A r \in Paths \ {p} : z.contrib[r] = s.contrib[r]
    BY <1>1, <2>1, <2>3, <2>4, <2>6 DEF StateSet
  <2>8. Linked(z) BY <1>1, <2>1, <2>4, <2>5, <2>7, SameLinksGrows DEF Grows
  <2>9. \A r \in Paths : Attached(z, r) = Attached(s, r)
    BY <2>7 DEF Attached
  <2>10. \A r \in Paths : s.acc[r] = None <=> z.acc[r] = None
    BY <2>1, <2>5, <2>7
  <2>11. Homed(z) BY <1>1, <2>7, <2>10 DEF Homed, Sound, StateSet
  <2>12. Tallied(z, V)
    <3>1. p \in Attached(s, q) /\ s.parent[p] = q BY DEF Attached
    <3>2. SumOver(z.contrib, Attached(s, q)) = SumOver(s.contrib, Attached(s, q)) + delta
      <4>1. /\ IsFiniteSet(Attached(s, q)) /\ \A c \in Attached(s, q) : s.contrib[c] \in Int
            /\ SumOver(s.contrib, Attached(s, q)) \in Int
        BY <1>1, <2>1, AttachedAre
      <4>2. \A c \in Attached(s, q) \ {p} : z.contrib[c] = s.contrib[c]
        BY <2>7 DEF Attached
      <4>3. z.contrib[p] \in Int BY <2>3, <2>7
      <4>4. SumOver(z.contrib, Attached(s, q)) =
              SumOver(s.contrib, Attached(s, q)) - s.contrib[p] + z.contrib[p]
        BY <3>1, <4>1, <4>2, <4>3, SumChanges
      <4>5. QED BY <2>3, <2>7, <4>1, <4>4
    <3>3. z.acc[q].total - SumOver(z.contrib, Attached(z, q)) \in V[q]
      <4>1. s.acc[q].total - SumOver(s.contrib, Attached(s, q)) \in V[q]
        BY <2>1 DEF Sound, Tallied
      <4>2. SumOver(s.contrib, Attached(s, q)) \in Int /\ s.acc[q].total \in Int /\ delta \in Int
        BY <1>1, <2>1, <2>3, AttachedAre DEF Acc
      <4>3. z.acc[q].total = s.acc[q].total + delta BY <2>4, <2>7
      <4> HIDE DEF delta
      <4>4. z.acc[q].total - SumOver(z.contrib, Attached(s, q)) =
              s.acc[q].total - SumOver(s.contrib, Attached(s, q))
        BY <3>2, <4>2, <4>3
      <4>5. QED BY <2>1, <2>9, <4>1, <4>4
    <3>4. ASSUME NEW r \in Paths, r # q, z.acc[r] # None
          PROVE  z.acc[r].total - SumOver(z.contrib, Attached(z, r)) \in V[r]
      <4>1. z.acc[r] = s.acc[r] /\ Attached(z, r) = Attached(s, r)
        BY <2>7, <2>9, <3>4
      <4>2. \A c \in Attached(s, r) : z.contrib[c] = s.contrib[c]
        BY <2>7, <3>1, <3>4 DEF Attached
      <4>3. SumOver(z.contrib, Attached(s, r)) = SumOver(s.contrib, Attached(s, r))
        BY <1>1, <4>2, AttachedAre, SumSame
      <4>4. QED BY <3>4, <4>1, <4>3 DEF Sound, Tallied
    <3>5. QED BY <3>3, <3>4 DEF Tallied
  <2>13. Passes(s, z, V)
    <3>1. \A r \in Paths : Pending(z, r) = Pending(s, r) BY <2>7 DEF Pending
    <3>2. QED BY <2>7, <2>8, <2>10, <2>11, <2>12, <3>1 DEF Passes, Hands, Sound
  <2>14. Passes(z, MarkDirty(z, q, b), V)
    BY <1>3, <2>1, <2>5, <2>7, <2>13, MarkDirtyPasses DEF Passes
  <2>15. y.s = MarkDirty(z, q, b) BY <1>2, <1>5
  <2>16. QED BY <2>13, <2>14, <2>15, PassesFurther
<1>6. QED BY <1>4, <1>5

(* One step of on_subtree_complete. *)
LEMMA CompleteStepPasses ==
  ASSUME HasLocalRoot, NEW V, NEW x, x \in Climbing, Sound(x.s, V), NEW p \in Paths, GenTyped,
         NEW y, y = CompleteStep(x, p)
  PROVE  Passes(x.s, y.s, V)
<1> DEFINE q == x.s.parent[p]
           stop == ~x.go \/ q = None \/ (q # None /\ x.s.pending[q] = None)
           s1 == [x.s EXCEPT !.pending[q] = @ \ {p}]
           s2 == IF s1.acc[p] # None /\ s1.acc[p].diff = "diff" THEN NoteDiff(s1, q) ELSE s1
           fin == FinishHere(s2, q)
           all == s2.direct[q] # 0 /\ s2.pending[q] = {}
<1>1. x.s \in StateSet /\ x.go \in BOOLEAN /\ x = [s |-> x.s, go |-> x.go] /\ Linked(x.s)
  BY DEF Climbing, Sound
<1>2. y = IF stop THEN [x EXCEPT !.go = FALSE]
          ELSE IF all THEN fin ELSE [s |-> s2, go |-> FALSE]
  BY DEF CompleteStep
<1>3. CASE stop
  <2>1. y.s = x.s BY <1>1, <1>2, <1>3
  <2>2. QED BY <2>1, PassesSame
<1>4. CASE ~stop
  <2>1. q # None /\ x.s.pending[q] # None /\ q \in Paths /\ x.s.pending[q] \in SUBSET Paths
    BY <1>1, <1>4 DEF StateSet
  <2> HIDE DEF stop
  <2> DEFINE rest == x.s.pending[q] \ {p}
  <2>2. s1 = [x.s EXCEPT !.pending = [x.s.pending EXCEPT ![q] = rest]]
    BY <1>1 DEF StateSet
  <2>3. rest \in SUBSET Paths /\ rest \subseteq x.s.pending[q] BY <2>1
  <2> HIDE DEF s1, rest
  <2>4. /\ s1 \in StateSet /\ s1.acc = x.s.acc /\ s1.parent = x.s.parent /\ s1.dirty = x.s.dirty
        /\ s1.direct = x.s.direct /\ s1.contrib = x.s.contrib
        /\ s1.pending[q] = rest /\ \A r \in Paths \ {q} : s1.pending[r] = x.s.pending[r]
    BY <1>1, <2>1, <2>2, <2>3 DEF StateSet
  <2>5. \A r \in Paths : Pending(s1, r) \subseteq Pending(x.s, r)
    BY <2>1, <2>3, <2>4 DEF Pending
  <2>6. Grows(x.s, s1) BY <1>1, <2>3, <2>4, <2>5 DEF Grows, Keeps, Linked
  <2>7. Passes(x.s, s1, V) BY <2>4, <2>5, <2>6, SameTotalsPass
  <2>8. s1.acc[q] # None BY <2>1, <2>4 DEF Sound, Homed
  <2>9. Passes(s1, s2, V)
    BY <2>1, <2>7, <2>8, NoteDiffPasses, PassesSame DEF Passes
  <2> HIDE DEF s2
  <2>10. Passes(x.s, s2, V) BY <2>7, <2>9, PassesFurther
  <2>11. CASE all
    <3>1. y = fin /\ Passes(s2, fin.s, V)
      BY <1>2, <1>4, <2>1, <2>10, <2>11, FinishHerePasses DEF Passes
    <3> HIDE DEF fin
    <3>2. QED BY <2>10, <3>1, PassesFurther
  <2>12. CASE ~all
    <3>1. y.s = s2 BY <1>2, <1>4, <2>12
    <3>2. QED BY <2>10, <3>1
  <2>13. QED BY <2>11, <2>12
<1>5. QED BY <1>3, <1>4

(* propagate as a whole, from a folder with a record. *)
LEMMA PropagatePasses ==
  ASSUME NEW V, NEW s, Sound(s, V), NEW p \in Paths, s.acc[p] # None
  PROVE  Passes(s, Propagate(s, p), V)
<1> DEFINE L == Lineage[p]
           n == Len(L)
           At0 == [s |-> s, go |-> TRUE]
           A == [i \in 0..n |-> {x \in Climbing : /\ Passes(s, x.s, V)
                                                  /\ x.go /\ i < n => x.s.acc[L[i + 1]] # None}]
<1>1. /\ L \in Seq(Paths) /\ n \in Nat /\ n >= 1 /\ L[1] = p
      /\ \A i \in 1..(n - 1) : L[i] \in Kids(L[i + 1])
  BY LineageIsChain, LenProperties DEF Chain
<1> HIDE DEF L, n
<1>2. At0 \in Climbing BY DEF Climbing, Linked, Sound
<1>3. At0 \in A[0] BY <1>1, <1>2, PassesSame
<1>4. ASSUME NEW i \in 1..n, NEW v \in A[i - 1]
      PROVE  PropagateStep(v, L[i]) \in A[i]
  <2>1. i \in 0..n /\ i - 1 \in 0..n /\ i - 1 < n /\ (i - 1) + 1 = i /\ L[i] \in Paths
    BY <1>1, ElementOfSeq DEF n
  <2>2. v \in Climbing /\ Passes(s, v.s, V) /\ (v.go => v.s.acc[L[i]] # None)
    BY <2>1
  <2> HIDE DEF A
  <2> DEFINE y == PropagateStep(v, L[i])
             q == v.s.parent[L[i]]
  <2>3. /\ y \in Climbing /\ Passes(v.s, y.s, V)
        /\ y.go => q \in Paths /\ L[i] \in Kids(q) /\ y.s.acc[q] # None
    BY <2>1, <2>2, PropagateStepGrows, PropagateStepPasses DEF Passes, Sound
  <2> HIDE DEF y
  <2>4. Passes(s, y.s, V) BY <2>2, <2>3, PassesFurther
  <2>5. i < n => i \in 1..(n - 1) /\ L[i] \in Kids(L[i + 1]) /\ L[i + 1] \in Paths
    <3> SUFFICES ASSUME i < n PROVE i \in 1..(n - 1) /\ L[i + 1] \in Paths
      BY <1>1
    <3>1. i \in 1..(n - 1) /\ i + 1 \in 1..n BY <1>1
    <3>2. QED BY <1>1, <3>1, ElementOfSeq DEF n
  <2>6. y.go /\ i < n => y.s.acc[L[i + 1]] # None BY <2>3, <2>5, OneParent
  <2>7. y \in A[i] BY <2>1, <2>3, <2>4, <2>6 DEF A
  <2>8. QED BY <2>7 DEF y
<1> HIDE DEF A
<1>5. Along(PropagateStep, At0, L) \in A[n]
  BY <1>1, <1>3, <1>4, AlongPropagate DEF n
<1>6. n \in 0..n BY <1>1
<1>7. Propagate(s, p) = Along(PropagateStep, At0, L).s BY DEF Propagate, L
<1>8. QED BY <1>5, <1>6, <1>7 DEF A

(* on_subtree_complete as a whole. *)
LEMMA OnSubtreeCompletePasses ==
  ASSUME HasLocalRoot, NEW V, NEW s, Sound(s, V), NEW p \in Paths, GenTyped
  PROVE  Passes(s, OnSubtreeComplete(s, p), V)
<1> DEFINE L == Lineage[p]
           n == Len(L)
           At0 == [s |-> s, go |-> TRUE]
           A == [i \in 0..n |-> {x \in Climbing : Passes(s, x.s, V)}]
<1>1. L \in Seq(Paths) /\ n \in Nat
  BY LineageIsChain, LenProperties DEF Chain
<1> HIDE DEF L, n
<1>2. At0 \in Climbing BY DEF Climbing, Linked, Sound
<1>3. At0 \in A[0] BY <1>1, <1>2, PassesSame
<1>4. ASSUME NEW i \in 1..n, NEW v \in A[i - 1]
      PROVE  CompleteStep(v, L[i]) \in A[i]
  <2>1. i \in 0..n /\ i - 1 \in 0..n /\ L[i] \in Paths
    BY <1>1, ElementOfSeq DEF n
  <2>2. v \in Climbing /\ Passes(s, v.s, V) BY <2>1
  <2> HIDE DEF A
  <2>3. CompleteStep(v, L[i]) \in Climbing /\ Passes(v.s, CompleteStep(v, L[i]).s, V)
    BY <2>1, <2>2, CompleteStepGrows, CompleteStepPasses DEF Passes, Sound
  <2>4. Passes(s, CompleteStep(v, L[i]).s, V) BY <2>2, <2>3, PassesFurther
  <2>5. QED BY <2>1, <2>3, <2>4 DEF A
<1> HIDE DEF A
<1>5. Along(CompleteStep, At0, L) \in A[n]
  BY <1>1, <1>3, <1>4, AlongComplete DEF n
<1>6. n \in 0..n BY <1>1
<1>7. OnSubtreeComplete(s, p) = Along(CompleteStep, At0, L).s
  BY DEF OnSubtreeComplete, L
<1>8. QED BY <1>5, <1>6, <1>7 DEF A

(* _maybe_complete as a whole. *)
LEMMA MaybeCompletePasses ==
  ASSUME HasLocalRoot, NEW V, NEW s, Sound(s, V), NEW p \in Paths, GenTyped
  PROVE  Passes(s, MaybeComplete(s, p), V)
<1> DEFINE x == FinishHere(s, p)
<1>1. Passes(s, x.s, V) BY FinishHerePasses
<1>2. MaybeComplete(s, p) = IF x.go THEN OnSubtreeComplete(x.s, p) ELSE x.s
  BY DEF MaybeComplete
<1> HIDE DEF x
<1>3. Passes(x.s, OnSubtreeComplete(x.s, p), V)
  BY <1>1, OnSubtreeCompletePasses DEF Passes
<1>4. QED BY <1>1, <1>2, <1>3, PassesFurther

(* A complete child is added into its parent. *)
LEMMA AttachPasses ==
  ASSUME HasLocalRoot, NEW V, NEW s, Sound(s, V), NEW p \in Paths, s.acc[p] # None,
         NEW sf \in Paths, s.acc[sf] # None, GenTyped
  PROVE  Passes(s, Attach(s, p, sf), V)
<1> DEFINE s1 == Propagate(s, sf)
           s2 == IF s1.acc[sf].diff = "diff" THEN NoteDiff(s1, p) ELSE s1
<1>1. Passes(s, s1, V) /\ s1.acc[p] # None
  BY PropagatePasses, PropagateGrows DEF Sound, Grows, Keeps
<1>2. Attach(s, p, sf) = OnSubtreeComplete(s2, sf) BY DEF Attach
<1> HIDE DEF s1
<1>3. Passes(s1, s2, V) BY <1>1, NoteDiffPasses, PassesSame DEF Passes
<1> HIDE DEF s2
<1>4. Passes(s, s2, V) BY <1>1, <1>3, PassesFurther
<1>5. Passes(s2, OnSubtreeComplete(s2, sf), V)
  BY <1>4, OnSubtreeCompletePasses DEF Passes
<1>6. QED BY <1>2, <1>4, <1>5, PassesFurther

(* _repair_complete_children_locked. *)
LEMMA RepairPasses ==
  ASSUME HasLocalRoot, NEW V, NEW s, Sound(s, V), NEW p \in Paths, s.acc[p] # None, GenTyped
  PROVE  Passes(s, Repair(s, p), V)
<1> DEFINE L == Subfolders[p]
           n == Len(L)
           A == [i \in 0..n |-> {v \in StateSet : Passes(s, v, V) /\ v.acc[p] # None}]
           s1 == AttachWhole(s, p)
<1>1. L \in Seq(Paths) /\ n \in Nat BY TreeShape, LenProperties
<1> HIDE DEF L, n
<1>2. s \in A[0] BY <1>1, PassesSame DEF Sound, Linked
<1>3. ASSUME NEW i \in 1..n, NEW v \in A[i - 1]
      PROVE  (IF L[i] \in Pending(s, p) /\ IsWhole(v, L[i]) THEN Attach(v, p, L[i]) ELSE v) \in A[i]
  <2>1. i \in 0..n /\ i - 1 \in 0..n /\ L[i] \in Paths
    BY <1>1, ElementOfSeq DEF n
  <2>2. v \in StateSet /\ Passes(s, v, V) /\ v.acc[p] # None BY <2>1
  <2> HIDE DEF A
  <2>3. CASE ~(L[i] \in Pending(s, p) /\ IsWhole(v, L[i]))
    BY <2>1, <2>2, <2>3 DEF A
  <2>4. CASE L[i] \in Pending(s, p) /\ IsWhole(v, L[i])
    <3> DEFINE y == Attach(v, p, L[i])
    <3>1. v.acc[L[i]] # None BY <2>4 DEF IsWhole
    <3>2. Passes(v, y, V) /\ Grows(v, y)
      BY <2>1, <2>2, <3>1, AttachPasses, AttachGrows DEF Passes, Sound
    <3> HIDE DEF y
    <3>3. Passes(s, y, V) /\ y.acc[p] # None /\ y \in StateSet
      BY <2>2, <3>2, PassesFurther DEF Grows, Keeps, Linked
    <3>4. y \in A[i] BY <2>1, <3>3 DEF A
    <3>5. QED BY <2>4, <3>4 DEF y
  <2>5. QED BY <2>3, <2>4
<1> HIDE DEF A
<1>4. s1 \in A[n] BY <1>1, <1>2, <1>3, AlongAttach DEF L, n
<1>5. Passes(s, s1, V) BY <1>1, <1>4 DEF A
<1>6. Repair(s, p) = IF s1.direct[p] # 0 /\ Pending(s1, p) = {} THEN MaybeComplete(s1, p) ELSE s1
  BY DEF Repair
<1> HIDE DEF s1
<1>7. Passes(s1, MaybeComplete(s1, p), V)
  BY <1>5, MaybeCompletePasses DEF Passes
<1>8. QED BY <1>5, <1>6, <1>7, PassesFurther

(* The helpers keep all of it. *)
LEMMA CountedOn ==
  ASSUME NEW V, NEW o, NEW s, Counted(s, V, o), NEW x, Passes(s, x, V)
  PROVE  Counted(x, V, o)
<1>1. Sound(x, V) BY DEF Passes
<1>2. Blank(x) BY DEF Passes, Hands, Counted, Blank
<1>3. MarksDone(x, o) BY DEF Passes, Hands, Counted, MarksDone
<1>4. QED BY <1>1, <1>2, <1>3 DEF Counted

(* A subfolder that had no parent is given one: it has handed up nothing. *)
LEMMA AdoptCounts ==
  ASSUME NEW V, NEW o, NEW s, Counted(s, V, o), NEW p \in Paths, NEW sf \in Kids(p),
         s.acc[p] # None, s.parent[sf] = None, NEW x, x = Adopted(s, p, sf)
  PROVE  /\ Counted(x, V, o) /\ x.acc = s.acc /\ x.direct = s.direct /\ x.pending = s.pending
         /\ x.dirty = s.dirty /\ x.parent[sf] = p
         /\ \A c \in Paths \ {sf} : x.parent[c] = s.parent[c]
<1>1. Linked(s) /\ s \in StateSet /\ Homed(s) /\ Tallied(s, V) /\ sf \in Paths
  BY KidIsPath DEF Counted, Sound, Linked
<1>2. x = [s EXCEPT !.parent = [s.parent EXCEPT ![sf] = p],
                    !.contrib = [s.contrib EXCEPT ![sf] = 0]]
  BY <1>1 DEF StateSet, Adopted
<1>3. /\ x.acc = s.acc /\ x.direct = s.direct /\ x.pending = s.pending /\ x.dirty = s.dirty
      /\ x.parent[sf] = p /\ \A c \in Paths \ {sf} : x.parent[c] = s.parent[c]
      /\ x.contrib[sf] = 0 /\ \A c \in Paths \ {sf} : x.contrib[c] = s.contrib[c]
  BY <1>1, <1>2 DEF StateSet
<1>4. Linked(x) /\ x \in StateSet BY <1>1, AdoptGrows DEF Grows, Linked
<1>5. Homed(x) BY <1>1, <1>3 DEF Homed
<1>6. p # None BY NoneApart
<1>7. \A q \in Paths : sf \notin Attached(s, q)
  BY <1>1, NoneApart DEF Attached
<1>8. \A q \in Paths \ {p} : Attached(x, q) = Attached(s, q)
  BY <1>1, <1>3, <1>7 DEF Attached
<1>9. Attached(x, p) = Attached(s, p) \cup {sf} BY <1>1, <1>3 DEF Attached
<1>10. ASSUME NEW q \in Paths
       PROVE  SumOver(x.contrib, Attached(x, q)) = SumOver(s.contrib, Attached(s, q))
  <2>1. IsFiniteSet(Attached(s, q)) /\ Attached(s, q) \subseteq Paths
    BY <1>1, AttachedAre DEF Attached
  <2>2. \A c \in Attached(s, q) : s.contrib[c] = x.contrib[c] /\ x.contrib[c] \in Int
    BY <1>3, <1>4, <1>7, <2>1 DEF StateSet
  <2>3. SumOver(s.contrib, Attached(s, q)) = SumOver(x.contrib, Attached(s, q))
    BY <2>1, <2>2, SumSame
  <2>4. SumOver(x.contrib, Attached(s, q) \cup {sf}) = SumOver(x.contrib, Attached(s, q))
    BY <1>3, <2>1, <2>2, SumWithNothing
  <2>5. QED BY <1>8, <1>9, <2>3, <2>4
<1>11. Tallied(x, V) BY <1>1, <1>3, <1>10 DEF Tallied
<1>12. Blank(x) /\ MarksDone(x, o)
  BY <1>3 DEF Counted, Blank, MarksDone, Pending
<1>13. QED BY <1>3, <1>4, <1>5, <1>11, <1>12 DEF Counted, Sound

(* What waiting changes. *)
LEMMA WaitsFields ==
  ASSUME NEW s, s \in StateSet, NEW p \in Paths, NEW sf \in Paths,
         NEW x, x = Waits(s, p, sf, s.direct[sf])
  PROVE  /\ x.acc = s.acc /\ x.direct = s.direct /\ x.dirty = s.dirty
         /\ x.parent = s.parent /\ x.contrib = s.contrib
         /\ x.pending[p] = s.pending[p] \cup {sf}
         /\ \A q \in Paths \ {p} : x.pending[q] = s.pending[q]
<1> DEFINE pend == s.pending[p] \cup {sf}
<1>1. x = [s EXCEPT !.pending = [s.pending EXCEPT ![p] = pend]]
  BY DEF StateSet, Waits
<1> HIDE DEF pend
<1>2. /\ x.acc = s.acc /\ x.direct = s.direct /\ x.dirty = s.dirty /\ x.parent = s.parent
      /\ x.contrib = s.contrib /\ x.pending[p] = pend
      /\ \A q \in Paths \ {p} : x.pending[q] = s.pending[q]
  BY <1>1 DEF StateSet
<1>3. QED BY <1>2 DEF pend

(* A listed folder waits for a subfolder. *)
LEMMA WaitCounts ==
  ASSUME NEW V, NEW o, NEW s, Counted(s, V, o), NEW p \in Paths, NEW sf \in Kids(p),
         s.parent[sf] = p, s.pending[p] \in SUBSET Paths, s.direct[p] # 0,
         p = o \/ s.dirty[p] # TRUE, NEW x, x = Waits(s, p, sf, s.direct[sf])
  PROVE  Counted(x, V, o)
<1>1. Linked(s) /\ s \in StateSet /\ Homed(s) /\ Tallied(s, V) /\ sf \in Paths
  BY KidIsPath DEF Counted, Sound, Linked
<1>2. /\ x.acc = s.acc /\ x.direct = s.direct /\ x.dirty = s.dirty /\ x.parent = s.parent
      /\ x.contrib = s.contrib /\ \A q \in Paths \ {p} : x.pending[q] = s.pending[q]
  BY <1>1, WaitsFields
<1>3. Linked(x) BY <1>1, WaitGrows DEF Grows, Waits
<1>4. Homed(x) /\ Tallied(x, V) BY <1>1, <1>2 DEF Homed, Tallied, Attached
<1>5. Blank(x) BY <1>2 DEF Counted, Blank, Pending
<1>6. MarksDone(x, o) BY <1>2 DEF Counted, MarksDone, Pending
<1>7. QED BY <1>3, <1>4, <1>5, <1>6 DEF Counted, Sound

-----------------------------------------------------------------------------
(* A listing counts its subfolders *)

(* One subfolder of a listing. *)
LEMMA AddSubfolderCounts ==
  ASSUME HasLocalRoot, GenTyped, NEW V, NEW o, NEW x, x \in Adding, Counted(x.s, V, o),
         NEW p \in Paths, NEW sf \in Kids(p), NEW t \in Epochs, ~(t < minPage), NEW seen,
         NEW depth, Settled(x.s, {p}), x.s.parent[sf] = None, Ready(x.s, p, seen, o),
         NEW y, y = AddSubfolder(x, p, sf, t, seen, depth)
  PROVE  Adds(x, y, p, sf, seen, V, o)
<1> DEFINE s1 == Adopted(x.s, p, sf)
           reusable == x.owned[sf] = 0 /\ seen[sf] # None /\ seen[sf].complete
           reused == [s1 EXCEPT
                        !.acc[sf] = [total |-> seen[sf].total, diff |-> seen[sf].diff,
                                     gen |-> seen[sf].gen],
                        !.direct[sf] = t,
                        !.pending[sf] = Pending(s1, sf)]
           d == IF Pending(s1, sf) = {} THEN 0 ELSE s1.direct[sf]
           waiting == [s1 EXCEPT !.pending[p] = @ \cup {sf}, !.direct[sf] = d]
           q1 == Put(x.q, JobOf(sf, t, depth))
<1>1. /\ x = [s |-> x.s, owned |-> x.owned, q |-> x.q] /\ x.s \in StateSet
      /\ x.owned \in [Paths -> 0..MaxPage] /\ sf \in Paths /\ sf # p
  BY KidIsPath, NotOwnKid DEF Adding
<1>2. y = IF IsWhole(s1, sf) THEN [x EXCEPT !.s = Attach(s1, p, sf)]
          ELSE IF reusable THEN [x EXCEPT !.s = Attach(reused, p, sf)]
          ELSE IF waiting.direct[sf] = 0 /\ x.owned[sf] = 0
            THEN [s |-> waiting, owned |-> [x.owned EXCEPT ![sf] = t], q |-> q1]
          ELSE [x EXCEPT !.s = waiting]
  <2>1. waiting = [s1 EXCEPT !.pending[p] = @ \cup {sf},
                             !.direct[sf] = IF Pending(s1, sf) = {} THEN 0 ELSE @]
    OBVIOUS
  <2>2. QED BY <2>1 DEF AddSubfolder, Adopted
<1>3. /\ Counted(s1, V, o) /\ s1.acc = x.s.acc /\ s1.direct = x.s.direct
      /\ s1.pending = x.s.pending /\ s1.dirty = x.s.dirty /\ s1.parent[sf] = p
      /\ \A c \in Paths \ {sf} : s1.parent[c] = x.s.parent[c]
  BY AdoptCounts DEF Ready
<1>4. s1.abandoned = x.s.abandoned BY <1>1 DEF Adopted, StateSet
<1> HIDE DEF s1
<1>5. Linked(s1) /\ s1 \in StateSet /\ Sound(s1, V)
  BY <1>3 DEF Counted, Sound, Linked
<1>6. Settled(s1, {p}) /\ \A q : Pending(s1, q) = Pending(x.s, q)
  BY <1>3, <1>4 DEF Settled, Undecided, WholeMark, Pending
<1>7. Ready(s1, p, seen, o) BY <1>3, <1>6 DEF Ready, Done
<1>8. Done(s1, sf) => IsWhole(s1, sf) BY <1>1, <1>6, SettledIsWhole DEF Done
<1>9. CASE IsWhole(s1, sf)
  <2> DEFINE z == Attach(s1, p, sf)
  <2>1. y = [s |-> z, owned |-> x.owned, q |-> x.q] BY <1>1, <1>2, <1>9
  <2>2. s1.acc[p] # None /\ s1.acc[sf] # None /\ s1.direct[sf] # 0
    BY <1>7, <1>9 DEF IsWhole, Ready
  <2>3. Passes(s1, z, V) /\ Grows(s1, z)
    BY <1>1, <1>5, <2>2, AttachPasses, AttachGrows
  <2> HIDE DEF z
  <2>4. Counted(z, V, o) BY <1>3, <2>3, CountedOn
  <2>5. /\ z.parent = s1.parent /\ z.direct = s1.direct
        /\ \A q \in Paths : Pending(z, q) \subseteq Pending(s1, q)
    BY <2>3 DEF Passes, Hands
  <2>6. p = o BY <1>7, <2>2 DEF Ready
  <2>7. Ready(z, p, seen, o)
    <3>1. z.acc[p] # None /\ z.direct[p] # 0 /\ z.pending[p] \in SUBSET Paths
      BY <1>7, <2>3, <2>5 DEF Grows, Keeps, Ready
    <3>2. \A c \in Kids(p) : Tells(seen[c]) => Done(z, c)
      BY <1>7, <2>5, KidIsPath DEF Ready, Done
    <3>3. QED BY <2>6, <3>1, <3>2 DEF Ready
  <2>8. QED BY <1>3, <1>6, <2>1, <2>4, <2>5, <2>7 DEF Adds
<1>10. CASE ~IsWhole(s1, sf)
  <2>1. ~reusable BY <1>7, <1>8, <1>10 DEF Ready, Tells
  <2>2. d = s1.direct[sf] BY <1>8, <1>10 DEF Done
  <2> HIDE DEF d, reusable
  <2>3. waiting = Waits(s1, p, sf, s1.direct[sf]) BY <2>2 DEF Waits
  <2> HIDE DEF waiting
  <2>4. /\ waiting.acc = s1.acc /\ waiting.direct = s1.direct
        /\ waiting.dirty = s1.dirty /\ waiting.parent = s1.parent
        /\ waiting.pending[p] = s1.pending[p] \cup {sf}
        /\ \A q \in Paths \ {p} : waiting.pending[q] = s1.pending[q]
    BY <1>1, <1>5, <2>3, WaitsFields
  <2>5. Counted(waiting, V, o)
    <3>1. s1.pending[p] \in SUBSET Paths /\ s1.direct[p] # 0 /\ (p = o \/ s1.dirty[p] # TRUE)
      BY <1>7 DEF Ready
    <3>2. QED BY <1>3, <2>3, <3>1, WaitCounts
  <2>6. waiting.pending[p] \in SUBSET Paths BY <1>1, <1>7, <2>4 DEF Ready
  <2>7. \A q \in Paths \ {p} : Pending(waiting, q) = Pending(s1, q)
    BY <2>4 DEF Pending
  <2>8. Ready(waiting, p, seen, o)
    <3>1. \A c \in Kids(p) : Done(s1, c) => Done(waiting, c)
      BY <2>4, <2>7, KidIsPath, NotOwnKid DEF Done
    <3>2. QED BY <1>7, <2>4, <2>6, <3>1 DEF Ready
  <2>9. y.s = waiting /\ \A q \in Paths \ {sf} : y.owned[q] = x.owned[q]
    BY <1>1, <1>2, <1>10, <2>1
  <2>10. QED BY <1>3, <1>6, <2>5, <2>4, <2>7, <2>8, <2>9 DEF Adds
<1>11. QED BY <1>9, <1>10

(* The folder's own record: it has no subfolder yet. *)
LEMMA BegunCounts ==
  ASSUME HasLocalRoot, GenTyped, NEW V, NEW o, Counted(st, V, o), NEW w \in Workers,
         Doing(w) \in Paths, ~CalledOff(w), Epoch(w) \in Epochs, st.direct[Doing(w)] = 0,
         DirectTotal[Doing(w)] \in V[Doing(w)], NEW x, x = Begun(w)
  PROVE  /\ Counted(x, V, o) /\ x.parent = st.parent /\ x.acc[Doing(w)] # None
         /\ \A c \in Kids(Doing(w)) : st.parent[c] = None
         /\ \A q \in Paths : Pending(x, q) \subseteq Pending(st, q)
<1> DEFINE p == Doing(w)
           t == Epoch(w)
           a == FreshAcc(p, worker[w].gen)
           fresh == [st EXCEPT !.abandoned = @ \ {p}, !.acc[p] = FreshAcc(p, worker[w].gen),
                               !.direct[p] = Epoch(w), !.pending[p] = {}]
           compared == IF p \in DirectDiffs THEN NoteDiff(fresh, p) ELSE fresh
           empty == Subfolders[p] = <<>>
           marked == MarkDirty(compared, p, Subfolders[p] = <<>>)
<1>1. /\ Linked(st) /\ st \in StateSet /\ Homed(st) /\ Tallied(st, V) /\ p \in Paths
      /\ t \in 0..MaxPage /\ st.acc[p] = None
  BY DEF Counted, Sound, Linked, Blank, Epochs
<1>2. a \in Acc /\ a.gen = generation[p] /\ a.total = DirectTotal[p]
  <2>1. DirectTotal[p] \in Int BY <1>1, TotalsPositive
  <2>2. worker[w].gen = generation[p] /\ generation[p] \in Nat
    BY <1>1 DEF CalledOff, GenTyped
  <2>3. QED BY <2>1, <2>2 DEF FreshAcc, Acc
<1>3. x = Propagate(marked, p) BY DEF Begun
<1>4. fresh = [st EXCEPT !.abandoned = st.abandoned \ {p}, !.acc = [st.acc EXCEPT ![p] = a],
                         !.direct = [st.direct EXCEPT ![p] = t],
                         !.pending = [st.pending EXCEPT ![p] = {}]]
  BY <1>1 DEF StateSet
<1>5. a # None /\ DirectTotal[p] \in V[p] BY <1>2, NoneApart
<1>6. \A c \in Paths : st.parent[c] # p BY <1>1, NoneApart DEF Homed
<1>7. \A c \in Kids(p) : st.parent[c] = None
  BY <1>1, <1>6, KidIsPath, OneParent DEF Linked, StateSet
<1> HIDE DEF a, t, fresh, empty
<1>8. /\ fresh.acc[p] = a /\ \A q \in Paths \ {p} : fresh.acc[q] = st.acc[q]
      /\ fresh.direct[p] = t /\ \A q \in Paths \ {p} : fresh.direct[q] = st.direct[q]
      /\ fresh.pending[p] = {} /\ \A q \in Paths \ {p} : fresh.pending[q] = st.pending[q]
      /\ fresh.parent = st.parent /\ fresh.dirty = st.dirty /\ fresh.contrib = st.contrib
  <2> HIDE DEF p
  <2>1. QED BY <1>1, <1>4 DEF StateSet
<1>9. Linked(fresh)
  <2>1. [st.acc EXCEPT ![p] = a] \in [Paths -> Acc \cup {None}]
    BY <1>1, <1>2 DEF StateSet
  <2>2. [st.direct EXCEPT ![p] = t] \in [Paths -> 0..MaxPage]
    <3>1. st.direct \in [Paths -> 0..MaxPage] BY <1>1 DEF StateSet
    <3>2. QED BY <1>1, <3>1
  <2>3. [st.pending EXCEPT ![p] = {}] \in [Paths -> (SUBSET Paths) \cup {None}]
    <3>1. st.pending \in [Paths -> (SUBSET Paths) \cup {None}]
      BY <1>1 DEF StateSet
    <3>2. QED BY <1>1, <3>1
  <2>4. fresh \in StateSet
    <3>1. st.abandoned \ {p} \in SUBSET Paths BY <1>1 DEF StateSet
    <3>2. QED BY <1>1, <1>4, <2>1, <2>2, <2>3, <3>1 DEF StateSet
  <2> HIDE DEF p
  <2>5. QED BY <1>1, <1>2, <1>5, <1>8, <2>4 DEF Linked, Pending
<1> HIDE DEF p
<1>10. Homed(fresh) BY <1>1, <1>6, <1>8 DEF Homed, StateSet
<1>11. Tallied(fresh, V)
  <2>1. Attached(st, p) = {} BY <1>6 DEF Attached
  <2>2. SumOver(fresh.contrib, Attached(fresh, p)) = 0
    <3>1. Attached(fresh, p) = {} BY <1>8, <2>1 DEF Attached
    <3>2. QED BY <3>1, SumTakes, FS_EmptySet
  <2>3. DirectTotal[p] - 0 = DirectTotal[p] BY <1>1, TotalsPositive
  <2>4. fresh.acc[p].total - SumOver(fresh.contrib, Attached(fresh, p)) \in V[p]
    BY <1>2, <1>5, <1>8, <2>2, <2>3
  <2>5. \A q \in Paths : Attached(fresh, q) = Attached(st, q)
    BY <1>8 DEF Attached
  <2>6. \A q \in Paths \ {p} : fresh.acc[q] # None =>
          fresh.acc[q].total - SumOver(fresh.contrib, Attached(fresh, q)) \in V[q]
    BY <1>1, <1>8, <2>5 DEF Tallied
  <2>7. QED BY <2>4, <2>6 DEF Tallied
<1>12. /\ Counted(fresh, V, o) /\ Pending(fresh, p) = {}
       /\ \A q \in Paths : Pending(fresh, q) \subseteq Pending(st, q)
  <2>1. \A q \in Paths \ {p} : Pending(fresh, q) = Pending(st, q)
    BY <1>8 DEF Pending
  <2>2. Pending(fresh, p) = {} BY <1>8 DEF Pending
  <2>3. fresh.direct[p] # 0 BY <1>8 DEF Epochs, t
  <2>4. Blank(fresh) BY <1>8, <2>1, <2>3 DEF Counted, Blank
  <2>5. MarksDone(fresh, o) BY <1>8, <2>1, <2>2 DEF Counted, MarksDone
  <2>6. QED BY <1>9, <1>10, <1>11, <2>1, <2>2, <2>4, <2>5 DEF Counted, Sound
<1>13. Passes(fresh, compared, V) /\ compared.acc[p] # None
  <2>1. Sound(fresh, V) /\ fresh.acc[p] # None
    BY <1>5, <1>8, <1>12 DEF Counted
  <2>2. Passes(fresh, NoteDiff(fresh, p), V) /\ NoteDiff(fresh, p).acc[p] # None
    BY <1>1, <1>9, <2>1, NoteDiffPasses, NoteDiffGrows
  <2>3. QED BY <2>1, <2>2, PassesSame
<1> HIDE DEF compared, marked
<1>14. Passes(compared, marked, V) /\ marked.acc[p] # None
  <2>1. marked = MarkDirty(compared, p, empty) /\ empty \in BOOLEAN
    BY DEF marked, empty
  <2>2. Sound(compared, V) /\ Pending(compared, p) = {} /\ Linked(compared)
    BY <1>1, <1>12, <1>13 DEF Passes, Hands, Sound
  <2>3. Passes(compared, marked, V) /\ marked.acc = compared.acc
    BY <1>1, <1>13, <2>1, <2>2, MarkDirtyPasses, MarkDirtyGrows
  <2>4. QED BY <1>13, <2>3
<1>15. Passes(marked, x, V) /\ x.acc[p] # None
  <2>1. Sound(marked, V) /\ Linked(marked) BY <1>14 DEF Passes, Sound
  <2>2. Passes(marked, x, V) /\ Grows(marked, x)
    BY <1>1, <1>3, <1>14, <2>1, PropagatePasses, PropagateGrows
  <2>3. QED BY <1>1, <1>14, <2>2 DEF Grows, Keeps
<1>16. Passes(fresh, x, V) BY <1>13, <1>14, <1>15, PassesFurther
<1>17. Counted(x, V, o) BY <1>12, <1>16, CountedOn
<1>18. x.parent = st.parent /\ \A q \in Paths : Pending(x, q) \subseteq Pending(st, q)
  BY <1>8, <1>12, <1>16 DEF Passes, Hands
<1>19. QED BY <1>7, <1>15, <1>17, <1>18 DEF p

(* The loop begins with the folder's own record. *)
LEMMA UptoBegins ==
  ASSUME HasLocalRoot, NEW V, NEW o, NEW w \in Workers, Lists(w, V, o),
         NEW v, v = [s |-> Begun(w), owned |-> inProgress, q |-> queue]
  PROVE  Upto(0, v, w, V, o)
<1> DEFINE p == Doing(w)
           L == Subfolders[p]
           n == Len(L)
           b == Begun(w)
           seen == worker[w].seen
<1>1. /\ L \in Seq(Paths) /\ n \in Nat /\ DOMAIN L = 1..n /\ (L = <<>> => n = 0) /\ p \in Paths
      /\ v.s = b /\ v.owned = inProgress /\ v.q = queue /\ GenTyped
  BY TreeShape, LenProperties DEF Lists
<1>2. Linked(b) /\ b.pending[p] \in SUBSET Paths BY BegunIsLinked DEF Lists
<1>3. /\ Settled(b, {p}) /\ (L # <<>> => ~WholeMark(b, p)) /\ b.direct[p] # 0
      /\ \A q \in Paths \ {p} : b.direct[q] = st.direct[q]
  BY BegunSettles DEF Lists
<1>4. /\ Counted(b, V, o) /\ b.parent = st.parent /\ b.acc[p] # None
      /\ \A c \in Kids(p) : st.parent[c] = None
      /\ \A q \in Paths : Pending(b, q) \subseteq Pending(st, q)
  BY BegunCounts DEF Lists
<1>5. \A j \in 1..n : L[j] \in Kids(p) BY <1>1 DEF Kids, ToSet
<1>6. /\ \A c \in Kids(p) : Tells(seen[c]) => Done(st, c)
      /\ p # o => \A c \in Kids(p) : st.direct[c] = 0
  BY DEF Lists
<1>7. v \in Adding BY <1>2 DEF Adding, Linked, Lists
<1> HIDE DEF b, seen, L, n
<1>8. n > 0 => Ready(b, p, seen, o)
  <2> SUFFICES ASSUME n > 0 PROVE Ready(b, p, seen, o)
    OBVIOUS
  <2>1. b.dirty[p] # TRUE
    <3>1. L # <<>> BY <1>1
    <3>2. QED BY <1>3, <3>1 DEF WholeMark
  <2>2. \A c \in Kids(p) : c \in Paths /\ c # p
    BY <1>1, KidIsPath, NotOwnKid
  <2>3. \A c \in Kids(p) : Tells(seen[c]) => Done(b, c)
    BY <1>3, <1>4, <1>6, <2>2 DEF Done
  <2>4. p # o => \A c \in Kids(p) : b.direct[c] = 0 BY <1>3, <1>6, <2>2
  <2>5. QED BY <1>2, <1>3, <1>4, <2>1, <2>3, <2>4 DEF Ready
<1>9. n > 0 => ~WholeMark(b, p) BY <1>1, <1>3 DEF n
<1>10. \A j \in (0 + 1)..n : b.parent[L[j]] = None BY <1>1, <1>4, <1>5
<1>11. QED BY <1>1, <1>3, <1>4, <1>7, <1>8, <1>9, <1>10 DEF Upto, b, seen, L, n

(* What one subfolder more needs of the loop, and what it gives. *)
LEMMA UptoNext ==
  ASSUME HasLocalRoot, NEW V, NEW o, NEW w \in Workers, Lists(w, V, o),
         NEW p, p = Doing(w), NEW L, L = Subfolders[p], NEW i \in 1..Len(L),
         NEW v, Upto(i - 1, v, w, V, o), NEW d \in 0..DepthCap,
         NEW y, y = AddSubfolder(v, p, L[i], Epoch(w), worker[w].seen, d)
  PROVE  Upto(i, y, w, V, o) /\ Adds(v, y, p, L[i], worker[w].seen, V, o)
<1> DEFINE n == Len(L)
           sf == L[i]
           t == Epoch(w)
           seen == worker[w].seen
<1>1. /\ L \in Seq(Paths) /\ n \in Nat /\ DOMAIN L = 1..n /\ p \in Paths
      /\ t \in Epochs /\ ~(t < minPage) /\ GenTyped
  BY TreeShape, LenProperties DEF Lists
<1>2. \A j, k \in 1..n : L[j] = L[k] => j = k
  BY <1>1, NamedOnce DEF IsInjective
<1>3. \A j \in 1..n : L[j] \in Kids(p) BY <1>1 DEF Kids, ToSet
<1>4. sf \in Kids(p) /\ i > 0 /\ n > 0 /\ (i - 1) + 1 = i /\ i \in 0..n
  BY <1>1, <1>3
<1>5. seen[sf] \in Record \cup {None} /\ Decided(seen[sf]) BY <1>4 DEF Lists
<1>6. /\ v \in Adding /\ Counted(v.s, V, o) /\ Settled(v.s, {p}) /\ Ready(v.s, p, seen, o)
      /\ v.s.direct = Begun(w).direct /\ v.s.parent[sf] = None
      /\ \A j \in (i + 1)..n : v.s.parent[L[j]] = None
      /\ \A c \in Paths \ Kids(p) : v.s.parent[c] = st.parent[c]
      /\ \A q \in Paths \ {p} : Pending(v.s, q) \subseteq Pending(st, q)
      /\ \A q \in Paths \ Kids(p) : v.owned[q] = inProgress[q]
  <2>1. i \in ((i - 1) + 1)..n /\ \A j \in (i + 1)..n : j \in ((i - 1) + 1)..n
    BY <1>1
  <2>2. QED BY <1>4, <2>1 DEF Upto
<1>7. WholeMark(v.s, p) => ~Undecided(v.s, p)
  <2>1. CASE i - 1 = 0 BY <1>4, <2>1 DEF Upto
  <2>2. CASE i - 1 # 0
    <3>1. Settled(v.s, {}) /\ p \notin {} BY <1>1, <1>4, <2>2 DEF Upto
    <3>2. QED BY <1>1, <3>1 DEF Settled
  <2>3. QED BY <2>1, <2>2
<1>8. v.s.pending[p] \in SUBSET Paths /\ Linked(v.s)
  BY <1>6 DEF Ready, Counted, Sound
<1>9. \A j \in (i + 1)..n : L[j] \in Paths /\ L[j] # sf
  <2> SUFFICES ASSUME NEW j \in (i + 1)..n PROVE L[j] \in Paths /\ L[j] # sf
    OBVIOUS
  <2>1. j \in 1..n /\ j # i BY <1>1
  <2>2. QED BY <1>1, <1>2, <1>3, <2>1, KidIsPath
<1>10. y = AddSubfolder(v, p, sf, t, seen, d)
  OBVIOUS
<1> HIDE DEF sf, t, seen
<1>11. y \in Adding
  BY <1>1, <1>4, <1>5, <1>6, <1>8, <1>10, AddSubfolderGrows
<1>12. Settled(y.s, {})
  <2>1. /\ v \in Adding /\ Linked(v.s) /\ v.s.pending[p] \in SUBSET Paths /\ Settled(v.s, {p})
        /\ WholeMark(v.s, p) => ~Undecided(v.s, p)
    BY <1>6, <1>7, <1>8
  <2>2. Settled(y.s, {}) /\ OnlyAdds(v, y)
    BY <1>1, <1>4, <1>5, <1>10, <2>1, AddSubfolderSettles
  <2>3. QED BY <2>2
<1>13. Adds(v, y, p, sf, seen, V, o)
  BY <1>1, <1>4, <1>6, <1>10, AddSubfolderCounts
<1>14. /\ Counted(y.s, V, o) /\ Ready(y.s, p, seen, o) /\ y.s.direct = v.s.direct
       /\ \A c \in Paths \ {sf} : y.s.parent[c] = v.s.parent[c]
       /\ \A q \in Paths \ {p} : Pending(y.s, q) \subseteq Pending(v.s, q)
       /\ \A q \in Paths \ {sf} : y.owned[q] = v.owned[q]
  BY <1>13 DEF Adds
<1>15. \A j \in (i + 1)..n : y.s.parent[L[j]] = None BY <1>6, <1>9, <1>14
<1>16. /\ \A q \in Paths \ {p} : Pending(y.s, q) \subseteq Pending(st, q)
       /\ \A q \in Paths \ Kids(p) : y.owned[q] = inProgress[q]
       /\ \A c \in Paths \ Kids(p) : y.s.parent[c] = st.parent[c]
  BY <1>4, <1>6, <1>14
<1>17. Settled(y.s, {p}) BY <1>12, SettledMore
<1>18. Upto(i, y, w, V, o)
  <2>1. y.s.direct = Begun(w).direct /\ Ready(y.s, Doing(w), worker[w].seen, o)
    BY <1>6, <1>14 DEF seen
  <2>2. p = Doing(w) /\ L = Subfolders[Doing(w)] /\ i # 0 /\ Counted(y.s, V, o)
    BY <1>4, <1>14
  <2>3. \A j \in (i + 1)..Len(Subfolders[Doing(w)]) : y.s.parent[Subfolders[Doing(w)][j]] = None
    BY <1>15, <2>2 DEF n
  <2>4. /\ \A q \in Paths \ {Doing(w)} : Pending(y.s, q) \subseteq Pending(st, q)
        /\ \A q \in Paths \ Kids(Doing(w)) : y.owned[q] = inProgress[q]
        /\ \A c \in Paths \ Kids(Doing(w)) : y.s.parent[c] = st.parent[c]
    BY <1>16, <2>2
  <2>5. Settled(y.s, {Doing(w)}) BY <1>17, <2>2
  <2> HIDE DEF n
  <2>6. QED BY <1>11, <1>12, <2>1, <2>2, <2>3, <2>4, <2>5 DEF Upto
<1>19. QED BY <1>13, <1>18 DEF seen, sf

(* A whole listing: every subfolder is given its parent once. *)
LEMMA ListedCounts ==
  ASSUME HasLocalRoot, NEW V, NEW o, NEW w \in Workers, Lists(w, V, o), NEW x, x = Listed(w)
  PROVE  /\ Upto(Len(Subfolders[Doing(w)]), x, w, V, o) /\ x.s.direct[Doing(w)] # 0
         /\ \A q \in Paths \ {Doing(w)} : x.s.direct[q] = st.direct[q]
<1> DEFINE p == Doing(w)
           L == Subfolders[p]
           n == Len(L)
           depth == IF worker[w].depth < DepthCap THEN worker[w].depth + 1 ELSE DepthCap
           At0 == [s |-> Begun(w), owned |-> inProgress, q |-> queue]
           A == [i \in 0..n |-> {v \in Adding : Upto(i, v, w, V, o)}]
<1>1. p \in Paths /\ L \in Seq(Paths) /\ n \in Nat /\ 0 \in 0..n /\ n \in 0..n
  BY TreeShape, LenProperties DEF Lists
<1>2. depth \in 0..DepthCap BY BoundsAndPages DEF Lists
<1> HIDE DEF L, n, depth
<1>3. At0 \in A[0]
  <2> HIDE DEF At0
  <2>1. Upto(0, At0, w, V, o) BY UptoBegins DEF At0
  <2>2. At0 \in Adding BY <2>1 DEF Upto
  <2>3. QED BY <1>1, <2>1, <2>2
<1>4. ASSUME NEW i \in 1..n, NEW v \in A[i - 1]
      PROVE  AddSubfolder(v, p, L[i], Epoch(w), worker[w].seen, depth) \in A[i]
  <2> DEFINE y == AddSubfolder(v, p, L[i], Epoch(w), worker[w].seen, depth)
  <2>1. i \in 0..n /\ i - 1 \in 0..n /\ i \in 1..Len(L) /\ L = Subfolders[p]
    BY <1>1 DEF L, n
  <2>2. Upto(i - 1, v, w, V, o) BY <2>1
  <2> HIDE DEF A
  <2>3. Upto(i, y, w, V, o) BY <1>2, <2>1, <2>2, UptoNext
  <2>4. y \in Adding BY <2>3 DEF Upto
  <2> HIDE DEF y
  <2>5. y \in A[i] BY <2>1, <2>3, <2>4 DEF A
  <2>6. QED BY <2>5 DEF y
<1> HIDE DEF A
<1>5. Listed(w) \in A[n] BY <1>1, <1>3, <1>4, AlongListed DEF depth, L, n
<1>6. Upto(Len(Subfolders[Doing(w)]), x, w, V, o) BY <1>1, <1>5 DEF A, n, L
<1>7. /\ Begun(w).direct[Doing(w)] # 0
      /\ \A q \in Paths \ {Doing(w)} : Begun(w).direct[q] = st.direct[q]
  BY BegunSettles DEF Lists
<1>8. QED BY <1>6, <1>7 DEF Upto

-----------------------------------------------------------------------------
(* The invariant behind the totals *)

(* A mishap takes no share away. *)
LEMMA SharesGrow ==
  ASSUME mishaps \in Nat, mishaps' = mishaps \/ mishaps' = mishaps + 1
  PROVE  \A p \in Paths : Shares[p] \subseteq Shares'[p]
<1>1. mishaps' = 0 => mishaps = 0
  OBVIOUS
<1>2. QED BY <1>1 DEF Shares

(* What adds up does so with more shares. *)
LEMMA CountedMore ==
  ASSUME NEW s, NEW V, NEW W, NEW o, Counted(s, V, o), \A p \in Paths : V[p] \subseteq W[p]
  PROVE  Counted(s, W, o)
<1>1. Tallied(s, W) BY DEF Counted, Sound, Tallied
<1>2. QED BY <1>1 DEF Counted, Sound

(* A state that adds up goes on doing so. *)
LEMMA CountedNext ==
  ASSUME NEW x, NEW o, Counted(x, Shares', o), st' = x, UNCHANGED generation
  PROVE  (Counted(st, Shares, o))'
<1>1. (Linked(st))' BY LinkedNext DEF Counted, Sound
<1>2. (Homed(st))' /\ (Blank(st))' /\ (MarksDone(st, o))'
  BY DEF Counted, Sound, Homed, Blank, MarksDone, Pending
<1>3. (Tallied(st, Shares))' BY DEF Counted, Sound, Tallied, Attached
<1>4. QED BY <1>1, <1>2, <1>3 DEF Counted, Sound

(* o is the top of what is reached. *)
LEMMA OriginIsTop ==
  ASSUME NEW o \in Paths, \A q \in Paths : Reached(q) => Lies(o, q)
  PROVE  \A p \in Paths : Reached(p) => o \notin Kids(p)
<1> DEFINE S == {q \in Paths : Reached(q)} \cup {o}
<1>1. S \in (SUBSET Paths) \ {{}}
  OBVIOUS
<1>2. \A q \in Paths : st.direct[q] # 0 => q \in S BY DEF Reached
<1>3. \A q \in S : q \in Paths /\ (q # o => Reached(q))
  OBVIOUS
<1>4. o \in S /\ \A q \in Paths : Reached(q) => q \in S
  OBVIOUS
<1> HIDE DEF S
<1>5. PICK p \in S : \A q \in S : p \notin Kids(q) BY <1>1, TreeShape
<1>6. p = o BY <1>2, <1>3, <1>4, <1>5 DEF Lies
<1>7. QED BY <1>4, <1>5, <1>6

(* Nothing in a folder other than o is reached before it is listed. *)
LEMMA NoKidReached ==
  ASSUME NEW o \in Paths, \A q \in Paths : Reached(q) => Lies(o, q),
         NEW p \in Paths, Reached(p), p # o, st.direct[p] = 0
  PROVE  \A c \in Kids(p) : ~Reached(c) /\ c # o
<1> SUFFICES ASSUME NEW c \in Kids(p) PROVE ~Reached(c) /\ c # o
  OBVIOUS
<1>1. c \in Paths /\ c # o BY OriginIsTop, KidIsPath
<1>2. QED BY <1>1, OneParent DEF Lies

(* A step after which the folders are reached from o as before. *)
LEMMA TrackOn ==
  ASSUME NEW o \in Paths, \A q \in Paths : Reached(q) => Lies(o, q),
         NEW x, st' = x, Counted(x, Shares', o), UNCHANGED generation,
         pageKey' # None => o = pageKey',
         \A q \in Paths : st.direct[q] # 0 => x.direct[q] # 0,
         \A q \in Paths : x.direct[q] # 0 \/ inProgress'[q] # 0 =>
           \/ Reached(q) \/ q = o \/ q \in Kids(o)
           \/ \E p \in Paths : q \in Kids(p) /\ x.direct[p] # 0,
         \A p \in Paths \ {o} : disk'[p] # None /\ disk'[p].complete => Done(x, p),
         \A w \in Workers : worker'[w].pc = "commit" =>
           \A c \in Kids(worker'[w].path) \ {o} : Tells(worker'[w].seen[c]) => Done(x, c)
  PROVE  (Tracked(o))'
<1>1. \A q \in Paths : Reached(q)' => Lies(o, q)' BY DEF Reached, Lies, Kids
<1>2. (Counted(st, Shares, o))' BY CountedNext
<1>3. \A p \in Paths \ {o} : Complete(p)' => (Done(st, p))'
  BY DEF Complete, Done, Pending
<1>4. \A w \in Workers : At(w, "commit")' =>
        \A c \in Kids(Doing(w)') \ {o} : Tells(worker'[w].seen[c]) => (Done(st, c))'
  BY DEF At, Doing, Done, Pending
<1>5. QED BY <1>1, <1>2, <1>3, <1>4 DEF Tracked, Tells, Kids

(* A worker's step: its new record may hold what is on disk. *)
LEMMA WorkerTracks ==
  ASSUME NEW o \in Paths, Tracked(o), CacheInv, NEW w \in Workers, NEW rec, Moves(w, rec),
         UNCHANGED <<generation, pageKey, disk>>, NEW x, st' = x, Counted(x, Shares', o),
         \A q \in Paths : st.direct[q] # 0 =>
           x.direct[q] # 0 /\ Pending(x, q) \subseteq Pending(st, q),
         \A q \in Paths : x.direct[q] # 0 \/ inProgress'[q] # 0 =>
           Reached(q) \/ \E p \in Paths : q \in Kids(p) /\ x.direct[p] # 0,
         rec.pc = "commit" => /\ rec.path \in Paths
                              /\ \A c \in Kids(rec.path) : rec.seen[c] = disk[c]
  PROVE  (Tracked(o))'
<1>1. worker'[w] = rec /\ \A v \in Workers \ {w} : worker'[v] = worker[v]
  BY DEF CacheInv, Working, Moves
<1>2. \A v \in Workers : worker[v].pc = "commit" => worker[v].path \in Paths
  BY DEF CacheInv, Working, Employed
<1>3. \A q \in Paths : Done(st, q) => Done(x, q) BY DEF Done
<1>4. \A p \in Paths \ {o} : disk[p] # None /\ disk[p].complete => Done(x, p)
  BY <1>3 DEF Tracked, Complete
<1>5. ASSUME NEW v \in Workers, worker'[v].pc = "commit",
             NEW c \in Kids(worker'[v].path) \ {o}, Tells(worker'[v].seen[c])
      PROVE  Done(x, c)
  <2>1. CASE v = w
    <3>1. c \in Paths /\ Tells(disk[c]) BY <1>1, <1>5, <2>1, KidIsPath
    <3>2. QED BY <1>4, <1>5, <3>1 DEF Tells
  <2>2. CASE v # w
    <3>1. worker'[v] = worker[v] /\ c \in Paths
      BY <1>1, <1>2, <1>5, <2>2, KidIsPath
    <3>2. Done(st, c) BY <1>5, <3>1 DEF Tracked, At, Doing
    <3>3. QED BY <1>3, <3>1, <3>2
  <2>3. QED BY <2>1, <2>2
<1>6. /\ \A q \in Paths : Reached(q) => Lies(o, q)
      /\ pageKey' # None => o = pageKey'
      /\ \A q \in Paths : st.direct[q] # 0 => x.direct[q] # 0
      /\ \A q \in Paths : x.direct[q] # 0 \/ inProgress'[q] # 0 =>
           \/ Reached(q) \/ q = o \/ q \in Kids(o)
           \/ \E p \in Paths : q \in Kids(p) /\ x.direct[p] # 0
      /\ \A p \in Paths \ {o} : disk'[p] # None /\ disk'[p].complete => Done(x, p)
  BY <1>4 DEF Tracked
<1>7. QED BY <1>5, <1>6, TrackOn

(* Another thread's step: no folder begins to be listed. *)
LEMMA OthersTrack ==
  ASSUME NEW o \in Paths, Tracked(o), CacheInv, UNCHANGED worker,
         UNCHANGED <<generation, pageKey>>, NEW x, st' = x, Counted(x, Shares', o),
         x.direct = st.direct, \A q \in Paths : Pending(x, q) \subseteq Pending(st, q),
         \A q \in Paths : inProgress'[q] # 0 => inProgress[q] # 0 \/ Lies(o, q),
         \A p \in Paths \ {o} : disk'[p] # None /\ disk'[p].complete =>
           Complete(p) \/ Done(st, p)
  PROVE  (Tracked(o))'
<1>1. \A v \in Workers : worker[v].pc = "commit" => worker[v].path \in Paths
  BY DEF CacheInv, Working, Employed
<1>2. \A q \in Paths : Done(st, q) => Done(x, q) BY DEF Done
<1>3. \A p \in Paths \ {o} : disk'[p] # None /\ disk'[p].complete => Done(x, p)
  BY <1>2 DEF Tracked
<1>4. ASSUME NEW v \in Workers, worker'[v].pc = "commit",
             NEW c \in Kids(worker'[v].path) \ {o}, Tells(worker'[v].seen[c])
      PROVE  Done(x, c)
  BY <1>1, <1>2, <1>4, KidIsPath DEF Tracked, At, Doing
<1>5. /\ \A q \in Paths : Reached(q) => Lies(o, q)
      /\ pageKey' # None => o = pageKey'
      /\ \A q \in Paths : st.direct[q] # 0 => x.direct[q] # 0
      /\ \A q \in Paths : x.direct[q] # 0 \/ inProgress'[q] # 0 =>
           \/ Reached(q) \/ q = o \/ q \in Kids(o)
           \/ \E p \in Paths : q \in Kids(p) /\ x.direct[p] # 0
  BY DEF Tracked, Reached, Lies
<1>6. QED BY <1>3, <1>4, <1>5, TrackOn

(* A step that leaves the cache alone. *)
LEMMA UnchangedTracks ==
  ASSUME NEW o \in Paths, Tracked(o), CacheInv,
         UNCHANGED <<st, inProgress, generation, worker, disk, pageKey, mishaps>>
  PROVE  (Tracked(o))'
<1>1. Counted(st, Shares', o) BY DEF Tracked, Shares
<1>2. QED BY <1>1, OthersTrack DEF Complete

(* What begins stays so in a step that neither opens a page nor requests. *)
LEMMA BeginsOn ==
  ASSUME Begins, UNCHANGED <<clock, pageKey, client>>, mishaps' = mishaps \/ mishaps' = mishaps + 1,
         clock = 0 => \A q \in Paths : Reached(q)' => Reached(q),
         \A p \in Paths : st'.direct[p] = 0 => st.direct[p] = 0 /\ disk'[p] = disk[p]
  PROVE  Begins'
  BY DEF Begins

(* Before the first page and request, any folder can become the page. *)
LEMMA StartTracks ==
  ASSUME HasLocalRoot, CacheInv, OwnedInv, Begins, clock = 0, NEW r \in Paths, Tracked(r),
         NEW o \in Paths
  PROVE  Tracked(o)
<1>1. \A q \in Paths : ~Reached(q) /\ st.direct[q] = 0 /\ inProgress[q] = 0
  BY DEF Begins, Reached
<1>2. MarksDone(st, o) BY <1>1 DEF MarksDone, OwnedInv, Settled, WholeMark
<1>3. Counted(st, Shares, o) BY <1>2 DEF Tracked, Counted
<1>4. \A p \in Paths : ~Complete(p) BY <1>1 DEF Begins, Complete
<1>5. \A w \in Workers : ~At(w, "commit")
  <2> SUFFICES ASSUME NEW w \in Workers, At(w, "commit") PROVE FALSE
    OBVIOUS
  <2>1. worker[w].path \in Paths BY DEF At, CacheInv, Working, Employed
  <2>2. Serves(worker[w], st.direct, inProgress) BY DEF OwnedInv
  <2>3. QED BY <1>1, <2>1, <2>2 DEF At, Serves
<1>6. QED BY <1>1, <1>3, <1>4, <1>5 DEF Tracked, Begins

(* request() of a folder that lies below the page. *)
LEMMA RequestTracks ==
  ASSUME OneEpoch, HasLocalRoot, CacheInv, OwnedInv, NEW o \in Paths, Tracked(o),
         NEW p \in Paths, NEW t \in Epochs, NEW d, Request(p, t, d), Lies(o, p)
  PROVE  (Tracked(o))' /\ st'.direct = st.direct /\ UNCHANGED <<disk, pageKey, mishaps>>
<1>1. PICK s \in {IF Awaits(st, p) THEN Repair(st, p) ELSE st} :
       \/ /\ Awaits(s, p)
          /\ st' = s
          /\ UNCHANGED <<inProgress, queue, minPage, flushing>>
       \/ /\ ~Awaits(s, p) /\ IsWhole(s, p)
          /\ st' = MarkDirty(s, p, TRUE)
          /\ flushing' = TRUE
          /\ UNCHANGED <<inProgress, queue, minPage>>
       \/ /\ ~Awaits(s, p) /\ ~IsWhole(s, p)
          /\ st' = IF s.direct[p] # 0 THEN Restarted(s, p) ELSE s
          /\ Own(p, t, d)
          /\ UNCHANGED flushing
  BY DEF Request
<1>2. UNCHANGED <<generation, worker, disk, pageKey, mishaps>>
  BY DEF Request
<1>3. /\ Linked(st) /\ GenTyped /\ Settled(st, {}) /\ inProgress \in [Paths -> 0..MaxPage]
      /\ Counted(st, Shares, o) /\ Sound(st, Shares)
  BY DEF CacheInv, Published, Owned, OwnedInv, Tracked, Counted
<1>4. /\ Linked(s) /\ Settled(s, {}) /\ s.direct = st.direct /\ Counted(s, Shares, o)
      /\ \A q \in Paths : Pending(s, q) \subseteq Pending(st, q)
  <2>1. CASE Awaits(st, p)
    <3>1. s = Repair(st, p) BY <1>1, <2>1
    <3>2. st.acc[p] # None BY <1>3, <2>1 DEF Awaits, Settled
    <3>3. Passes(st, Repair(st, p), Shares) BY <1>3, <3>2, RepairPasses
    <3>4. Counted(s, Shares, o) BY <1>3, <3>1, <3>3, CountedOn
    <3>5. Settled(s, {}) /\ s.direct = st.direct
      BY <1>3, <3>1, RepairSettles
    <3>6. QED BY <3>1, <3>3, <3>4, <3>5 DEF Passes, Hands, Sound
  <2>2. CASE ~Awaits(st, p) BY <1>1, <1>3, <2>2
  <2>3. QED BY <2>1, <2>2
<1>5. Shares' = Shares /\ \A p1 \in Paths : disk'[p1] # None /\ disk'[p1].complete => Complete(p1)
  BY <1>2 DEF Shares, Complete
<1>6. CASE Awaits(s, p) /\ st' = s /\ UNCHANGED <<inProgress, queue, minPage, flushing>>
  BY <1>2, <1>4, <1>5, <1>6, OthersTrack
<1>7. CASE /\ ~Awaits(s, p) /\ IsWhole(s, p) /\ st' = MarkDirty(s, p, TRUE)
           /\ flushing' = TRUE /\ UNCHANGED <<inProgress, queue, minPage>>
  <2> DEFINE x == MarkDirty(s, p, TRUE)
  <2>1. s.acc[p] # None /\ Pending(s, p) = {} /\ Sound(s, Shares)
    BY <1>4, <1>7 DEF IsWhole, Counted
  <2>2. Passes(s, x, Shares) BY <2>1, MarkDirtyPasses
  <2> HIDE DEF x
  <2>3. Counted(x, Shares, o) BY <1>4, <2>2, CountedOn
  <2>4. x.direct = st.direct /\ \A q \in Paths : Pending(x, q) \subseteq Pending(st, q)
    BY <1>4, <2>2 DEF Passes, Hands
  <2>5. st' = x BY <1>7 DEF x
  <2>6. QED BY <1>2, <1>5, <1>7, <2>3, <2>4, <2>5, OthersTrack
<1>8. CASE /\ ~Awaits(s, p) /\ ~IsWhole(s, p)
           /\ st' = IF s.direct[p] # 0 THEN Restarted(s, p) ELSE s
           /\ Own(p, t, d) /\ UNCHANGED flushing
  <2>1. s.direct[p] = 0
    <3> SUFFICES ASSUME s.direct[p] # 0 PROVE FALSE
      OBVIOUS
    <3>1. Pending(s, p) = {} BY <1>4, <1>8 DEF Awaits, Settled
    <3>2. QED BY <1>4, <1>8, <3>1, SettledIsWhole
  <2>2. st' = s BY <1>8, <2>1
  <2>3. \A q \in Paths : inProgress'[q] # 0 => inProgress[q] # 0 \/ Lies(o, q)
    BY <1>3, <1>8 DEF Own
  <2>4. QED BY <1>2, <1>4, <1>5, <2>2, <2>3, OthersTrack
<1>9. QED BY <1>1, <1>2, <1>6, <1>7, <1>8

(* A worker's step that leaves the accumulated state alone and owns nothing *)
(* more. *)
LEMMA WorkerStays ==
  ASSUME NEW o \in Paths, Tracked(o), Begins, CacheInv, NEW w \in Workers, NEW rec,
         Moves(w, rec), UNCHANGED <<st, generation, disk, pageKey, clock, client>>,
         mishaps' = mishaps \/ mishaps' = mishaps + 1,
         \A q \in Paths : inProgress'[q] # 0 => inProgress[q] # 0,
         rec.pc = "commit" => /\ rec.path \in Paths
                              /\ \A c \in Kids(rec.path) : rec.seen[c] = disk[c]
  PROVE  (Tracked(o))' /\ Begins'
<1>1. Begins' BY BeginsOn DEF Reached
<1>2. Counted(st, Shares', o)
  <2>1. \A p \in Paths : Shares[p] \subseteq Shares'[p]
    BY SharesGrow DEF Begins
  <2>2. Counted(st, Shares, o) BY DEF Tracked
  <2>3. QED BY <2>1, <2>2, CountedMore
<1>3. \A q \in Paths : st.direct[q] # 0 \/ inProgress'[q] # 0 => Reached(q)
  BY DEF Reached
<1>4. QED BY <1>1, <1>2, <1>3, WorkerTracks

(* Its job's record says nothing of subfolders. *)
LEMMA DequeueTracks ==
  ASSUME NEW o \in Paths, Tracked(o), Begins, CacheInv, NEW w \in Workers, Dequeue(w)
  PROVE  (Tracked(o))' /\ Begins'
<1>1. PICK rec : Moves(w, rec) /\ rec.pc = "got" BY DEF Dequeue
<1>2. UNCHANGED <<st, inProgress, generation, disk, pageKey, clock, client, mishaps>>
  BY DEF Dequeue
<1>3. QED BY <1>1, <1>2, WorkerStays

(* Nor does that of a claim or a skip. *)
LEMMA ClaimTracks ==
  ASSUME NEW o \in Paths, Tracked(o), Begins, CacheInv, NEW w \in Workers, Claim(w)
  PROVE  (Tracked(o))' /\ Begins'
<1>1. worker[w].pc = "got" BY DEF Claim, At
<1>2. DOMAIN worker[w] = JobFields BY <1>1, JobShape DEF Employed
<1>3. PICK rec : Moves(w, rec) /\ rec.pc # "commit"
  <2>1. \A pc \in {"flush", "stale", "done"} : [worker[w] EXCEPT !.pc = pc].pc = pc
    BY <1>2 DEF JobFields
  <2>2. [worker[w] EXCEPT !.pc = "list", !.epoch = Epoch(w), !.claimed = TRUE,
                          !.gen = generation[Doing(w)]].pc = "list"
    BY <1>2 DEF JobFields
  <2>3. QED BY <2>1, <2>2 DEF Claim
<1>4. UNCHANGED <<st, inProgress, generation, disk, pageKey, clock, client, mishaps>>
  BY DEF Claim
<1>5. QED BY <1>3, <1>4, WorkerStays

(* Nor does that of an idle worker. *)
LEMMA FlushEndsTracks ==
  ASSUME NEW o \in Paths, Tracked(o), Begins, CacheInv, NEW w \in Workers, FlushEnds(w)
  PROVE  (Tracked(o))' /\ Begins'
<1>1. Moves(w, Idle) /\ Idle.pc # "commit" BY DEF FlushEnds, Idle
<1>2. UNCHANGED <<st, inProgress, generation, disk, pageKey, clock, client, mishaps>>
  BY DEF FlushEnds
<1>3. QED BY <1>1, <1>2, WorkerStays

(* The listing: the records read beside it are those on disk. *)
LEMMA ListTracks ==
  ASSUME NEW o \in Paths, Tracked(o), Begins, CacheInv, NEW w \in Workers, List(w)
  PROVE  (Tracked(o))' /\ Begins'
<1> DEFINE seen == [c \in Kids(Doing(w)) |-> disk[c]]
           rec == [worker[w] EXCEPT !.pc = "commit", !.seen = seen]
<1>1. worker[w].pc = "list" /\ Moves(w, rec) BY DEF List, At
<1>2. UNCHANGED <<st, inProgress, generation, disk, pageKey, clock, client, mishaps>>
  BY DEF List
<1>3. DOMAIN worker[w] = JobFields /\ Doing(w) \in Paths
  BY <1>1, JobShape DEF Employed
<1>4. \A c \in Kids(Doing(w)) : seen[c] = disk[c]
  OBVIOUS
<1> HIDE DEF seen
<1>5. rec.path = Doing(w) /\ rec.seen = seen BY <1>3 DEF JobFields, Doing
<1> HIDE DEF rec
<1>6. rec.path \in Paths /\ \A c \in Kids(rec.path) : rec.seen[c] = disk[c]
  BY <1>3, <1>4, <1>5
<1>7. QED BY <1>1, <1>2, <1>6, WorkerStays

(* A listing failed, or was overtaken. *)
LEMMA ListStopsTracks ==
  ASSUME NEW o \in Paths, Tracked(o), Begins, CacheInv, NEW w \in Workers,
         ListFails(w) \/ ListSuperseded(w)
  PROVE  (Tracked(o))' /\ Begins'
<1>1. worker[w].pc # "idle" /\ Moves(w, Finishing(w, TRUE))
  BY DEF ListFails, ListSuperseded, At
<1>2. Finishing(w, TRUE).pc = "final" BY <1>1, ForcedFields
<1>3. /\ UNCHANGED <<st, inProgress, generation, disk, pageKey, clock, client>>
      /\ mishaps' = mishaps \/ mishaps' = mishaps + 1
  BY DEF ListFails, ListSuperseded, Mishap
<1>4. QED BY <1>1, <1>2, <1>3, WorkerStays

(* The folder is given up. *)
LEMMA FinishTracks ==
  ASSUME NEW o \in Paths, Tracked(o), Begins, CacheInv, NEW w \in Workers, Finish(w)
  PROVE  (Tracked(o))' /\ Begins'
<1> DEFINE rec == [worker[w] EXCEPT !.pc = "flush", !.claimed = FALSE]
<1>1. worker[w].pc = "final" /\ Moves(w, rec) BY DEF Finish, At
<1>2. UNCHANGED <<st, generation, disk, pageKey, clock, client, mishaps>>
  BY DEF Finish
<1>3. DOMAIN worker[w] = JobFields /\ inProgress \in [Paths -> 0..MaxPage]
  BY <1>1, JobShape DEF Employed, CacheInv, Owned
<1>4. rec.pc = "flush" BY <1>3 DEF JobFields
<1>5. \A q \in Paths : inProgress'[q] # 0 => inProgress[q] # 0
  BY <1>3 DEF Finish
<1> HIDE DEF rec
<1>6. QED BY <1>1, <1>2, <1>4, <1>5, WorkerStays

(* The folder had been listed: it is repaired. *)
LEMMA SkipDoneTracks ==
  ASSUME HasLocalRoot, NEW o \in Paths, Tracked(o), Begins, CacheInv, OwnedInv,
         NEW w \in Workers, SkipDone(w)
  PROVE  (Tracked(o))' /\ Begins'
<1> DEFINE x == Repair(st, Doing(w))
           rec == Finishing(w, FALSE)
<1>1. /\ worker[w].pc = "done" /\ st' = x /\ Moves(w, rec)
      /\ UNCHANGED <<inProgress, generation, disk, pageKey, clock, client, mishaps>>
  BY DEF SkipDone, At
<1>2. /\ Doing(w) \in Paths /\ GenTyped /\ Settled(st, {})
      /\ Serves(worker[w], st.direct, inProgress)
  BY <1>1, JobShape DEF CacheInv, Published, OwnedInv
<1>3. st.acc[Doing(w)] # None BY <1>1, <1>2 DEF Serves, Doing, Settled
<1>4. Counted(st, Shares, o) /\ Sound(st, Shares) BY DEF Tracked, Counted
<1>5. Passes(st, x, Shares) BY <1>2, <1>3, <1>4, RepairPasses
<1>6. rec.pc = "final" BY <1>1, UnforcedFields
<1> HIDE DEF x, rec
<1>7. Counted(x, Shares, o) /\ Shares' = Shares
  BY <1>1, <1>4, <1>5, CountedOn DEF Shares
<1>8. x.direct = st.direct /\ \A q \in Paths : Pending(x, q) \subseteq Pending(st, q)
  BY <1>5 DEF Passes, Hands
<1>9. (Tracked(o))'
  <2>1. \A q \in Paths : x.direct[q] # 0 \/ inProgress'[q] # 0 => Reached(q)
    BY <1>1, <1>8 DEF Reached
  <2>2. QED BY <1>1, <1>6, <1>7, <1>8, <2>1, WorkerTracks
<1>10. Begins' BY <1>1, <1>8, BeginsOn DEF Reached
<1>11. QED BY <1>9, <1>10

(* A step that ends a listing with a result: only its folder was listed. *)
LEMMA ListingTracks ==
  ASSUME NEW o \in Paths, Tracked(o), Begins, CacheInv, ClaimInv, OwnedInv,
         NEW w \in Workers, Listing(w), NEW rec, Moves(w, rec), rec.pc = "final",
         UNCHANGED <<generation, disk, pageKey, clock, client>>,
         mishaps' = mishaps \/ mishaps' = mishaps + 1,
         NEW x, st' = x, Counted(x, Shares', o), x.direct[Doing(w)] # 0,
         \A q \in Paths \ {Doing(w)} :
           x.direct[q] = st.direct[q] /\ Pending(x, q) \subseteq Pending(st, q),
         \A q \in Paths \ Kids(Doing(w)) : inProgress'[q] = inProgress[q]
  PROVE  (Tracked(o))' /\ Begins'
<1>1. Doing(w) \in Paths /\ st.direct[Doing(w)] = 0 /\ inProgress[Doing(w)] # 0
  BY ListingServes
<1>2. clock # 0 BY <1>1 DEF Begins, Reached
<1>3. \A q \in Paths : st.direct[q] # 0 => x.direct[q] # 0 /\ Pending(x, q) \subseteq Pending(st, q)
  BY <1>1
<1>4. \A q \in Paths : x.direct[q] # 0 \/ inProgress'[q] # 0 =>
        Reached(q) \/ \E p \in Paths : q \in Kids(p) /\ x.direct[p] # 0
  BY <1>1 DEF Reached
<1>5. (Tracked(o))' BY <1>3, <1>4, WorkerTracks
<1>6. Begins' BY <1>2, <1>3, BeginsOn
<1>7. QED BY <1>5, <1>6

(* An exception: the folder counts as empty, whatever its files are. *)
LEMMA FailedCounts ==
  ASSUME GenTyped, NEW V, NEW o, Counted(st, V, o), NEW p \in Paths, st.direct[p] = 0,
         NEW t \in Epochs, NEW a \in Acc, a.total = 0, a.gen = generation[p], 0 \in V[p],
         NEW s, s = WithRecord(st, p, a, t)
  PROVE  /\ Counted(s, V, o) /\ s.acc[p] # None /\ s.direct[p] # 0 /\ Pending(s, p) = {}
         /\ \A q \in Paths \ {p} : s.direct[q] = st.direct[q] /\ Pending(s, q) = Pending(st, q)
<1> DEFINE pend == Pending(st, p)
<1>1. /\ Linked(st) /\ st \in StateSet /\ Homed(st) /\ Tallied(st, V) /\ Blank(st)
      /\ st.acc[p] = None /\ pend = {} /\ t # 0
  BY BoundsAndPages DEF Counted, Sound, Linked, Blank, Epochs
<1>2. Linked(s) /\ s.acc[p] # None BY <1>1, RecordGrows DEF Grows
<1>3. s = [st EXCEPT !.acc = [st.acc EXCEPT ![p] = a],
                     !.direct = [st.direct EXCEPT ![p] = t],
                     !.pending = [st.pending EXCEPT ![p] = pend]]
  BY <1>1 DEF WithRecord, StateSet
<1> HIDE DEF pend
<1>4. /\ s.acc[p] = a /\ \A q \in Paths \ {p} : s.acc[q] = st.acc[q]
      /\ s.direct[p] = t /\ \A q \in Paths \ {p} : s.direct[q] = st.direct[q]
      /\ s.pending[p] = pend /\ \A q \in Paths \ {p} : s.pending[q] = st.pending[q]
      /\ s.parent = st.parent /\ s.contrib = st.contrib /\ s.dirty = st.dirty
  BY <1>1, <1>3 DEF StateSet
<1>5. \A c \in Paths : st.parent[c] # p BY <1>1, NoneApart DEF Homed
<1>6. Homed(s) BY <1>1, <1>4, <1>5 DEF Homed, StateSet
<1>7. \A q \in Paths : Attached(s, q) = Attached(st, q) BY <1>4 DEF Attached
<1>8. Attached(s, p) = {} BY <1>5, <1>7 DEF Attached
<1>9. SumOver(s.contrib, Attached(s, p)) = 0 BY <1>8, SumTakes, FS_EmptySet
<1>10. Tallied(s, V)
  <2>1. s.acc[p].total - SumOver(s.contrib, Attached(s, p)) \in V[p]
    BY <1>4, <1>9
  <2>2. \A q \in Paths \ {p} : s.acc[q] # None =>
          s.acc[q].total - SumOver(s.contrib, Attached(s, q)) \in V[q]
    BY <1>1, <1>4, <1>7 DEF Tallied
  <2>3. QED BY <2>1, <2>2 DEF Tallied
<1>11. Pending(s, p) = {} /\ \A q \in Paths \ {p} : Pending(s, q) = Pending(st, q)
  BY <1>1, <1>4 DEF Pending
<1>12. Blank(s) BY <1>1, <1>4, <1>11 DEF Blank
<1>13. MarksDone(s, o) BY <1>4, <1>11 DEF Counted, MarksDone
<1>14. QED BY <1>1, <1>2, <1>4, <1>6, <1>10, <1>11, <1>12, <1>13 DEF Counted, Sound

(* Its total may lack the folder's own files from now on. *)
LEMMA JobFailsTracks ==
  ASSUME HasLocalRoot, NEW o \in Paths, Tracked(o), Begins, CacheInv, ClaimInv, OwnedInv,
         NEW w \in Workers, JobFails(w)
  PROVE  (Tracked(o))' /\ Begins'
<1> DEFINE p == Doing(w)
           t == Epoch(w)
           a == [total |-> 0, gen |-> generation[p], diff |-> "diff"]
           s == WithRecord(st, p, a, t)
           m == MarkDirty(s, p, TRUE)
           u == Propagate(m, p)
           x == OnSubtreeComplete(u, p)
<1>1. /\ Listing(w) /\ worker[w].pc # "idle" /\ mishaps' = mishaps + 1
      /\ UNCHANGED <<inProgress, generation, disk, pageKey, clock, client>>
  BY DEF JobFails, At, Listing, Mishap
<1>2. p \in Paths /\ t \in Epochs /\ st.direct[p] = 0
  BY <1>1, JobShape, ListingServes
<1>3. /\ GenTyped /\ Counted(st, Shares, o) /\ mishaps \in Nat /\ st.acc[p] = None
      /\ Linked(st)
  BY <1>2 DEF CacheInv, Published, Tracked, Begins, Counted, Blank, Sound
<1>4. CASE CalledOff(w)
  <2>1. UNCHANGED st /\ Moves(w, Finishing(w, TRUE)) BY <1>4 DEF JobFails
  <2>2. Finishing(w, TRUE).pc = "final" BY <1>1, ForcedFields
  <2>3. QED BY <1>1, <2>1, <2>2, WorkerStays
<1>5. CASE ~CalledOff(w)
  <2>1. st' = x /\ Moves(w, Finishing(w, FALSE))
    <3>1. s = [st EXCEPT !.acc[p] = a, !.direct[p] = Epoch(w), !.pending[p] = Pending(st, p)]
      BY DEF WithRecord
    <3>2. (IF st.acc[p] # None THEN st.acc[p]
             ELSE [total |-> 0, gen |-> generation[p],
                   diff |-> IF HasLocalRoot THEN "diff" ELSE "unavailable"]) = a
      BY <1>3
    <3>3. st.acc \in [Paths -> Acc \cup {None}] BY <1>3 DEF Linked, StateSet
    <3>4. [st EXCEPT !.acc[p] = IF @ # None THEN @
                                ELSE [total |-> 0, gen |-> generation[p],
                                      diff |-> IF HasLocalRoot THEN "diff" ELSE "unavailable"],
                     !.direct[p] = Epoch(w), !.pending[p] = Pending(st, p)] = s
      BY <3>1, <3>2
    <3>5. QED BY <1>5, <3>4 DEF JobFails
  <2>2. a \in Acc /\ a.total = 0 /\ a.gen = generation[p]
    <3>1. generation[p] \in Nat BY <1>2, <1>3 DEF GenTyped
    <3>2. QED BY <3>1 DEF Acc
  <2>3. Counted(st, Shares', o) /\ 0 \in Shares'[p]
    <3>1. \A q \in Paths : Shares[q] \subseteq Shares'[q]
      BY <1>1, <1>3, SharesGrow
    <3>2. Counted(st, Shares', o) BY <1>3, <3>1, CountedMore
    <3>3. mishaps' # 0 BY <1>1, <1>3
    <3>4. 0 \in Shares'[p] BY <1>2, <3>3 DEF Shares
    <3>5. QED BY <3>2, <3>4
  <2> HIDE DEF a, s, t
  <2>4. /\ Counted(s, Shares', o) /\ s.acc[p] # None /\ s.direct[p] # 0 /\ Pending(s, p) = {}
        /\ \A q \in Paths \ {p} : s.direct[q] = st.direct[q] /\ Pending(s, q) = Pending(st, q)
    <3>1. s = WithRecord(st, p, a, t) BY DEF s
    <3> HIDE DEF p
    <3>2. QED BY <1>2, <1>3, <2>2, <2>3, <3>1, FailedCounts
  <2>5. Passes(s, m, Shares') /\ m.acc[p] # None
    <3>1. Sound(s, Shares') /\ Linked(s) BY <2>4 DEF Counted, Sound
    <3>2. QED BY <1>2, <2>4, <3>1, MarkDirtyPasses, MarkDirtyGrows
  <2> HIDE DEF m
  <2>6. Passes(m, u, Shares') BY <1>2, <2>5, PropagatePasses DEF Passes
  <2> HIDE DEF u
  <2>7. Passes(u, x, Shares')
    BY <1>2, <1>3, <2>6, OnSubtreeCompletePasses DEF Passes
  <2> HIDE DEF x
  <2>8. Passes(s, x, Shares') BY <2>5, <2>6, <2>7, PassesFurther
  <2>9. Counted(x, Shares', o) BY <2>4, <2>8, CountedOn
  <2>10. /\ x.direct[p] # 0
         /\ \A q \in Paths \ {p} :
              x.direct[q] = st.direct[q] /\ Pending(x, q) \subseteq Pending(st, q)
    BY <1>2, <2>4, <2>8 DEF Passes, Hands
  <2>11. Finishing(w, FALSE).pc = "final" BY <1>1, UnforcedFields
  <2> HIDE DEF p
  <2>12. x.direct[Doing(w)] # 0 /\ \A q \in Paths \ {Doing(w)} :
           x.direct[q] = st.direct[q] /\ Pending(x, q) \subseteq Pending(st, q)
    BY <2>10 DEF p
  <2>13. QED BY <1>1, <2>1, <2>9, <2>11, <2>12, ListingTracks
<1>6. QED BY <1>4, <1>5

(* What a listing has when it commits. *)
LEMMA CommitLists ==
  ASSUME OneEpoch, NEW o \in Paths, Tracked(o), CacheInv, ClaimInv, OwnedInv,
         NEW w \in Workers, At(w, "commit"), ~CalledOff(w)
  PROVE  Lists(w, Shares, o)
<1> DEFINE p == Doing(w)
           seen == worker[w].seen
<1>1. worker[w].pc = "commit" /\ Listing(w) /\ worker[w].pc # "idle"
  BY DEF At, Listing
<1>2. /\ p \in Paths /\ Epoch(w) \in Epochs /\ Employed(worker[w])
      /\ st.direct[p] = 0 /\ inProgress[p] # 0
  BY <1>1, JobShape, ListingServes
<1>3. /\ Linked(st) /\ GenTyped /\ Settled(st, {}) /\ queue \in JobBags
      /\ inProgress \in [Paths -> 0..MaxPage]
      /\ Serves(worker[w], st.direct, inProgress)
      /\ Counted(st, Shares, o)
  BY DEF CacheInv, Published, Owned, OwnedInv, Tracked
<1>4. worker[w].depth \in 0..DepthCap /\ seen \in [Kids(p) -> Record \cup {None}]
  BY <1>1, <1>2 DEF Employed, Doing
<1>5. \A c \in Kids(p) : Decided(seen[c]) BY <1>1, <1>3 DEF Serves, Doing
<1>6. ~(Epoch(w) < minPage) BY <1>2, OneEpochValues
<1>7. DirectTotal[p] \in Shares[p] BY <1>2 DEF Shares
<1>8. p # o => \A c \in Kids(p) : ~Reached(c) /\ c # o
  BY <1>2, NoKidReached DEF Tracked, Reached
<1>9. p # o => \A c \in Kids(p) : st.direct[c] = 0 BY <1>8 DEF Reached
<1>10. \A c \in Kids(p) : Tells(seen[c]) => Done(st, c)
  <2>1. \A c \in Kids(p) : c # o BY <1>2, <1>8, NotOwnKid
  <2>2. \A c \in Kids(p) \ {o} : Tells(seen[c]) => Done(st, c)
    BY <1>1 DEF Tracked, At
  <2>3. QED BY <2>1, <2>2
<1>11. QED BY <1>2, <1>3, <1>4, <1>5, <1>6, <1>7, <1>9, <1>10 DEF Lists

(* _compute's locked section. *)
LEMMA CommitTracks ==
  ASSUME OneEpoch, HasLocalRoot, NEW o \in Paths, Tracked(o), Begins, CacheInv, ClaimInv,
         OwnedInv, NEW w \in Workers, Commit(w)
  PROVE  (Tracked(o))' /\ Begins'
<1> DEFINE p == Doing(w)
           y == Listed(w)
           x == MaybeComplete(y.s, p)
           Ended(force) == [Finishing(w, force) EXCEPT !.seen = None]
<1>1. /\ worker[w].pc = "commit" /\ Listing(w) /\ worker[w].pc # "idle"
      /\ UNCHANGED <<generation, disk, pageKey, clock, client, mishaps>>
  BY DEF Commit, At, Listing
<1>2. /\ p \in Paths /\ Epoch(w) \in Epochs /\ Employed(worker[w])
      /\ st.direct[p] = 0 /\ inProgress[p] # 0
  BY <1>1, JobShape, ListingServes
<1>3. /\ Linked(st) /\ GenTyped /\ Settled(st, {}) /\ queue \in JobBags
      /\ inProgress \in [Paths -> 0..MaxPage]
      /\ Serves(worker[w], st.direct, inProgress)
      /\ Counted(st, Shares, o) /\ Shares' = Shares
  BY <1>1 DEF CacheInv, Published, Owned, OwnedInv, Tracked, Shares
<1>4. CASE CalledOff(w)
  <2> DEFINE rec == Ended(TRUE)
  <2>1. UNCHANGED <<st, inProgress>> /\ Moves(w, rec) BY <1>4 DEF Commit
  <2>2. rec.pc = "final" BY <1>1, ForcedFields
  <2> HIDE DEF rec
  <2>3. QED BY <1>1, <2>1, <2>2, WorkerStays
<1>5. CASE ~CalledOff(w)
  <2> DEFINE rec == Ended(FALSE)
  <2>1. st' = x /\ inProgress' = y.owned /\ Moves(w, rec) BY <1>5 DEF Commit
  <2>2. rec.pc = "final" BY <1>1, UnforcedFields
  <2> HIDE DEF rec, Ended
  <2>3. Lists(w, Shares, o) /\ y = Listed(w)
    BY <1>1, <1>5, CommitLists DEF At
  <2> HIDE DEF y
  <2>4. /\ Counted(y.s, Shares, o) /\ y.s.direct[p] # 0
        /\ \A q \in Paths \ {p} : y.s.direct[q] = st.direct[q]
        /\ \A q \in Paths \ {p} : Pending(y.s, q) \subseteq Pending(st, q)
        /\ \A q \in Paths \ Kids(p) : y.owned[q] = inProgress[q]
    <3>1. /\ Upto(Len(Subfolders[p]), y, w, Shares, o) /\ y.s.direct[p] # 0
          /\ \A q \in Paths \ {p} : y.s.direct[q] = st.direct[q]
      BY <2>3, ListedCounts
    <3>2. QED BY <3>1 DEF Upto
  <2>5. Passes(y.s, x, Shares)
    BY <1>2, <1>3, <2>4, MaybeCompletePasses DEF Counted
  <2> HIDE DEF x
  <2>6. Counted(x, Shares', o) BY <1>3, <2>4, <2>5, CountedOn
  <2>7. /\ x.direct[p] # 0
        /\ \A q \in Paths \ {p} :
             x.direct[q] = st.direct[q] /\ Pending(x, q) \subseteq Pending(st, q)
        /\ \A q \in Paths \ Kids(p) : inProgress'[q] = inProgress[q]
    BY <1>2, <2>1, <2>4, <2>5 DEF Passes, Hands
  <2> HIDE DEF p
  <2>8. /\ x.direct[Doing(w)] # 0
        /\ \A q \in Paths \ {Doing(w)} :
             x.direct[q] = st.direct[q] /\ Pending(x, q) \subseteq Pending(st, q)
        /\ \A q \in Paths \ Kids(Doing(w)) : inProgress'[q] = inProgress[q]
    BY <2>7 DEF p
  <2>9. QED BY <1>1, <2>1, <2>2, <2>6, <2>8, ListingTracks
<1>6. QED BY <1>4, <1>5

(* A record is written: if as complete, then of a folder that waits for *)
(* nothing, or of o. *)
LEMMA FlushRecordTracks ==
  ASSUME NEW o \in Paths, Tracked(o), Begins, CacheInv, NEW p \in Paths, FlushRecord(p)
  PROVE  (Tracked(o))' /\ Begins'
<1> DEFINE x == [st EXCEPT !.dirty[p] = None]
           r == [total |-> st.acc[p].total, diff |-> st.acc[p].diff, gen |-> st.acc[p].gen,
                 complete |-> st.dirty[p]]
<1>1. /\ st.dirty[p] # None /\ disk' = [disk EXCEPT ![p] = r] /\ st' = x
      /\ UNCHANGED <<inProgress, generation, worker, pageKey, clock, client, mishaps>>
  BY DEF FlushRecord
<1>2. /\ Linked(st) /\ st \in StateSet /\ Homed(st) /\ Tallied(st, Shares) /\ Blank(st)
      /\ MarksDone(st, o) /\ disk \in [Paths -> Record \cup {None}]
  BY DEF CacheInv, Published, Tracked, Counted, Sound, Linked
<1>3. st.acc[p] # None /\ st.direct[p] # 0 /\ st.dirty[p] \in BOOLEAN
  BY <1>1, <1>2 DEF Linked, Blank, StateSet
<1>4. x = [st EXCEPT !.dirty = [st.dirty EXCEPT ![p] = None]]
  BY <1>2 DEF StateSet
<1>5. r.complete = st.dirty[p]
  OBVIOUS
<1> HIDE DEF x, r
<1>6. /\ x \in StateSet /\ x.acc = st.acc /\ x.pending = st.pending /\ x.direct = st.direct
      /\ x.parent = st.parent /\ x.contrib = st.contrib
      /\ x.dirty[p] = None /\ \A q \in Paths \ {p} : x.dirty[q] = st.dirty[q]
  BY <1>2, <1>4 DEF StateSet
<1>7. \A q : Pending(x, q) = Pending(st, q) BY <1>6 DEF Pending
<1>8. Linked(x) BY <1>2, <1>6, <1>7 DEF Linked
<1>9. Homed(x) /\ Tallied(x, Shares) /\ Blank(x)
  BY <1>2, <1>6, <1>7 DEF Homed, Tallied, Attached, Blank
<1>10. MarksDone(x, o) BY <1>2, <1>6, <1>7, NoneApart DEF MarksDone
<1>11. Counted(x, Shares', o)
  BY <1>1, <1>8, <1>9, <1>10 DEF Counted, Sound, Shares
<1>12. \A q \in Paths \ {o} : disk'[q] # None /\ disk'[q].complete => Complete(q) \/ Done(st, q)
  <2>1. \A q \in Paths \ {p} : disk'[q] = disk[q] BY <1>1, <1>2
  <2>2. p # o /\ disk'[p] # None /\ disk'[p].complete => Done(st, p)
    BY <1>1, <1>2, <1>3, <1>5 DEF MarksDone, Done
  <2>3. QED BY <2>1, <2>2 DEF Complete
<1>13. (Tracked(o))' BY <1>1, <1>6, <1>7, <1>11, <1>12, OthersTrack
<1>14. \A q \in Paths : st'.direct[q] = 0 => st.direct[q] = 0 /\ disk'[q] = disk[q]
  BY <1>1, <1>2, <1>3, <1>6
<1>15. Begins' BY <1>1, <1>6, <1>14, BeginsOn DEF Reached
<1>16. QED BY <1>13, <1>15

(* A request for the page k: it is below the page shown, or the first there is. *)
LEMMA RequestForTracks ==
  ASSUME OneEpoch, HasLocalRoot, CacheInv, OwnedInv, Begins, NEW r \in Paths, Tracked(r),
         NEW k \in Pages, NEW p \in Paths, NEW d, RequestFor(k, p, d),
         pageKey = k => Lies(k, p),
         \A j \in Pages : client'[j].step # "off" => client[j].step # "off" \/ pageKey = j
  PROVE  Begins' /\ \E o \in Paths : (Tracked(o))'
<1>1. PICK t \in EpochsFor(k) : Request(p, t, d) /\ clock' = Larger(clock, t)
  BY DEF RequestFor
<1>2. t \in Epochs /\ clock' # 0 /\ k # None
  <2>1. t \in Epochs /\ Larger(clock, t) >= t BY EpochsForPage DEF CacheInv
  <2>2. Larger(clock, t) \in Int BY EpochsForPage DEF CacheInv
  <2>3. QED BY <1>1, <2>1, <2>2, NoneApart, BoundsAndPages DEF Epochs
<1>3. PICK o \in Paths : Tracked(o) /\ Lies(o, p)
  <2>1. CASE pageKey = k BY <1>2, <2>1 DEF Tracked
  <2>2. CASE pageKey # k
    <3>1. clock = 0 BY <1>1, <2>2 DEF EpochsFor, OneEpoch, CacheInv, Timed
    <3>2. Tracked(p) BY <3>1, StartTracks
    <3>3. QED BY <3>2 DEF Lies
  <2>3. QED BY <2>1, <2>2
<1>4. (Tracked(o))' /\ st'.direct = st.direct /\ UNCHANGED <<disk, pageKey, mishaps>>
  BY <1>1, <1>2, <1>3, RequestTracks
<1>5. Begins' BY <1>2, <1>4 DEF Begins
<1>6. QED BY <1>4, <1>5

(* A step of the browser tab. *)
LEMMA BrowserTracks ==
  ASSUME OneEpoch, HasLocalRoot, CacheInv, OwnedInv, Begins, NEW r \in Paths, Tracked(r),
         NEW k \in Pages, Browser(k)
  PROVE  Begins' /\ \E o \in Paths : (Tracked(o))'
<1>1. k \in Paths /\ Tab(client[k], k) /\ DOMAIN client = Pages
  BY BoundsAndPages DEF CacheInv, Browsing
<1>2. client[k].step # "off"
  BY DEF Browser, LoadCurrent, ShowPage, PollRow, PollCurrent
<1>3. pageKey = k /\ k # None BY <1>1, <1>2, NoneApart DEF Begins
<1>4. r = k /\ clock # 0 BY <1>3 DEF Tracked, Begins
<1>5. \A j \in Pages : client'[j].step # "off" => client[j].step # "off" \/ pageKey = j
  BY <1>1, <1>3 DEF Browser, LoadCurrent, ShowPage, PollRow, PollCurrent
<1>6. \A p \in Kids(k) \cup {k} : p \in Paths /\ Lies(k, p)
  BY <1>1, KidIsPath DEF Lies
<1>7. ASSUME UNCHANGED cacheVars PROVE Begins' /\ (Tracked(r))'
  <2>1. (Tracked(r))' BY <1>7, UnchangedTracks DEF cacheVars
  <2>2. Begins' BY <1>3, <1>4, <1>5, <1>7 DEF Begins, cacheVars, Reached
  <2>3. QED BY <2>1, <2>2
<1>8. ASSUME NEW p \in Kids(k) \cup {k}, Ask(k, p)
      PROVE  Begins' /\ \E o \in Paths : (Tracked(o))'
  BY <1>5, <1>6, <1>7, <1>8, RequestForTracks DEF Ask
<1>9. CASE LoadCurrent(k)
  <2>1. CASE Request(k, client[k].time, 0) /\ UNCHANGED clock
    <3>1. client[k].time \in 1..clock BY <1>1, <1>9 DEF LoadCurrent, Tab
    <3>2. client[k].time \in Epochs
      BY <3>1, BoundsAndPages DEF CacheInv, Timed, Epochs
    <3>3. (Tracked(r))' /\ st'.direct = st.direct /\ UNCHANGED <<disk, pageKey, mishaps>>
      BY <1>1, <1>4, <1>6, <2>1, <3>2, RequestTracks
    <3>4. Begins' BY <1>3, <1>4, <1>5, <2>1, <3>3 DEF Begins
    <3>5. QED BY <3>3, <3>4
  <2>2. QED BY <1>7, <1>9, <2>1 DEF LoadCurrent
<1>10. CASE ShowPage(k) BY <1>7, <1>10 DEF ShowPage
<1>11. CASE PollRow(k)
  <2>1. client[k].left \in Seq({k} \cup Kids(k)) /\ client[k].left # <<>>
    BY <1>1, <1>11 DEF PollRow, Tab
  <2>2. Head(client[k].left) \in Kids(k) \cup {k}
    BY <2>1, HeadTailProperties
  <2>3. QED BY <1>7, <1>8, <1>11, <2>2 DEF PollRow
<1>12. CASE PollCurrent(k) BY <1>7, <1>8, <1>12 DEF PollCurrent
<1>13. QED BY <1>9, <1>10, <1>11, <1>12 DEF Browser

(* A page is loaded: the first one. *)
LEMMA OpenPageTracks ==
  ASSUME OneEpoch, HasLocalRoot, CacheInv, OwnedInv, Begins, NEW r \in Paths, Tracked(r),
         NEW k \in Pages, NEW force \in BOOLEAN, OpenPage(k, force)
  PROVE  Begins' /\ (Tracked(k))'
<1>1. /\ clock = 0 /\ clock' # 0 /\ k \in Paths /\ k # None
  BY NoneApart, BoundsAndPages DEF OpenPage, OneEpoch, CacheInv, Timed
<1>2. pageKey = None /\ \A j \in Pages : j # None => client[j].step = "off"
  BY <1>1 DEF Begins
<1>3. pageKey' = k BY <1>1, <1>2 DEF OpenPage
<1>4. UNCHANGED <<st, inProgress, generation, worker, disk, mishaps>>
  BY DEF OpenPage
<1>5. \A j \in Pages : client'[j].step # "off" => j = k
  BY <1>2, NoneApart, BoundsAndPages DEF OpenPage, CacheInv, Browsing
<1>6. Begins' BY <1>1, <1>3, <1>4, <1>5 DEF Begins
<1>7. Tracked(k) BY <1>1, StartTracks
<1>8. (Tracked(k))'
  <2>1. (Counted(st, Shares, k))'
    <3>1. Counted(st, Shares', k) BY <1>4, <1>7 DEF Tracked, Shares
    <3>2. QED BY <1>4, <3>1, CountedNext
  <2>2. QED
    BY <1>3, <1>4, <1>7, <2>1
       DEF Tracked, Reached, Lies, Complete, Done, Pending, At, Doing, Tells, Kids
<1>9. QED BY <1>6, <1>8

(* A folder below k, other than k, is listed in a folder below k. *)
LEMMA StepBelow ==
  ASSUME NEW k \in Paths, NEW p \in Below(k), p # k
  PROVE  \E q \in Below(k) : p \in Kids(q) /\ p \in Below(q)
<1> DEFINE L == Lineage[p]
           q == L[2]
           M == Lineage[q]
<1>1. p \in Paths /\ Chain(L, p) /\ k \in ToSet(L)
  BY LineageIsChain DEF Below
<1>2. L \in Seq(Paths) /\ Len(L) \in Nat /\ DOMAIN L = 1..Len(L) /\ L[1] = p
  BY <1>1, LenProperties DEF Chain
<1> HIDE DEF L
<1>3. PICK i \in 1..Len(L) : k = L[i] BY <1>1, <1>2 DEF ToSet
<1>4. i >= 2 /\ 2 \in 1..Len(L) /\ 1 \in 1..(Len(L) - 1) /\ 1 + 1 = 2
  BY <1>2, <1>3
<1>5. q \in Paths /\ p \in Kids(q) BY <1>1, <1>2, <1>4 DEF Chain
<1>6. Chain(M, q) BY <1>5, LineageIsChain
<1>7. M \in Seq(Paths) /\ Len(M) \in Nat /\ DOMAIN M = 1..Len(M)
  BY <1>6, LenProperties DEF Chain
<1> HIDE DEF M
<1>8. L = <<p>> \o M
  <2>1. Chain(<<p>> \o M, p) BY <1>1, <1>5, <1>6, ChainOnwards
  <2>2. QED BY <1>1, <2>1, ChainUnique
<1>9. Len(L) = Len(M) + 1 /\ \A j \in 1..Len(M) : L[j + 1] = M[j]
  BY <1>7, <1>8, <1>1
<1>10. k \in ToSet(M)
  <2>1. i - 1 \in 1..Len(M) /\ (i - 1) + 1 = i BY <1>2, <1>4, <1>7, <1>9
  <2>2. M[i - 1] = k BY <1>3, <1>9, <2>1
  <2>3. QED BY <1>7, <2>1, <2>2 DEF ToSet
<1>11. q \in Below(k) BY <1>5, <1>10 DEF Below, M
<1>12. p \in Below(q) BY <1>1, <1>2, <1>4 DEF Below, ToSet, L
<1>13. QED BY <1>5, <1>11, <1>12

(* ensure_known_subtree asks for a folder only when all above it, up to the *)
(* page, were listed. *)
LEMMA EnsureKnownTracks ==
  ASSUME OneEpoch, HasLocalRoot, CacheInv, OwnedInv, Begins, NEW r \in Paths, Tracked(r),
         NEW k \in Pages, NEW p \in Paths, EnsureKnown(k, p)
  PROVE  Begins' /\ \E o \in Paths : (Tracked(o))'
<1>1. k \in Paths /\ p \in Below(k) BY BoundsAndPages DEF EnsureKnown
<1>2. \A q \in Below(k) : p \in Below(q) /\ q # p => st.direct[q] # 0
  BY DEF EnsureKnown, Begins, Below
<1>3. Lies(k, p)
  <2>1. CASE p = k BY <2>1 DEF Lies
  <2>2. CASE p # k
    <3>1. PICK q \in Below(k) : p \in Kids(q) /\ p \in Below(q)
      BY <1>1, <2>2, StepBelow
    <3>2. p # q /\ q \in Paths BY <3>1, NotOwnKid DEF Below
    <3>3. QED BY <1>2, <3>1, <3>2 DEF Lies
  <2>3. QED BY <2>1, <2>2
<1>4. PICK d : RequestFor(k, p, d) /\ UNCHANGED client BY DEF EnsureKnown
<1>5. QED BY <1>3, <1>4, RequestForTracks

(* Every step, for one page epoch with a local root. *)
LEMMA TallyStep ==
  ASSUME OneEpoch, HasLocalRoot, CacheInv, ClaimInv, OwnedInv, TallyInv, [Next]_vars
  PROVE  TallyInv'
<1>1. CASE Paths = {} BY <1>1 DEF TallyInv
<1>2. CASE Paths # {}
  <2>1. Begins BY <1>2 DEF TallyInv
  <2>2. PICK r \in Paths : Tracked(r) BY <1>2 DEF TallyInv
  <2>3. ASSUME NEW w \in Workers, WorkerStep(w) PROVE (Tracked(r))' /\ Begins'
    <3>1. ~SkipStale(w) BY DEF OwnedInv, Serves, SkipStale, At
    <3>2. CASE Dequeue(w) \/ Claim(w) \/ SkipDone(w) \/ List(w)
      BY <2>1, <2>2, <3>2, DequeueTracks, ClaimTracks, SkipDoneTracks, ListTracks
    <3>3. CASE ListFails(w) \/ ListSuperseded(w) \/ JobFails(w) \/ Commit(w)
      BY <2>1, <2>2, <3>3, ListStopsTracks, JobFailsTracks, CommitTracks
    <3>4. CASE Finish(w) \/ FlushEnds(w)
      BY <2>1, <2>2, <3>4, FinishTracks, FlushEndsTracks
    <3>5. QED BY <2>3, <3>1, <3>2, <3>3, <3>4 DEF WorkerStep
  <2>4. ASSUME UNCHANGED <<st, inProgress, generation, worker, disk, pageKey, mishaps,
                           clock, client>>
        PROVE  (Tracked(r))' /\ Begins'
    BY <2>1, <2>2, <2>4, UnchangedTracks, BeginsOn DEF Reached
  <2>5. ASSUME NEW p \in Paths, CoolDown(p) \/ Prime(p) \/ Invalidate(p) \/ FlushRecord(p)
        PROVE  (Tracked(r))' /\ Begins'
    <3>1. ~Prime(p) /\ ~Invalidate(p)
      BY DEF OneEpoch, Prime, Invalidate, Mishap
    <3>2. CASE CoolDown(p) BY <2>4, <3>2 DEF CoolDown
    <3>3. QED BY <2>1, <2>2, <2>5, <3>1, <3>2, FlushRecordTracks
  <2>6. Begins' /\ \E o \in Paths : (Tracked(o))'
    <3>1. CASE \E k \in Pages, force \in BOOLEAN : OpenPage(k, force)
      BY <2>1, <2>2, <3>1, OpenPageTracks, BoundsAndPages
    <3>2. CASE \E k \in Pages : Browser(k)
      BY <2>1, <2>2, <3>2, BrowserTracks
    <3>3. CASE \E k \in Pages, p \in Paths : EnsureKnown(k, p)
      BY <2>1, <2>2, <3>3, EnsureKnownTracks
    <3>4. CASE HttpFlushEnds \/ UNCHANGED vars
      BY <2>2, <2>4, <3>4 DEF HttpFlushEnds, vars
    <3>5. CASE \E p \in Paths : CoolDown(p) \/ Prime(p) \/ Invalidate(p) \/ FlushRecord(p)
      BY <2>2, <2>5, <3>5
    <3>6. CASE \E w \in Workers : WorkerStep(w) BY <2>2, <2>3, <3>6
    <3>7. QED BY <3>1, <3>2, <3>3, <3>4, <3>5, <3>6 DEF Next
  <2>7. QED BY <2>6 DEF TallyInv
<1>3. QED BY <1>1, <1>2

(* It holds initially. *)
LEMMA InitTally == Init => TallyInv
<1> SUFFICES ASSUME Init, NEW o \in Paths PROVE Begins /\ Tracked(o)
  BY DEF TallyInv
<1>1. \A q \in Paths : ~Reached(q) BY DEF Init, Reached
<1>2. Begins BY <1>1 DEF Init, Begins, Closed
<1>3. Linked(st) BY InitCache DEF CacheInv, Published
<1>4. Counted(st, Shares, o)
  BY <1>3, NoneIsNothing DEF Init, Counted, Sound, Homed, Tallied, Blank, MarksDone, Pending
<1>5. (\A p \in Paths : ~Complete(p)) /\ \A w \in Workers : ~At(w, "commit")
  BY DEF Init, Complete, At, Idle
<1>6. Tracked(o) BY <1>1, <1>4, <1>5 DEF Tracked, Init
<1>7. QED BY <1>2, <1>6

(* A total is the folder's own files, or nothing if its job failed, and what *)
(* each attached subfolder has handed up, no less and no more: while one page *)
(* is shown, with a local root, whatever fails and however the workers finish.*)
THEOREM TotalsAddUp ==
  ASSUME OneEpoch, HasLocalRoot
  PROVE  Spec => []AddsUp
<1>1. CacheInv /\ ClaimInv /\ OwnedInv /\ TallyInv /\ [Next]_vars => TallyInv'
  BY TallyStep
<1>2. CacheInv /\ ClaimInv /\ OwnedInv /\ [Next]_vars => OwnedInv'
  BY OwnedStep
<1>3. TallyInv => AddsUp
  <2> SUFFICES ASSUME TallyInv, NEW p \in Paths, st.acc[p] # None
               PROVE  st.acc[p].total - SumOver(st.contrib, {c \in Paths : st.parent[c] = p})
                        \in {0, DirectTotal[p]}
    BY DEF AddsUp
  <2>1. PICK o \in Paths : Tracked(o) BY DEF TallyInv
  <2>2. st.acc[p].total - SumOver(st.contrib, Attached(st, p)) \in Shares[p]
    BY <2>1 DEF Tracked, Counted, Sound, Tallied
  <2>3. Shares[p] \subseteq {0, DirectTotal[p]} BY DEF Shares
  <2>4. QED BY <2>2, <2>3 DEF Attached
<1>4. QED
  BY <1>1, <1>2, <1>3, InitTally, InitOwned, CacheInvHolds, ClaimsHold, PTL DEF Spec

-----------------------------------------------------------------------------
(* At rest the totals are exact *)

(* No change at all. *)
LEMMA MarksSame == \A s, E : Marks(s, s, E)
  BY DEF Marks

(* One change after the other. *)
LEMMA MarksFurther ==
  ASSUME NEW s, NEW x, NEW y, NEW E, Marks(s, x, E), Marks(x, y, E)
  PROVE  Marks(s, y, E)
<1>1. \A q \in Paths : Done(x, q) = Done(s, q) BY DEF Marks, Done
<1>2. \A q \in Paths \ E : Done(s, q) => y.dirty[q] = s.dirty[q] \/ y.dirty[q] = TRUE
  BY <1>1 DEF Marks
<1>3. QED BY <1>2 DEF Marks

(* What such a change keeps. *)
LEMMA MarksKeep ==
  ASSUME NEW s, NEW x, NEW E, Marks(s, x, E)
  PROVE  /\ \A q \in Paths : Done(x, q) = Done(s, q)
         /\ \A F : Waiting(s, F) => Waiting(x, F)
         /\ \A F : HandedUp(s, F) => HandedUp(x, F)
         /\ Grown(s) => Grown(x)
         /\ \A d : Written(s, d, E) => Written(x, d, E)
         /\ \A D, T : Fits(s, D, T) => Fits(x, D, T)
<1>1. \A q \in Paths : Done(x, q) = Done(s, q) BY DEF Marks, Done
<1>2. \A F : Waiting(s, F) => Waiting(x, F) BY <1>1 DEF Marks, Waiting
<1>3. \A F : HandedUp(s, F) => HandedUp(x, F) BY <1>1 DEF Marks, HandedUp
<1>4. Grown(s) => Grown(x) BY DEF Marks, Grown
<1>5. \A d : Written(s, d, E) => Written(x, d, E)
  BY <1>1 DEF Marks, Written, Recorded
<1>6. \A D, T : Fits(s, D, T) => Fits(x, D, T) BY DEF Marks, Fits
<1>7. QED BY <1>1, <1>2, <1>3, <1>4, <1>5, <1>6

(* A dirty mark that is allowed. *)
LEMMA MarkDirtyMarks ==
  ASSUME NEW s, s \in StateSet, NEW p \in Paths, NEW c \in BOOLEAN, NEW E,
         p \in E \/ c = TRUE \/ ~Done(s, p)
  PROVE  /\ Marks(s, MarkDirty(s, p, c), E)
         /\ c = TRUE => MarkDirty(s, p, c).dirty[p] = TRUE
<1> DEFINE x == MarkDirty(s, p, c)
           b == c \/ (s.dirty[p] # None /\ s.dirty[p])
<1>1. x = [s EXCEPT !.dirty = [s.dirty EXCEPT ![p] = b]]
  BY DEF MarkDirty, StateSet
<1>2. c = TRUE => b = TRUE
  OBVIOUS
<1> HIDE DEF x, b
<1>3. /\ x.acc = s.acc /\ x.pending = s.pending /\ x.parent = s.parent
      /\ x.direct = s.direct /\ x.contrib = s.contrib /\ x.dirty[p] = b
      /\ x.abandoned = s.abandoned
      /\ \A q \in Paths \ {p} : x.dirty[q] = s.dirty[q]
  BY <1>1 DEF StateSet
<1>4. Marks(s, x, E) BY <1>2, <1>3 DEF Marks, Pending
<1>5. QED BY <1>2, <1>3, <1>4 DEF x

(* A diff status changes. *)
LEMMA SetDiffMarks ==
  ASSUME NEW s, s \in StateSet, NEW p \in Paths, s.acc[p] # None, NEW d \in Diffs, NEW E,
         NEW x, x = SetDiff(s, p, d)
  PROVE  Marks(s, x, E)
<1> DEFINE a == [s.acc[p] EXCEPT !.diff = d]
<1>1. x = SetAcc(s, p, a) /\ a \in Acc /\ s.acc[p] \in Acc BY AccShape
<1>2. a.total = s.acc[p].total /\ a # None BY <1>1, NoneApart DEF Acc
<1> HIDE DEF a
<1>3. x = [s EXCEPT !.acc = [s.acc EXCEPT ![p] = a]]
  BY <1>1 DEF SetAcc, StateSet
<1>4. /\ x.pending = s.pending /\ x.direct = s.direct /\ x.contrib = s.contrib
      /\ x.abandoned = s.abandoned
      /\ x.parent = s.parent /\ x.dirty = s.dirty /\ x.acc[p] = a
      /\ \A q \in Paths \ {p} : x.acc[q] = s.acc[q]
  BY <1>3 DEF StateSet
<1>5. QED BY <1>2, <1>4 DEF Marks, Pending

(* _note_diff of a folder in memory. *)
LEMMA NoteDiffMarks ==
  ASSUME NEW s, s \in StateSet, NEW p \in Paths, s.acc[p] # None, NEW E
  PROVE  Marks(s, NoteDiff(s, p), E)
<1>1. NoteDiff(s, p) = SetDiff(s, p, "diff") /\ "diff" \in Diffs
  BY DEF NoteDiff, SetDiff, Diffs
<1>2. QED BY <1>1, SetDiffMarks

(* _maybe_complete on one folder: it goes on if the folder is done, and then *)
(* the folder is to be written as complete. *)
LEMMA FinishHereMarks ==
  ASSUME HasLocalRoot, NEW s, Linked(s), s.abandoned = {}, NEW p \in Paths, s.acc[p] # None,
         NEW E, NEW y, y = FinishHere(s, p)
  PROVE  /\ Marks(s, y.s, E) /\ y.go \in BOOLEAN /\ (y.go = TRUE <=> Done(s, p))
         /\ Done(s, p) => y.s.dirty[p] = TRUE
<1> DEFINE d == CASE s.acc[p].diff = "diff" -> "diff"
                  [] HasLocalRoot -> "synced"
                  [] OTHER -> "unavailable"
           z == SetDiff(s, p, d)
<1>1. y = IF ~Done(s, p) THEN [s |-> MarkDirty(s, p, FALSE), go |-> FALSE]
          ELSE [s |-> MarkDirty(z, p, TRUE), go |-> TRUE]
  BY DEF FinishHere, SetDiff, Done
<1>2. d \in Diffs BY DEF Diffs
<1> HIDE DEF d
<1>3. Marks(s, z, E) /\ z \in StateSet
  BY <1>2, SetDiffMarks, SetDiffGrows DEF Grows, Linked
<1> HIDE DEF z
<1>4. CASE ~Done(s, p)
  <2>1. y.s = MarkDirty(s, p, FALSE) /\ y.go = FALSE BY <1>1, <1>4
  <2>2. s \in StateSet /\ FALSE \in BOOLEAN BY DEF Linked
  <2>3. Marks(s, MarkDirty(s, p, FALSE), E)
    <3> DEFINE c == FALSE
    <3>1. c \in BOOLEAN
      OBVIOUS
    <3> HIDE DEF c
    <3>2. Marks(s, MarkDirty(s, p, c), E)
      BY <1>4, <2>2, <3>1, MarkDirtyMarks
    <3>3. QED BY <3>2 DEF c
  <2>4. QED BY <1>4, <2>1, <2>3
<1>5. CASE Done(s, p)
  <2>1. y.s = MarkDirty(z, p, TRUE) /\ y.go = TRUE BY <1>1, <1>5
  <2>2. Marks(z, y.s, E) /\ y.s.dirty[p] = TRUE
    BY <1>3, <2>1, MarkDirtyMarks
  <2>3. QED BY <1>3, <1>5, <2>1, <2>2, MarksFurther
<1>6. QED BY <1>4, <1>5

(* One step of propagate. *)
LEMMA PropagateStepGains ==
  ASSUME NEW x, x \in Climbing, Linked(x.s), Homed(x.s), x.s.abandoned = {}, NEW p \in Paths,
         x.go => x.s.acc[p] # None, NEW y, y = PropagateStep(x, p)
  PROVE  \/ /\ y.s = x.s /\ y.go = FALSE
            /\ x.go => x.s.parent[p] = None \/ x.s.acc[p].total = x.s.contrib[p]
         \/ x.go /\ y.go = TRUE /\ Gains(x.s, y.s, p, x.s.parent[p])
<1> DEFINE s == x.s
           q == x.s.parent[p]
           stop == \/ ~x.go \/ q = None
                   \/ q # None /\ (x.s.acc[q] = None \/ x.s.acc[p].total = x.s.contrib[p])
           delta == x.s.acc[p].total - x.s.contrib[p]
           z == [x.s EXCEPT !.contrib[p] = x.s.acc[p].total, !.acc[q].total = @ + delta]
           b == /\ z.direct[q] # 0
                /\ Pending(z, q) = {}
                /\ q \notin z.abandoned
<1>1. s \in StateSet /\ x.go \in BOOLEAN /\ x = [s |-> s, go |-> x.go] /\ Linked(s)
  BY DEF Climbing
<1>2. y = IF stop THEN [x EXCEPT !.go = FALSE] ELSE [go |-> TRUE, s |-> MarkDirty(z, q, b)]
  BY DEF PropagateStep
<1>3. b \in BOOLEAN
  OBVIOUS
<1>4. CASE stop
  <2>1. y.s = s /\ y.go = FALSE BY <1>1, <1>2, <1>4
  <2>2. q # None => s.acc[q] # None BY DEF Homed
  <2>3. QED BY <1>4, <2>1, <2>2
<1>5. CASE ~stop
  <2>1. x.go /\ q # None /\ s.acc[q] # None /\ s.acc[p] # None /\ q \in Paths
    BY <1>1, <1>5 DEF StateSet
  <2> HIDE DEF stop, z
  <2>2. p # q
    <3>1. p \in Kids(q) BY <1>1, <2>1 DEF Linked
    <3>2. QED BY <3>1, NotOwnKid
  <2>3. s.acc[p].total \in Int /\ s.contrib[p] \in Int /\ s.acc[q] \in Acc
    BY <1>1, <2>1, AccShape DEF StateSet
  <2> DEFINE a == [s.acc[q] EXCEPT !.total = @ + delta]
  <2>4. a \in Acc /\ a.total = s.acc[q].total + delta BY <2>3 DEF Acc
  <2>5. a # None BY <2>4, NoneApart
  <2>6. z = [s EXCEPT !.contrib = [s.contrib EXCEPT ![p] = s.acc[p].total],
                      !.acc = [s.acc EXCEPT ![q] = a]]
    BY <1>1 DEF StateSet, z
  <2> HIDE DEF a
  <2>7. /\ z \in StateSet /\ z.pending = s.pending /\ z.parent = s.parent
        /\ z.dirty = s.dirty /\ z.direct = s.direct /\ z.acc[q] = a /\ z.abandoned = s.abandoned
        /\ \A r \in Paths \ {q} : z.acc[r] = s.acc[r]
        /\ z.contrib[p] = s.acc[p].total /\ \A r \in Paths \ {p} : z.contrib[r] = s.contrib[r]
    BY <1>1, <2>1, <2>3, <2>4, <2>6 DEF StateSet
  <2>8. Done(s, q) => b = TRUE BY <2>7 DEF Done, Pending
  <2> HIDE DEF b
  <2> DEFINE c == b \/ (z.dirty[q] # None /\ z.dirty[q])
             m == MarkDirty(z, q, b)
  <2>9. m = [z EXCEPT !.dirty = [z.dirty EXCEPT ![q] = c]]
    BY <2>7 DEF MarkDirty, StateSet
  <2>10. b = TRUE => c = TRUE
    OBVIOUS
  <2>11. y.s = m /\ y.go = TRUE BY <1>2, <1>5
  <2> HIDE DEF c, m
  <2>12. /\ m.acc = z.acc /\ m.pending = z.pending /\ m.parent = z.parent
         /\ m.direct = z.direct /\ m.contrib = z.contrib /\ m.dirty[q] = c
         /\ m.abandoned = z.abandoned
         /\ \A r \in Paths \ {q} : m.dirty[r] = z.dirty[r]
    <3> HIDE DEF q
    <3>1. QED BY <2>1, <2>7, <2>9 DEF StateSet
  <2>13. Gains(s, m, p, q)
    BY <2>1, <2>2, <2>4, <2>5, <2>7, <2>8, <2>10, <2>12 DEF Gains
  <2>14. QED BY <2>1, <2>11, <2>13
<1>6. QED BY <1>4, <1>5

(* What such a step keeps.  What one folder has to hand up, its parent then *)
(* has to hand up. *)
LEMMA GainsKeep ==
  ASSUME NEW s, s \in StateSet, NEW x, NEW p, NEW q, Gains(s, x, p, q)
  PROVE  /\ \A r \in Paths : Done(x, r) = Done(s, r)
         /\ \A F : Waiting(s, F) => Waiting(x, F)
         /\ HandedUp(s, {p}) => HandedUp(x, {q})
         /\ Grown(s) => Grown(x)
         /\ \A d, E : Written(s, d, E) => Written(x, d, E)
         /\ Grown(s) /\ Rises(s, p) => Rises(x, q)
         /\ \A D : Fits(s, D, {p}) /\ q \notin D => Fits(x, D \cup {p}, {q})
<1>1. \A r \in Paths : Pending(x, r) = Pending(s, r) BY DEF Gains, Pending
<1>2. \A r \in Paths : Done(x, r) = Done(s, r) BY <1>1 DEF Gains, Done
<1>3. \A F : Waiting(s, F) => Waiting(x, F) BY <1>1, <1>2 DEF Gains, Waiting
<1>4. HandedUp(s, {p}) => HandedUp(x, {q})
  <2> SUFFICES ASSUME HandedUp(s, {p}), NEW c \in Paths \ {q}, Done(x, c), x.parent[c] # None
               PROVE  x.contrib[c] = x.acc[c].total
    BY DEF HandedUp
  <2>1. x.acc[c] = s.acc[c] /\ Done(s, c) /\ s.parent[c] # None
    BY <1>2 DEF Gains
  <2>2. c # p => s.contrib[c] = s.acc[c].total /\ x.contrib[c] = s.contrib[c]
    BY <2>1 DEF HandedUp, Gains
  <2>3. c = p => x.contrib[c] = s.acc[c].total BY DEF Gains
  <2>4. QED BY <2>1, <2>2, <2>3
<1>5. /\ p \in Paths /\ q \in Paths /\ s.acc[p].total \in Int /\ s.acc[q].total \in Int
      /\ s.contrib[p] \in Int /\ s.contrib[q] \in Int /\ p # q
  BY AccShape DEF Gains, StateSet
<1>6. Grown(s) => Grown(x)
  <2> SUFFICES ASSUME Grown(s), NEW c \in Paths
               PROVE  IF x.acc[c] = None THEN x.contrib[c] = 0
                      ELSE x.acc[c].total > 0 /\ x.contrib[c] <= x.acc[c].total
    BY DEF Grown
  <2>1. CASE c # p /\ c # q
    <3>1. x.acc[c] = s.acc[c] /\ x.contrib[c] = s.contrib[c]
      BY <2>1 DEF Gains
    <3>2. QED BY <3>1 DEF Grown
  <2>2. CASE c = p
    <3>1. x.acc[c] = s.acc[c] /\ x.contrib[c] = s.acc[c].total /\ s.acc[c] # None
      BY <1>5, <2>2 DEF Gains
    <3>2. QED BY <1>5, <2>2, <3>1 DEF Grown
  <2>3. CASE c = q
    <3>1. /\ x.acc[c] # None /\ x.contrib[c] = s.contrib[c]
          /\ x.acc[c].total = s.acc[c].total + (s.acc[p].total - s.contrib[p])
          /\ s.acc[c] # None /\ s.acc[p] # None
      BY <1>5, <2>3 DEF Gains
    <3>2. /\ s.acc[c].total > 0 /\ s.contrib[c] <= s.acc[c].total
          /\ s.contrib[p] <= s.acc[p].total
      BY <1>5, <3>1 DEF Grown
    <3>3. QED BY <1>5, <2>3, <3>1, <3>2
  <2>4. QED BY <2>1, <2>2, <2>3
<1>7. \A d, E : Written(s, d, E) => Written(x, d, E)
  <2> SUFFICES ASSUME NEW d, NEW E, Written(s, d, E), NEW c \in Paths \ E, Done(x, c)
               PROVE  Recorded(x, d, c)
    BY DEF Written
  <2>1. CASE c = q BY <1>2, <2>1 DEF Gains, Recorded
  <2>2. CASE c # q BY <1>2, <2>2 DEF Gains, Recorded, Written
  <2>3. QED BY <2>1, <2>2
<1>8. Grown(s) /\ Rises(s, p) => Rises(x, q)
  <2> SUFFICES ASSUME Grown(s), Rises(s, p) PROVE Rises(x, q)
    OBVIOUS
  <2>1. /\ x.acc[q] # None /\ x.contrib[q] = s.contrib[q] /\ s.acc[q] # None
        /\ x.acc[q].total = s.acc[q].total + (s.acc[p].total - s.contrib[p])
    BY <1>5 DEF Gains
  <2>2. s.contrib[q] <= s.acc[q].total /\ s.contrib[p] < s.acc[p].total
    BY <1>5, <2>1 DEF Grown, Rises
  <2>3. QED BY <1>5, <2>1, <2>2 DEF Rises
<1>9. \A D : Fits(s, D, {p}) /\ q \notin D => Fits(x, D \cup {p}, {q})
  <2> SUFFICES ASSUME NEW D, Fits(s, D, {p}), q \notin D, NEW c \in D \cup {p}
               PROVE  /\ c \in Paths /\ x.acc[c] # None
                      /\ x.parent[c] # None => /\ x.parent[c] \in (D \cup {p}) \cup {q}
                                               /\ x.contrib[c] = x.acc[c].total
    BY DEF Fits
  <2>1. c \in Paths /\ c # q /\ x.acc[c] = s.acc[c] /\ s.acc[c] # None
    BY <1>5 DEF Fits, Gains
  <2>2. CASE c = p BY <2>1, <2>2 DEF Gains
  <2>3. CASE c # p BY <2>1, <2>3 DEF Gains, Fits
  <2>4. QED BY <2>1, <2>2, <2>3
<1>10. QED BY <1>2, <1>3, <1>4, <1>6, <1>7, <1>8, <1>9

(* The way up from a folder meets no folder twice. *)
LEMMA LineageOnce ==
  ASSUME NEW p \in Paths, NEW i \in 1..Len(Lineage[p]), NEW j \in 1..Len(Lineage[p]), j < i
  PROVE  Lineage[p][j] # Lineage[p][i]
<1> DEFINE L == Lineage[p]
           S == {L[k] : k \in j..(i - 1)}
<1>1. /\ L \in Seq(Paths) /\ Len(L) \in Nat
      /\ \A k \in 1..(Len(L) - 1) : L[k] \in Kids(L[k + 1])
  BY LineageIsChain, LenProperties DEF Chain
<1> HIDE DEF L
<1>2. i \in 1..Len(L) /\ j \in 1..Len(L) /\ j < i BY DEF L
<1>3. \A k \in j..(i - 1) : /\ k \in 1..(Len(L) - 1) /\ L[k] \in Paths
                            /\ k # i - 1 => k + 1 \in j..(i - 1)
                            /\ k = i - 1 => k + 1 = i
  BY <1>1, <1>2, ElementOfSeq
<1>4. SUFFICES ASSUME L[j] = L[i] PROVE FALSE
  BY DEF L
<1>5. j \in j..(i - 1) BY <1>2
<1>6. S \in (SUBSET Paths) \ {{}} BY <1>3, <1>5
<1>7. PICK q \in S : \A r \in S : q \notin Kids(r)
  <2> HIDE DEF S
  <2>1. QED BY <1>6, TreeShape
<1>8. PICK k \in j..(i - 1) : q = L[k] BY <1>7
<1>9. L[k] \in Kids(L[k + 1]) BY <1>1, <1>3
<1>10. L[k + 1] \in S BY <1>3, <1>4, <1>5
<1> HIDE DEF S
<1>11. QED BY <1>7, <1>8, <1>9, <1>10

(* Nothing is raised. *)
LEMMA RaisedSame == \A s : Raised(s, s)
  BY DEF Raised

(* One after the other. *)
LEMMA RaisedFurther ==
  ASSUME NEW s, NEW x, NEW y, Raised(s, x), Raised(x, y)
  PROVE  Raised(s, y)
  BY DEF Raised

(* What one step hands up raises. *)
LEMMA GainsRaised ==
  ASSUME NEW s, s \in StateSet, NEW x, NEW p, NEW q, Gains(s, x, p, q)
  PROVE  Raised(s, x)
<1>1. /\ x.parent = s.parent /\ x.direct = s.direct /\ x.pending = s.pending
      /\ x.abandoned = s.abandoned
  BY DEF Gains
<1>2. \A r \in Paths : x.acc[r] = None <=> s.acc[r] = None BY DEF Gains
<1>3. QED BY <1>1, <1>2, GainsKeep DEF Raised

(* After one step there is something to hand up further. *)
LEMMA GainsGoes ==
  ASSUME NEW s, s \in StateSet, Linked(s), NEW x, NEW p, NEW q, Gains(s, x, p, q)
  PROVE  Goes(s, x, p, q)
<1>1. Raised(s, x) BY GainsRaised
<1>2. /\ HandedUp(s, {p}) => HandedUp(x, {q})
      /\ Grown(s) /\ Rises(s, p) => Rises(x, q)
      /\ \A D : Fits(s, D, {p}) /\ q \notin D => Fits(x, D \cup {p}, {q})
  BY GainsKeep
<1>3. q \in Paths /\ p \in Paths /\ s.parent[p] = q /\ q # None /\ x.acc[q] # None
  BY NoneApart DEF Gains
<1>4. p \in Kids(q) BY <1>3 DEF Linked
<1>5. QED BY <1>1, <1>2, <1>3, <1>4 DEF Goes

(* One step of propagate: what is handed up goes on to the parent. *)
LEMMA PropagateStepCarries ==
  ASSUME NEW x, x \in Climbing, Linked(x.s), Homed(x.s), x.s.abandoned = {}, NEW p \in Paths,
         x.go => x.s.acc[p] # None, NEW y, y = PropagateStep(x, p), NEW q, q = x.s.parent[p]
  PROVE  /\ Raised(x.s, y.s) /\ y.go \in BOOLEAN
         /\ y.go => x.go /\ q \in Paths /\ p \in Kids(q) /\ y.s.acc[q] # None
         /\ HandedUp(x.s, Onward(x.go, p)) => HandedUp(y.s, Onward(y.go, q))
         /\ \A D : Grown(x.s) /\ HandsOn(x.s, x.go, p, D) /\ (y.go => q \notin D) =>
              HandsOn(y.s, y.go, q, D \cup Onward(x.go, p))
<1> DEFINE s == x.s
<1>1. s \in StateSet /\ x.go \in BOOLEAN BY DEF Climbing
<1>2. CASE /\ y.s = s /\ y.go = FALSE
           /\ x.go => s.parent[p] = None \/ s.acc[p].total = s.contrib[p]
  <2>1. Raised(s, y.s) BY <1>2, RaisedSame
  <2>2. ASSUME HandedUp(s, Onward(x.go, p)) PROVE HandedUp(y.s, Onward(y.go, q))
    <3> SUFFICES ASSUME NEW c \in Paths, Done(s, c), s.parent[c] # None
                 PROVE  s.contrib[c] = s.acc[c].total
      BY <1>2 DEF HandedUp, Onward
    <3>1. CASE x.go /\ c = p BY <1>2, <3>1
    <3>2. CASE ~(x.go /\ c = p) BY <2>2, <3>2 DEF HandedUp, Onward
    <3>3. QED BY <3>1, <3>2
  <2>3. ASSUME NEW D, Grown(s), HandsOn(s, x.go, p, D)
        PROVE  HandsOn(y.s, y.go, q, D \cup Onward(x.go, p))
    <3>1. CASE ~x.go
      <4>1. Fits(s, D, {}) BY <2>3, <3>1 DEF HandsOn, Onward
      <4>2. D \cup Onward(x.go, p) = D BY <3>1 DEF Onward
      <4>3. QED BY <1>2, <4>1, <4>2 DEF HandsOn, Onward
    <3>2. CASE x.go
      <4>1. Fits(s, D, {p}) /\ Rises(s, p) BY <2>3, <3>2 DEF HandsOn, Onward
      <4>2. s.acc[p].total \in Int /\ s.contrib[p] \in Int /\ s.acc[p] # None
        BY <1>1, <4>1, AccShape DEF StateSet, Rises
      <4>3. s.parent[p] = None BY <1>2, <3>2, <4>1, <4>2 DEF Rises
      <4>4. Fits(s, D \cup {p}, {}) BY <4>1, <4>2, <4>3 DEF Fits
      <4>5. D \cup Onward(x.go, p) = D \cup {p} BY <3>2 DEF Onward
      <4>6. QED BY <1>2, <4>4, <4>5 DEF HandsOn, Onward
    <3>3. QED BY <1>1, <3>1, <3>2
  <2>4. QED BY <1>2, <2>1, <2>2, <2>3
<1>3. CASE x.go /\ y.go = TRUE /\ Gains(s, y.s, p, q)
  <2>1. s \in StateSet /\ Linked(s) /\ Gains(s, y.s, p, q) BY <1>1, <1>3
  <2>2. Goes(s, y.s, p, q) BY <2>1, GainsGoes
  <2>3. Onward(x.go, p) = {p} /\ Onward(y.go, q) = {q} BY <1>3 DEF Onward
  <2>4. HandedUp(s, Onward(x.go, p)) => HandedUp(y.s, Onward(y.go, q))
    BY <2>2, <2>3 DEF Goes
  <2>5. Raised(s, y.s) /\ q \in Paths /\ p \in Kids(q) /\ y.s.acc[q] # None
    BY <2>2 DEF Goes
  <2>6. ASSUME NEW D, Grown(s), HandsOn(s, x.go, p, D), y.go => q \notin D
        PROVE  HandsOn(y.s, y.go, q, D \cup Onward(x.go, p))
    <3>1. Fits(s, D, {p}) /\ Rises(s, p) /\ q \notin D
      BY <1>3, <2>3, <2>6 DEF HandsOn
    <3>2. Fits(y.s, D \cup {p}, {q}) /\ Rises(y.s, q)
      BY <2>2, <2>6, <3>1 DEF Goes
    <3>3. QED BY <2>3, <3>2 DEF HandsOn
  <2>7. QED BY <1>3, <2>4, <2>5, <2>6
<1>4. QED BY <1>2, <1>3, PropagateStepGains

(* Parents stay in memory. *)
LEMMA RaisedHomed ==
  ASSUME NEW s, s \in StateSet, NEW x, Raised(s, x), Homed(s)
  PROVE  Homed(x)
  BY DEF Raised, Homed, StateSet

(* propagate does that. *)
LEMMA PropagateCarries ==
  ASSUME NEW s, Linked(s), Homed(s), s.abandoned = {}, NEW p \in Paths, s.acc[p] # None,
         NEW x, x = Propagate(s, p)
  PROVE  Carried(s, x, p)
<1> DEFINE L == Lineage[p]
           n == Len(L)
           At0 == [s |-> s, go |-> TRUE]
           Up(i) == {L[j] : j \in 1..i}
           Next1(i) == IF i < n THEN L[i + 1] ELSE None
           Like(i, v) ==
             /\ Linked(v.s) /\ Raised(s, v.s)
             /\ i = 0 => v.go
             /\ i = n => ~v.go
             /\ v.go => v.s.acc[L[i + 1]] # None
             /\ HandedUp(s, {p}) => HandedUp(v.s, Onward(v.go, L[i + 1]))
             /\ Grown(s) /\ Rises(s, p) =>
                  \E D : /\ D \subseteq Up(i)
                         /\ i > 0 => p \in D
                         /\ HandsOn(v.s, v.go, L[i + 1], D)
           A == [i \in 0..n |-> {v \in Climbing : Like(i, v)}]
<1>1. /\ L \in Seq(Paths) /\ n \in Nat /\ n >= 1 /\ L[1] = p
      /\ \A i \in 1..(n - 1) : L[i] \in Kids(L[i + 1])
      /\ \A q \in Paths : L[n] \notin Kids(q)
  BY LineageIsChain, LenProperties DEF Chain
<1>2. \A i \in 1..n : \A j \in 1..n : j < i => L[j] # L[i] BY LineageOnce
<1> HIDE DEF L, n
<1>3. At0 \in Climbing /\ s \in StateSet BY DEF Climbing, Linked
<1>4. At0 \in A[0]
  <2>1. Onward(At0.go, L[0 + 1]) = {p} BY <1>1 DEF Onward
  <2>2. Rises(s, p) => HandsOn(s, At0.go, L[0 + 1], {})
    BY <1>1 DEF HandsOn, Fits
  <2>3. {} \subseteq Up(0)
    OBVIOUS
  <2>4. 0 \in 0..n /\ 0 # n BY <1>1
  <2>5. At0.s = s /\ At0.go = TRUE /\ L[0 + 1] = p BY <1>1
  <2> HIDE DEF At0, Up
  <2>6. Like(0, At0) BY <2>1, <2>2, <2>3, <2>4, <2>5, RaisedSame
  <2> HIDE DEF Like
  <2>7. QED BY <1>3, <2>4, <2>6 DEF At0
<1>5. ASSUME NEW i \in 1..n, NEW v \in A[i - 1]
      PROVE  PropagateStep(v, L[i]) \in A[i]
  <2> DEFINE y == PropagateStep(v, L[i])
             q == v.s.parent[L[i]]
  <2>1. i \in 0..n /\ i - 1 \in 0..n /\ i - 1 # n /\ (i - 1) + 1 = i /\ L[i] \in Paths
    BY <1>1, ElementOfSeq DEF n
  <2>2. v \in Climbing /\ Like(i - 1, v) BY <2>1
  <2> HIDE DEF A
  <2>3. /\ Linked(v.s) /\ Raised(s, v.s) /\ (i - 1 = 0 => v.go)
        /\ v.go => v.s.acc[L[i]] # None
        /\ HandedUp(s, {p}) => HandedUp(v.s, Onward(v.go, L[i]))
    BY <2>1, <2>2
  <2>4. Grown(s) /\ Rises(s, p) =>
          \E D : D \subseteq Up(i - 1) /\ (i - 1 > 0 => p \in D) /\ HandsOn(v.s, v.go, L[i], D)
    BY <2>1, <2>2
  <2> HIDE DEF Like
  <2>5. v.s \in StateSet /\ v.go \in BOOLEAN /\ v.s.abandoned = {} /\ Homed(v.s)
    BY <1>3, <2>2, <2>3, RaisedHomed DEF Climbing, Raised
  <2>6. y \in Climbing /\ Grows(v.s, y.s)
    BY <2>1, <2>2, <2>3, PropagateStepGrows
  <2>7. y = PropagateStep(v, L[i]) /\ q = v.s.parent[L[i]]
    OBVIOUS
  <2> HIDE DEF y, q
  <2>8. /\ Raised(v.s, y.s) /\ y.go \in BOOLEAN
        /\ y.go => v.go /\ q \in Paths /\ L[i] \in Kids(q) /\ y.s.acc[q] # None
        /\ HandedUp(v.s, Onward(v.go, L[i])) => HandedUp(y.s, Onward(y.go, q))
        /\ \A D : Grown(v.s) /\ HandsOn(v.s, v.go, L[i], D) /\ (y.go => q \notin D) =>
             HandsOn(y.s, y.go, q, D \cup Onward(v.go, L[i]))
    BY <2>1, <2>2, <2>3, <2>5, <2>7, PropagateStepCarries
  <2>9. Raised(s, y.s) /\ Linked(y.s)
    BY <2>3, <2>6, <2>8, RaisedFurther DEF Grows
  <2>10. i = n => ~y.go BY <1>1, <2>8
  <2>11. i < n => i \in 1..(n - 1) /\ i + 1 \in 1..n /\ L[i + 1] \in Paths /\ L[i] \in Kids(L[i + 1])
    <3> SUFFICES ASSUME i < n PROVE i \in 1..(n - 1) /\ i + 1 \in 1..n /\ L[i + 1] \in Paths
      BY <1>1
    <3>1. i \in 1..(n - 1) /\ i + 1 \in 1..n BY <1>1
    <3>2. QED BY <1>1, <3>1, ElementOfSeq DEF n
  <2>12. y.go => i < n /\ q = L[i + 1]
    <3>1. y.go => i < n BY <1>1, <2>10
    <3>2. QED BY <2>8, <2>11, <3>1, OneParent
  <2>13. Onward(y.go, q) = Onward(y.go, L[i + 1]) BY <2>12 DEF Onward
  <2>14. HandedUp(s, {p}) => HandedUp(y.s, Onward(y.go, L[i + 1]))
    BY <2>3, <2>8, <2>13
  <2>15. ASSUME Grown(s), Rises(s, p)
         PROVE  \E D : /\ D \subseteq Up(i)
                       /\ i > 0 => p \in D
                       /\ HandsOn(y.s, y.go, L[i + 1], D)
    <3>1. PICK D : D \subseteq Up(i - 1) /\ (i - 1 > 0 => p \in D) /\ HandsOn(v.s, v.go, L[i], D)
      BY <2>4, <2>15
    <3> DEFINE B == D \cup Onward(v.go, L[i])
    <3>2. B \subseteq Up(i)
      <4>1. Up(i - 1) \subseteq Up(i)
        OBVIOUS
      <4>2. L[i] \in Up(i)
        OBVIOUS
      <4> HIDE DEF Up
      <4>3. QED BY <3>1, <4>1, <4>2 DEF Onward
    <3>3. p \in B BY <1>1, <2>3, <3>1 DEF Onward
    <3>4. Grown(v.s) BY <2>3, <2>15 DEF Raised
    <3>5. y.go => q \notin D
      <4>1. y.go => \A j \in 1..(i - 1) : L[j] # L[i + 1]
        BY <1>1, <1>2, <2>11, <2>12
      <4>2. QED BY <2>12, <3>1, <4>1
    <3>6. HandsOn(y.s, y.go, q, B) BY <2>8, <3>1, <3>4, <3>5
    <3>7. HandsOn(y.s, y.go, L[i + 1], B) BY <2>12, <2>13, <3>6 DEF HandsOn
    <3> HIDE DEF B, Up
    <3>8. QED BY <3>2, <3>3, <3>7
  <2> HIDE DEF Up
  <2>16. y.go => y.s.acc[L[i + 1]] # None BY <2>8, <2>12
  <2>17. i # 0 BY <1>1
  <2>18. Like(i, y) BY <2>9, <2>10, <2>14, <2>15, <2>16, <2>17 DEF Like
  <2>19. y \in A[i] BY <2>1, <2>6, <2>18 DEF A
  <2>20. QED BY <2>19 DEF y
<1> HIDE DEF A
<1>6. Along(PropagateStep, At0, L) \in A[n]
  BY <1>1, <1>4, <1>5, AlongPropagate DEF n
<1>7. x = Along(PropagateStep, At0, L).s BY DEF Propagate, L
<1>8. PICK v \in Climbing : Like(n, v) /\ v.s = x
  <2> HIDE DEF Like
  <2>1. n \in 0..n BY <1>1
  <2>2. QED BY <1>6, <1>7, <2>1 DEF A
<1>9. Linked(x) /\ Raised(s, x) /\ (HandedUp(s, {p}) => HandedUp(x, {}))
  <2>1. ~v.go BY <1>8
  <2>2. Onward(v.go, L[n + 1]) = {} BY <2>1 DEF Onward
  <2>3. QED BY <1>8, <2>2
<1>10. ASSUME Grown(s), Rises(s, p) PROVE \E D : p \in D /\ Fits(x, D, {})
  <2>1. PICK D : p \in D /\ HandsOn(v.s, v.go, L[n + 1], D)
    BY <1>1, <1>8, <1>10
  <2>2. Fits(x, D, {}) BY <1>8, <2>1 DEF HandsOn, Onward
  <2>3. QED BY <2>1, <2>2
<1>11. QED BY <1>3, <1>9, <1>10, RaisedHomed DEF Carried

(* One after the other. *)
LEMMA WrapsFurther ==
  ASSUME NEW s, NEW x, NEW y, Wraps(s, x), Wraps(x, y)
  PROVE  Wraps(s, y)
  BY DEF Wraps

(* A change of marks is such a change. *)
LEMMA MarksWraps == ASSUME NEW s, NEW x, NEW E, Marks(s, x, E) PROVE Wraps(s, x)
  BY DEF Marks, Wraps

(* It keeps the totals and what is handed up. *)
LEMMA WrapsKeeps ==
  ASSUME NEW s, s \in StateSet, NEW x, Wraps(s, x)
  PROVE  /\ Grown(s) => Grown(x)
         /\ Homed(s) => Homed(x)
         /\ \A D, T : Fits(s, D, T) => Fits(x, D, T)
<1>1. Grown(s) => Grown(x) BY DEF Wraps, Grown
<1>2. Homed(s) => Homed(x) BY DEF Wraps, Homed, StateSet
<1>3. \A D, T : Fits(s, D, T) => Fits(x, D, T) BY DEF Wraps, Fits
<1>4. QED BY <1>1, <1>2, <1>3

(* It changes nothing else. *)
LEMMA CrossedFields ==
  ASSUME NEW s, Linked(s), NEW p \in Paths, NEW q \in Paths, s.pending[q] # None,
         NEW x, x = Crossed(s, q, p)
  PROVE  /\ Linked(x) /\ Wraps(s, x) /\ x.dirty = s.dirty /\ x.acc = s.acc
         /\ Pending(x, q) = Pending(s, q) \ {p} /\ x.pending[q] = Pending(x, q)
         /\ \A r \in Paths \ {q} : Pending(x, r) = Pending(s, r)
<1> DEFINE rest == s.pending[q] \ {p}
<1>1. s \in StateSet /\ s.pending[q] \in SUBSET Paths
  BY DEF Linked, StateSet
<1>2. x = [s EXCEPT !.pending = [s.pending EXCEPT ![q] = rest]]
  BY <1>1 DEF StateSet, Crossed
<1>3. rest \in SUBSET Paths /\ rest \subseteq s.pending[q] /\ rest # None
  BY <1>1, NoneIsNothing
<1>4. rest = Pending(s, q) \ {p} BY DEF Pending
<1> HIDE DEF rest
<1>5. /\ x \in StateSet /\ x.acc = s.acc /\ x.parent = s.parent /\ x.dirty = s.dirty
      /\ x.direct = s.direct /\ x.abandoned = s.abandoned /\ x.contrib = s.contrib
      /\ x.pending[q] = rest /\ \A r \in Paths \ {q} : x.pending[r] = s.pending[r]
  BY <1>1, <1>2, <1>3 DEF StateSet
<1>6. Pending(x, q) = rest /\ \A r \in Paths \ {q} : Pending(x, r) = Pending(s, r)
  BY <1>3, <1>5 DEF Pending
<1>7. \A r \in Paths : Pending(x, r) \subseteq Pending(s, r) BY <1>4, <1>6
<1>8. Linked(x) BY <1>5, <1>7 DEF Linked
<1>9. Wraps(s, x) BY <1>5 DEF Wraps
<1>10. QED BY <1>4, <1>5, <1>6, <1>8, <1>9

(* It is that. *)
LEMMA CrossedEnds ==
  ASSUME NEW s, Linked(s), Homed(s), NEW p \in Paths, NEW q, q \in Paths, q = s.parent[p],
         s.pending[q] # None, NEW D, NEW d, NEW E, Ending(s, TRUE, p, D, d, E),
         NEW x, x = Crossed(s, q, p)
  PROVE  CrossedOff(s, x, p, q, D, d, E)
<1>1. /\ Linked(x) /\ Wraps(s, x) /\ x.dirty = s.dirty /\ x.acc = s.acc
      /\ Pending(x, q) = Pending(s, q) \ {p} /\ x.pending[q] = Pending(x, q)
      /\ \A r \in Paths \ {q} : Pending(x, r) = Pending(s, r)
  BY CrossedFields
<1>2. x.parent = s.parent /\ x.direct = s.direct /\ x.contrib = s.contrib
  BY <1>1 DEF Wraps
<1>3. \A c \in Paths \ {q} : Done(x, c) = Done(s, c) BY <1>1, <1>2 DEF Done
<1>4. s \in StateSet /\ q # None /\ Done(s, p)
  BY NoneApart DEF Linked, Ending
<1>5. p # q BY <1>4, NotOwnKid DEF Linked
<1>6. Grown(x) BY <1>1, <1>4, WrapsKeeps DEF Ending
<1>7. Written(x, d, E \cup {q}) BY <1>1, <1>3 DEF Ending, Written, Recorded
<1>8. CASE Waiting(s, {})
  <2>1. p \notin Pending(s, q) BY <1>4, <1>8 DEF Waiting
  <2>2. \A r \in Paths : Pending(x, r) = Pending(s, r) BY <1>1, <2>1
  <2>3. \A c \in Paths : Done(x, c) = Done(s, c) BY <1>2, <2>2 DEF Done
  <2>4. Waiting(x, {}) BY <1>2, <1>8, <2>2, <2>3 DEF Waiting
  <2>5. HandedUp(x, {}) BY <1>1, <1>2, <2>3 DEF Ending, HandedUp
  <2>6. QED BY <1>6, <1>7, <2>4, <2>5 DEF CrossedOff
<1>9. CASE ~Waiting(s, {})
  <2>1. Waiting(s, {p}) /\ Fits(s, D, {}) /\ p \in D BY <1>9 DEF Ending
  <2>2. p \in Pending(s, q) BY <2>1 DEF Waiting
  <2>3. ~Done(s, q) BY <2>2 DEF Done
  <2>4. q \in D /\ Fits(x, D, {})
    <3>1. s.parent[p] \in D \cup {} BY <1>4, <2>1 DEF Fits
    <3>2. QED BY <1>1, <1>4, <2>1, <3>1, WrapsKeeps
  <2>5. HandedUp(x, {})
    <3> SUFFICES ASSUME NEW c \in Paths, Done(x, c), x.parent[c] # None
                 PROVE  x.contrib[c] = x.acc[c].total
      BY DEF HandedUp
    <3>1. CASE c = q BY <1>1, <1>2, <2>4, <3>1 DEF Fits
    <3>2. CASE c # q BY <1>1, <1>2, <1>3, <3>2 DEF Ending, HandedUp
    <3>3. QED BY <3>1, <3>2
  <2>6. \A r, c \in Paths : c \in Pending(x, r) <=> s.parent[c] = r /\ ~Done(s, c)
    <3> SUFFICES ASSUME NEW r \in Paths, NEW c \in Paths
                 PROVE  c \in Pending(x, r) <=> s.parent[c] = r /\ ~Done(s, c)
      OBVIOUS
    <3>1. c \in Pending(s, r) <=> s.parent[c] = r /\ (~Done(s, c) \/ c = p)
      BY <2>1 DEF Waiting
    <3>2. c \in Pending(x, r) <=> c \in Pending(s, r) /\ ~(r = q /\ c = p)
      BY <1>1
    <3>3. QED BY <1>4, <3>1, <3>2
  <2>7. CASE Done(x, q)
    <3>1. Waiting(x, {q}) BY <1>2, <1>3, <2>3, <2>6 DEF Waiting
    <3>2. QED BY <1>6, <1>7, <2>4, <2>5, <2>7, <3>1 DEF CrossedOff
  <2>8. CASE ~Done(x, q)
    <3>1. Waiting(x, {}) BY <1>2, <1>3, <2>3, <2>6, <2>8 DEF Waiting
    <3>2. QED BY <1>6, <1>7, <2>5, <3>1 DEF CrossedOff
  <2>9. QED BY <2>7, <2>8
<1>10. QED BY <1>8, <1>9

(* One step of on_subtree_complete. *)
LEMMA CompleteStepEnds ==
  ASSUME HasLocalRoot, GenTyped, NEW x, x \in Climbing, Linked(x.s), Homed(x.s), x.s.abandoned = {},
         NEW p \in Paths, NEW D, NEW d, NEW E, Ending(x.s, x.go, p, D, d, E),
         NEW y, y = CompleteStep(x, p), NEW q, q = x.s.parent[p]
  PROVE  /\ Wraps(x.s, y.s) /\ y.go \in BOOLEAN
         /\ y.go => q \in Paths /\ p \in Kids(q)
         /\ Ending(y.s, y.go, q, D, d, E)
<1> DEFINE stop == ~x.go \/ q = None \/ (q # None /\ x.s.pending[q] = None)
           s1 == Crossed(x.s, q, p)
           s2 == IF s1.acc[p] # None /\ s1.acc[p].diff = "diff" THEN NoteDiff(s1, q) ELSE s1
           fin == FinishHere(s2, q)
           all == s2.direct[q] # 0 /\ s2.pending[q] = {}
<1>1. x.s \in StateSet /\ x.go \in BOOLEAN /\ x = [s |-> x.s, go |-> x.go]
  BY DEF Climbing
<1>2. y = IF stop THEN [x EXCEPT !.go = FALSE]
          ELSE IF all THEN fin ELSE [s |-> s2, go |-> FALSE]
  BY DEF CompleteStep, Crossed
<1>3. CASE stop
  <2>1. y.s = x.s /\ y.go = FALSE BY <1>1, <1>2, <1>3
  <2>2. Waiting(x.s, {})
    <3> SUFFICES ASSUME x.go, Waiting(x.s, {p}) PROVE Waiting(x.s, {})
      BY DEF Ending
    <3>1. \A r \in Paths : x.s.parent[p] # r
      <4> SUFFICES ASSUME q \in Paths PROVE FALSE
        OBVIOUS
      <4>1. p \in Pending(x.s, q) BY DEF Waiting
      <4>2. x.s.pending[q] # None BY <4>1 DEF Pending
      <4>3. QED BY <1>3, <4>2, NoneApart
    <3>2. QED BY <3>1 DEF Waiting
  <2>3. QED BY <2>1, <2>2 DEF Wraps, Ending
<1>4. CASE ~stop
  <2>1. q # None /\ x.s.pending[q] # None /\ q \in Paths /\ x.go
    BY <1>1, <1>4 DEF StateSet
  <2>2. p \in Kids(q) BY <2>1 DEF Linked
  <2>3. Ending(x.s, TRUE, p, D, d, E) BY <2>1 DEF Ending
  <2> HIDE DEF stop
  <2>4. s1 = Crossed(x.s, q, p)
    OBVIOUS
  <2> HIDE DEF s1
  <2>5. /\ Linked(s1) /\ Wraps(x.s, s1) /\ s1.acc = x.s.acc /\ s1.pending[q] = Pending(s1, q)
    BY <2>1, <2>4, CrossedFields
  <2>6. /\ Waiting(s1, {}) \/ (Done(s1, q) /\ Waiting(s1, {q}) /\ Fits(s1, D, {}) /\ q \in D)
        /\ HandedUp(s1, {}) /\ Grown(s1) /\ Written(s1, d, E \cup {q})
    <3>1. CrossedOff(x.s, s1, p, q, D, d, E)
      BY <2>1, <2>3, <2>4, CrossedEnds
    <3>2. QED BY <3>1 DEF CrossedOff
  <2>7. s1.acc[q] # None /\ s1 \in StateSet BY <2>1, <2>5 DEF Homed, Linked
  <2> DEFINE F == E \cup {q}
  <2>8. Marks(s1, s2, F) /\ s2.pending = s1.pending
    <3>1. Marks(s1, NoteDiff(s1, q), F) BY <2>1, <2>7, NoteDiffMarks
    <3>2. NoteDiff(s1, q).pending = s1.pending
      <4>1. NoteDiff(s1, q) = SetDiff(s1, q, "diff") /\ "diff" \in Diffs
        BY <2>7 DEF NoteDiff, SetDiff, Diffs
      <4>2. QED BY <2>1, <2>5, <2>7, <4>1, SetDiffGrows
    <3>3. Marks(s1, s1, F) BY MarksSame
    <3>4. QED BY <3>1, <3>2, <3>3
  <2>9. Linked(s2) /\ s2.abandoned = {} /\ Wraps(x.s, s2)
    <3>1. Linked(s2) BY <2>1, <2>5, NoteDiffGrows DEF Grows
    <3>2. Wraps(s1, s2) BY <2>8, MarksWraps
    <3>3. Wraps(x.s, s2) BY <2>5, <3>2, WrapsFurther
    <3>4. QED BY <3>1, <3>3 DEF Wraps
  <2> HIDE DEF s2
  <2>10. /\ Done(s2, q) = Done(s1, q) /\ s2.pending[q] = Pending(s2, q)
         /\ Waiting(s2, {}) \/ (Done(s2, q) /\ Waiting(s2, {q}) /\ Fits(s2, D, {}) /\ q \in D)
         /\ HandedUp(s2, {}) /\ Grown(s2) /\ Written(s2, d, F)
    <3>1. Done(s2, q) = Done(s1, q) BY <2>1, <2>8, MarksKeep
    <3>2. s2.pending[q] = Pending(s2, q) BY <2>1, <2>5, <2>8 DEF Marks
    <3>3. /\ Waiting(s1, {}) => Waiting(s2, {})
          /\ Waiting(s1, {q}) => Waiting(s2, {q})
          /\ HandedUp(s1, {}) => HandedUp(s2, {})
          /\ Grown(s1) => Grown(s2)
          /\ Written(s1, d, F) => Written(s2, d, F)
          /\ Fits(s1, D, {}) => Fits(s2, D, {})
      <4>1. /\ \A G : Waiting(s1, G) => Waiting(s2, G)
            /\ \A G : HandedUp(s1, G) => HandedUp(s2, G)
            /\ Grown(s1) => Grown(s2)
            /\ \A g : Written(s1, g, F) => Written(s2, g, F)
            /\ \A G, T : Fits(s1, G, T) => Fits(s2, G, T)
        BY <2>8, MarksKeep
      <4> HIDE DEF F
      <4>2. QED BY <4>1, <2>6 DEF F
    <3> HIDE DEF F
    <3>4. QED BY <2>6, <3>1, <3>2, <3>3 DEF F
  <2>11. CASE all
    <3>1. y = fin /\ Done(s2, q) BY <1>2, <1>4, <2>10, <2>11 DEF Done
    <3>2. s2.acc[q] # None BY <2>1, <2>5, <2>7, <2>9 DEF Wraps
    <3>3. /\ Marks(s2, y.s, F) /\ y.go \in BOOLEAN /\ y.go = TRUE /\ y.s.dirty[q] = TRUE
      BY <2>1, <2>9, <3>1, <3>2, FinishHereMarks
    <3> HIDE DEF fin
    <3>4. /\ Waiting(y.s, {}) \/ (Waiting(y.s, {q}) /\ Fits(y.s, D, {}) /\ q \in D)
          /\ HandedUp(y.s, {}) /\ Grown(y.s) /\ Written(y.s, d, F)
          /\ Done(y.s, q)
      <4>1. /\ \A G : Waiting(s2, G) => Waiting(y.s, G)
            /\ \A G : HandedUp(s2, G) => HandedUp(y.s, G)
            /\ Grown(s2) => Grown(y.s)
            /\ \A g : Written(s2, g, F) => Written(y.s, g, F)
            /\ \A G, T : Fits(s2, G, T) => Fits(y.s, G, T)
            /\ \A r \in Paths : Done(y.s, r) = Done(s2, r)
        BY <3>3, MarksKeep
      <4> HIDE DEF F
      <4>2. QED BY <2>1, <2>10, <3>1, <4>1
    <3>5. Written(y.s, d, E) BY <3>3, <3>4 DEF Written, Recorded
    <3>6. Wraps(x.s, y.s) BY <2>9, <3>3, MarksWraps, WrapsFurther
    <3>7. QED BY <2>1, <2>2, <3>3, <3>4, <3>5, <3>6 DEF Ending
  <2>12. CASE ~all
    <3>1. y.s = s2 /\ y.go = FALSE /\ ~Done(s2, q)
      BY <1>2, <1>4, <2>10, <2>12 DEF Done
    <3>2. Written(s2, d, E) BY <2>10, <3>1 DEF Written
    <3>3. QED BY <2>1, <2>2, <2>9, <2>10, <3>1, <3>2 DEF Ending
  <2>13. QED BY <2>11, <2>12
<1>5. QED BY <1>3, <1>4

(* on_subtree_complete as a whole. *)
LEMMA OnSubtreeCompleteRests ==
  ASSUME HasLocalRoot, GenTyped, NEW s, Firm(s), NEW p \in Paths, NEW D, NEW d, NEW E,
         Ending(s, TRUE, p, D, d, E), NEW x, x = OnSubtreeComplete(s, p)
  PROVE  Wraps(s, x) /\ Rests(s, x, d, E)
<1> DEFINE L == Lineage[p]
           n == Len(L)
           At0 == [s |-> s, go |-> TRUE]
           Like(i, v) == /\ Linked(v.s) /\ Wraps(s, v.s)
                         /\ i = n => ~v.go
                         /\ Ending(v.s, v.go, L[i + 1], D, d, E)
           A == [i \in 0..n |-> {v \in Climbing : Like(i, v)}]
<1>1. /\ L \in Seq(Paths) /\ n \in Nat /\ n >= 1 /\ L[1] = p
      /\ \A i \in 1..(n - 1) : L[i] \in Kids(L[i + 1])
      /\ \A q \in Paths : L[n] \notin Kids(q)
  BY LineageIsChain, LenProperties DEF Chain
<1> HIDE DEF L, n
<1>2. At0 \in Climbing /\ s \in StateSet /\ Linked(s) /\ Homed(s) /\ s.abandoned = {}
  BY DEF Climbing, Linked, Firm
<1>3. At0 \in A[0]
  <2>1. Wraps(s, s) /\ 0 \in 0..n /\ 0 # n /\ L[0 + 1] = p BY <1>1 DEF Wraps
  <2>2. At0.s = s /\ At0.go = TRUE
    OBVIOUS
  <2> HIDE DEF At0
  <2>3. Like(0, At0) BY <1>2, <2>1, <2>2
  <2> HIDE DEF Like
  <2>4. QED BY <1>2, <2>1, <2>3 DEF At0
<1>4. ASSUME NEW i \in 1..n, NEW v \in A[i - 1]
      PROVE  CompleteStep(v, L[i]) \in A[i]
  <2> DEFINE y == CompleteStep(v, L[i])
             q == v.s.parent[L[i]]
  <2>1. i \in 0..n /\ i - 1 \in 0..n /\ i - 1 # n /\ (i - 1) + 1 = i /\ L[i] \in Paths
    BY <1>1, ElementOfSeq DEF n
  <2>2. v \in Climbing /\ Like(i - 1, v) BY <2>1
  <2> HIDE DEF A
  <2>3. Linked(v.s) /\ Wraps(s, v.s) /\ Ending(v.s, v.go, L[i], D, d, E)
    BY <2>1, <2>2
  <2> HIDE DEF Like
  <2>4. v.s.abandoned = {} /\ Homed(v.s) BY <1>2, <2>3, WrapsKeeps DEF Wraps
  <2>5. y \in Climbing /\ Grows(v.s, y.s)
    BY <2>1, <2>2, <2>3, CompleteStepGrows
  <2>6. y = CompleteStep(v, L[i]) /\ q = v.s.parent[L[i]]
    OBVIOUS
  <2> HIDE DEF y, q
  <2>7. /\ Wraps(v.s, y.s) /\ y.go \in BOOLEAN
        /\ y.go => q \in Paths /\ L[i] \in Kids(q)
        /\ Ending(y.s, y.go, q, D, d, E)
    BY <2>1, <2>2, <2>3, <2>4, <2>6, CompleteStepEnds
  <2>8. Wraps(s, y.s) /\ Linked(y.s)
    BY <2>3, <2>5, <2>7, WrapsFurther DEF Grows
  <2>9. i = n => ~y.go BY <1>1, <2>7
  <2>10. y.go => q = L[i + 1]
    <3> SUFFICES ASSUME y.go PROVE q = L[i + 1]
      OBVIOUS
    <3>1. i \in 1..(n - 1) /\ i + 1 \in 1..n BY <1>1, <2>9
    <3>2. L[i + 1] \in Paths BY <1>1, <3>1, ElementOfSeq DEF n
    <3>3. QED BY <1>1, <2>7, <3>1, <3>2, OneParent
  <2>11. Ending(y.s, y.go, L[i + 1], D, d, E) BY <2>7, <2>10 DEF Ending
  <2>12. Like(i, y) BY <2>8, <2>9, <2>11 DEF Like
  <2>13. y \in A[i] BY <2>1, <2>5, <2>12 DEF A
  <2>14. QED BY <2>13 DEF y
<1> HIDE DEF A
<1>5. Along(CompleteStep, At0, L) \in A[n]
  BY <1>1, <1>3, <1>4, AlongComplete DEF n
<1>6. x = Along(CompleteStep, At0, L).s BY DEF OnSubtreeComplete, L
<1>7. PICK v \in Climbing : Like(n, v) /\ v.s = x
  <2> HIDE DEF Like
  <2>1. n \in 0..n BY <1>1
  <2>2. QED BY <1>5, <1>6, <2>1 DEF A
<1>8. Linked(x) /\ Wraps(s, x) /\ Rested(x, d, E) BY <1>7 DEF Ending, Rested
<1>9. Homed(x) /\ x.abandoned = {} /\ x.parent = s.parent /\ x.direct = s.direct
  BY <1>2, <1>8, WrapsKeeps DEF Wraps
<1>10. QED BY <1>8, <1>9 DEF Rests, Firm

(* _maybe_complete of a folder that its parent may wait for though it is done. *)
LEMMA MaybeCompleteRests ==
  ASSUME HasLocalRoot, GenTyped, NEW s, Firm(s), NEW p \in Paths, s.acc[p] # None,
         NEW D, NEW d, Waiting(s, {}) \/ (Waiting(s, {p}) /\ Fits(s, D, {}) /\ p \in D),
         HandedUp(s, {}), Grown(s), Written(s, d, {p}), NEW x, x = MaybeComplete(s, p)
  PROVE  Rests(s, x, d, {})
<1> DEFINE y == FinishHere(s, p)
           E == {p}
<1>1. Linked(s) /\ Homed(s) /\ s.abandoned = {} /\ s \in StateSet
  BY DEF Firm, Linked
<1>2. /\ Marks(s, y.s, E) /\ y.go \in BOOLEAN /\ (y.go = TRUE <=> Done(s, p))
      /\ Done(s, p) => y.s.dirty[p] = TRUE
  BY <1>1, FinishHereMarks
<1>3. Linked(y.s) BY <1>1, FinishHereGrows DEF Grows
<1>4. x = IF y.go THEN OnSubtreeComplete(y.s, p) ELSE y.s
  BY DEF MaybeComplete
<1> HIDE DEF y
<1>5. /\ Waiting(y.s, {}) \/ (Waiting(y.s, {p}) /\ Fits(y.s, D, {}) /\ p \in D)
      /\ HandedUp(y.s, {}) /\ Grown(y.s) /\ Written(y.s, d, E)
      /\ Done(y.s, p) = Done(s, p)
  <2>1. /\ \A G : Waiting(s, G) => Waiting(y.s, G)
        /\ \A G : HandedUp(s, G) => HandedUp(y.s, G)
        /\ Grown(s) => Grown(y.s)
        /\ \A g : Written(s, g, E) => Written(y.s, g, E)
        /\ \A G, T : Fits(s, G, T) => Fits(y.s, G, T)
        /\ \A r \in Paths : Done(y.s, r) = Done(s, r)
    BY <1>2, MarksKeep
  <2>2. Written(s, d, E)
    OBVIOUS
  <2> HIDE DEF E
  <2>3. QED BY <2>1, <2>2
<1>6. Firm(y.s) /\ y.s.parent = s.parent /\ y.s.direct = s.direct
  <2>1. Wraps(s, y.s) BY <1>2, MarksWraps
  <2>2. QED BY <1>1, <1>3, <2>1, WrapsKeeps DEF Firm, Wraps
<1>7. CASE Done(s, p)
  <2>1. Written(y.s, d, {}) BY <1>2, <1>5, <1>7 DEF Written, Recorded
  <2>2. Ending(y.s, TRUE, p, D, d, {}) BY <1>5, <1>7, <2>1 DEF Ending
  <2>3. x = OnSubtreeComplete(y.s, p) BY <1>2, <1>4, <1>7
  <2>4. Rests(y.s, x, d, {}) BY <1>6, <2>2, <2>3, OnSubtreeCompleteRests
  <2>5. QED BY <1>6, <2>4 DEF Rests
<1>8. CASE ~Done(s, p)
  <2>1. x = y.s BY <1>2, <1>4, <1>8
  <2>2. ~Done(x, p) BY <1>5, <1>8, <2>1
  <2>3. Waiting(x, {}) /\ Written(x, d, {})
    BY <1>5, <2>1, <2>2 DEF Waiting, Written
  <2>4. QED BY <1>5, <1>6, <2>1, <2>3 DEF Rests, Rested
<1>9. QED BY <1>7, <1>8

(* A complete child that has not handed up its total is added into p. *)
LEMMA AttachRests ==
  ASSUME HasLocalRoot, GenTyped, NEW s, Firm(s), NEW p \in Paths, s.acc[p] # None,
         NEW sf \in Paths, s.acc[sf] # None, Done(s, sf), NEW d, NEW E,
         Waiting(s, {}), HandedUp(s, {sf}), Grown(s), Written(s, d, E),
         NEW x, x = Attach(s, p, sf)
  PROVE  Rests(s, x, d, E)
<1> DEFINE s1 == Propagate(s, sf)
           s2 == IF s1.acc[sf].diff = "diff" THEN NoteDiff(s1, p) ELSE s1
<1>1. Linked(s) /\ Homed(s) /\ s.abandoned = {} /\ s \in StateSet
  BY DEF Firm, Linked
<1>2. x = OnSubtreeComplete(s2, sf) BY DEF Attach
<1>3. Carried(s, s1, sf) BY <1>1, PropagateCarries
<1> HIDE DEF s1
<1>4. /\ Raised(s, s1) /\ Linked(s1) /\ Homed(s1) /\ HandedUp(s1, {})
  BY <1>3 DEF Carried
<1>5. /\ s1.parent = s.parent /\ s1.direct = s.direct /\ s1.pending = s.pending
      /\ s1.abandoned = {} /\ s1.acc[p] # None
      /\ Waiting(s1, {}) /\ Grown(s1) /\ Written(s1, d, E)
  BY <1>1, <1>4 DEF Raised
<1>6. Done(s1, sf) /\ s1 \in StateSet
  BY <1>4, <1>5 DEF Done, Pending, Linked
<1>7. Marks(s1, s2, E) /\ Linked(s2)
  <2>1. Marks(s1, NoteDiff(s1, p), E) BY <1>5, <1>6, NoteDiffMarks
  <2>2. Linked(NoteDiff(s1, p)) BY <1>4, NoteDiffGrows DEF Grows
  <2>3. Marks(s1, s1, E) BY MarksSame
  <2>4. QED BY <1>4, <2>1, <2>2, <2>3
<1> HIDE DEF s2
<1>8. /\ Done(s2, sf) = Done(s1, sf)
      /\ Waiting(s2, {}) /\ HandedUp(s2, {}) /\ Grown(s2) /\ Written(s2, d, E)
  BY <1>4, <1>5, <1>7, MarksKeep
<1>9. Firm(s2) /\ s2.parent = s.parent /\ s2.direct = s.direct
  <2>1. Wraps(s1, s2) BY <1>7, MarksWraps
  <2>2. QED BY <1>4, <1>5, <1>6, <1>7, <2>1, WrapsKeeps DEF Firm, Wraps
<1>10. Ending(s2, TRUE, sf, {}, d, E) BY <1>6, <1>8 DEF Ending
<1>11. Rests(s2, x, d, E) BY <1>2, <1>9, <1>10, OnSubtreeCompleteRests
<1>12. QED BY <1>9, <1>11 DEF Rests

(* _repair_complete_children_locked: no child that is waited for is complete. *)
LEMMA RepairRests ==
  ASSUME HasLocalRoot, GenTyped, NEW s, Firm(s), NEW p \in Paths, s.acc[p] # None, NEW d,
         Rested(s, d, {}), NEW x, x = Repair(s, p)
  PROVE  Rests(s, x, d, {})
<1> DEFINE L == Subfolders[p]
           n == Len(L)
           A == [i \in 0..n |-> {s}]
           s1 == AttachWhole(s, p)
<1>1. L \in Seq(Paths) /\ n \in Nat BY TreeShape, LenProperties
<1> HIDE DEF L, n
<1>2. s \in A[0] BY <1>1
<1>3. ASSUME NEW i \in 1..n, NEW v \in A[i - 1]
      PROVE  (IF L[i] \in Pending(s, p) /\ IsWhole(v, L[i]) THEN Attach(v, p, L[i]) ELSE v) \in A[i]
  <2>1. i \in 0..n /\ i - 1 \in 0..n /\ L[i] \in Paths
    BY <1>1, ElementOfSeq DEF n
  <2>2. v = s BY <2>1
  <2>3. ~(L[i] \in Pending(s, p) /\ IsWhole(s, L[i]))
    BY <2>1 DEF Rested, Waiting, IsWhole, Done
  <2>4. QED BY <2>1, <2>2, <2>3
<1>4. s1 \in A[n]
  <2> HIDE DEF A
  <2>1. QED BY <1>1, <1>2, <1>3, AlongAttach DEF L, n
<1>5. s1 = s BY <1>1, <1>4
<1>6. x = IF s1.direct[p] # 0 /\ Pending(s1, p) = {} THEN MaybeComplete(s1, p) ELSE s1
  BY DEF Repair
<1> HIDE DEF s1
<1>7. CASE x = s BY <1>7 DEF Rests
<1>8. CASE x = MaybeComplete(s, p)
  <2>1. Written(s, d, {p}) BY DEF Rested, Written
  <2>2. QED BY <1>8, <2>1, MaybeCompleteRests DEF Rested
<1>9. QED BY <1>5, <1>6, <1>7, <1>8

(* It is that. *)
LEMMA FreshIs ==
  ASSUME HasLocalRoot, GenTyped, Firm(st), NEW w \in Workers, NEW p \in Paths, p = Doing(w),
         ~CalledOff(w), Epoch(w) \in Epochs, st.acc[p] = None, NEW x, x = FreshFolder(w)
  PROVE  Firm(x) /\ Freshened(x, p)
<1> DEFINE t == Epoch(w)
           a == FreshAcc(p, worker[w].gen)
<1>1. /\ Linked(st) /\ st \in StateSet /\ Homed(st) /\ st.abandoned = {}
      /\ t \in 0..MaxPage /\ t # 0
  BY BoundsAndPages DEF Firm, Linked, Epochs
<1>2. a \in Acc /\ a.gen = generation[p] /\ a.total = DirectTotal[p]
  <2>1. DirectTotal[p] \in Int BY TotalsPositive
  <2>2. worker[w].gen = generation[p] /\ generation[p] \in Nat
    BY DEF CalledOff, GenTyped
  <2>3. QED BY <2>1, <2>2 DEF FreshAcc, Acc
<1>3. a # None BY <1>2, NoneApart
<1>4. \A c \in Paths : st.parent[c] # p BY <1>1, NoneApart DEF Homed
<1>5. x = [st EXCEPT !.abandoned = {}, !.acc = [st.acc EXCEPT ![p] = a],
                     !.direct = [st.direct EXCEPT ![p] = t],
                     !.pending = [st.pending EXCEPT ![p] = {}]]
  BY <1>1 DEF StateSet, FreshFolder
<1> HIDE DEF a, t
<1>6. /\ x.acc = [st.acc EXCEPT ![p] = a] /\ x.direct = [st.direct EXCEPT ![p] = t]
      /\ x.pending = [st.pending EXCEPT ![p] = {}] /\ x.abandoned = {}
      /\ x.parent = st.parent /\ x.dirty = st.dirty /\ x.contrib = st.contrib
  BY <1>1, <1>5 DEF StateSet
<1>7. /\ x.acc[p] = a /\ \A q \in Paths \ {p} : x.acc[q] = st.acc[q]
      /\ x.direct[p] = t /\ \A q \in Paths \ {p} : x.direct[q] = st.direct[q]
      /\ x.pending[p] = {} /\ \A q \in Paths \ {p} : x.pending[q] = st.pending[q]
  BY <1>1, <1>6 DEF StateSet
<1>8. x \in StateSet
  <2>1. x.acc \in [Paths -> Acc \cup {None}]
    BY <1>1, <1>2, <1>6 DEF StateSet
  <2>2. x.direct \in [Paths -> 0..MaxPage]
    <3>1. st.direct \in [Paths -> 0..MaxPage] BY <1>1 DEF StateSet
    <3>2. QED BY <1>1, <1>6, <3>1
  <2>3. x.pending \in [Paths -> (SUBSET Paths) \cup {None}]
    <3>1. st.pending \in [Paths -> (SUBSET Paths) \cup {None}]
      BY <1>1 DEF StateSet
    <3>2. QED BY <1>1, <1>6, <3>1
  <2>4. QED BY <1>1, <1>5, <1>6, <2>1, <2>2, <2>3 DEF StateSet
<1>9. Pending(x, p) = {} /\ \A q \in Paths \ {p} : Pending(x, q) = Pending(st, q)
  BY <1>7 DEF Pending
<1>10. Linked(x) BY <1>1, <1>2, <1>3, <1>6, <1>7, <1>8, <1>9 DEF Linked
<1>11. Homed(x) BY <1>1, <1>4, <1>6, <1>7 DEF Homed, StateSet
<1>12. QED BY <1>1, <1>2, <1>3, <1>4, <1>6, <1>7, <1>9, <1>10, <1>11 DEF Firm, Freshened

(* The folder's own record is handed up before that. *)
LEMMA FreshRises ==
  ASSUME Firm(st), NEW p \in Paths, st.direct[p] = 0, st.acc[p] = None, NEW d, Rested(st, d, {}),
         NEW x, Freshened(x, p)
  PROVE  /\ Waiting(x, {p}) /\ HandedUp(x, {p}) /\ Grown(x) /\ Written(x, d, {p})
         /\ Rises(x, p)
<1>1. st \in StateSet /\ Linked(st) BY DEF Firm, Linked
<1>2. Waiting(st, {}) /\ HandedUp(st, {}) /\ Grown(st) /\ Written(st, d, {})
  BY DEF Rested
<1>3. \A q \in Paths \ {p} : Done(x, q) = Done(st, q) BY DEF Freshened, Done
<1>4. ~Done(st, p) BY DEF Done
<1>5. Waiting(x, {p})
  <2> SUFFICES ASSUME NEW q \in Paths, NEW c \in Paths
               PROVE  c \in Pending(x, q) <=> x.parent[c] = q /\ (~Done(x, c) \/ c \in {p})
    BY DEF Waiting
  <2>1. CASE q = p BY <2>1 DEF Freshened
  <2>2. CASE q # p BY <1>2, <1>3, <1>4, <2>2 DEF Freshened, Waiting
  <2>3. QED BY <2>1, <2>2
<1>6. HandedUp(x, {p}) BY <1>2, <1>3 DEF Freshened, HandedUp
<1>7. x.contrib[p] = 0 /\ DirectTotal[p] > 0
  BY <1>2, TotalsPositive DEF Freshened, Grown
<1>8. Grown(x)
  <2>1. DirectTotal[p] \in Int /\ x.acc[p].total = DirectTotal[p] /\ x.acc[p] # None
    BY TotalsPositive DEF Freshened
  <2>2. \A c \in Paths \ {p} : x.acc[c] = st.acc[c] /\ x.contrib[c] = st.contrib[c]
    BY DEF Freshened
  <2>3. x.acc[p].total > 0 /\ x.contrib[p] <= x.acc[p].total BY <1>7, <2>1
  <2>4. QED BY <1>2, <2>1, <2>2, <2>3 DEF Grown
<1>9. Written(x, d, {p}) BY <1>2, <1>3 DEF Freshened, Written, Recorded
<1>10. Rises(x, p) BY <1>7 DEF Freshened, Rises
<1>11. QED BY <1>5, <1>6, <1>8, <1>9, <1>10

(* _compute up to the subfolders. *)
LEMMA BegunGathers ==
  ASSUME HasLocalRoot, GenTyped, Firm(st), NEW w \in Workers, NEW p \in Paths, p = Doing(w),
         ~CalledOff(w), Epoch(w) \in Epochs, st.direct[p] = 0, st.acc[p] = None,
         NEW d, Rested(st, d, {}), NEW x, x = Begun(w)
  PROVE  Gathers(x, p, d)
<1> DEFINE f == FreshFolder(w)
           c == IF p \in DirectDiffs THEN NoteDiff(f, p) ELSE f
           empty == Subfolders[p] = <<>>
           m == MarkDirty(c, p, empty)
           E == {p}
<1>1. x = Propagate(m, p) BY DEF Begun, FreshFolder
<1>2. Firm(f) /\ Freshened(f, p) BY FreshIs
<1>3. empty \in BOOLEAN
  OBVIOUS
<1> HIDE DEF f, empty
<1>4. /\ Waiting(f, {p}) /\ HandedUp(f, {p}) /\ Grown(f) /\ Written(f, d, {p})
      /\ Rises(f, p)
  BY <1>2, FreshRises
<1>5. Linked(f) /\ f \in StateSet /\ Homed(f) /\ f.abandoned = {} /\ f.acc[p] # None
  BY <1>2 DEF Firm, Linked, Freshened
<1>6. Marks(f, c, E) /\ Linked(c) /\ c.acc[p] # None
  <2>1. Marks(f, NoteDiff(f, p), E) BY <1>5, NoteDiffMarks
  <2>2. Linked(NoteDiff(f, p)) /\ NoteDiff(f, p).acc[p] # None
    BY <1>5, NoteDiffGrows DEF Grows
  <2>3. Marks(f, f, E) BY MarksSame
  <2>4. QED BY <1>5, <2>1, <2>2, <2>3
<1> HIDE DEF c
<1>7. Marks(c, m, E) /\ Linked(m) /\ m.acc[p] # None
  <2>1. c \in StateSet /\ p \in E BY <1>6 DEF Linked
  <2>2. Marks(c, MarkDirty(c, p, empty), E) BY <1>3, <2>1, MarkDirtyMarks
  <2>3. Linked(m) /\ m.acc[p] # None
    BY <1>3, <1>6, MarkDirtyGrows DEF Grows, Keeps
  <2>4. QED BY <2>2, <2>3
<1> HIDE DEF m
<1>8. Marks(f, m, E) BY <1>6, <1>7, MarksFurther
<1>9. /\ Waiting(m, {p}) /\ HandedUp(m, {p}) /\ Grown(m) /\ Written(m, d, {p})
  <2>1. /\ \A F : Waiting(f, F) => Waiting(m, F)
        /\ \A F : HandedUp(f, F) => HandedUp(m, F)
        /\ Grown(f) => Grown(m)
        /\ \A g : Written(f, g, E) => Written(m, g, E)
    BY <1>8, MarksKeep
  <2>2. QED BY <1>4, <2>1
<1>10. Rises(m, p) BY <1>4, <1>7, <1>8 DEF Marks, Rises
<1>11. Homed(m) /\ m.abandoned = {}
  <2>1. Wraps(f, m) BY <1>8, MarksWraps
  <2>2. QED BY <1>5, <2>1, WrapsKeeps DEF Wraps
<1>12. Carried(m, x, p) BY <1>1, <1>7, <1>11, PropagateCarries
<1>13. /\ Raised(m, x) /\ Linked(x) /\ Homed(x) /\ HandedUp(x, {})
       /\ \E D : p \in D /\ Fits(x, D, {})
  BY <1>9, <1>10, <1>12 DEF Carried
<1>14. /\ x.abandoned = {} /\ x.acc[p] # None
       /\ Waiting(x, {p}) /\ Grown(x) /\ Written(x, d, {p})
  BY <1>7, <1>9, <1>11, <1>13 DEF Raised
<1>15. QED BY <1>13, <1>14 DEF Gathers, Firm

(* It changes that. *)
LEMMA AdoptIs ==
  ASSUME NEW s, Firm(s), NEW p \in Paths, s.acc[p] # None, NEW sf \in Kids(p),
         NEW x, x = Adopted(s, p, sf)
  PROVE  Adopts(s, x, p, sf)
<1>1. Linked(s) /\ s \in StateSet /\ Homed(s) /\ s.abandoned = {} /\ sf \in Paths
  BY KidIsPath DEF Firm, Linked
<1>2. x = [s EXCEPT !.parent = [s.parent EXCEPT ![sf] = p],
                    !.contrib = [s.contrib EXCEPT ![sf] = 0]]
  BY <1>1 DEF StateSet, Adopted
<1>3. /\ x.acc = s.acc /\ x.direct = s.direct /\ x.pending = s.pending /\ x.dirty = s.dirty
      /\ x.abandoned = s.abandoned
      /\ x.parent[sf] = p /\ \A c \in Paths \ {sf} : x.parent[c] = s.parent[c]
      /\ x.contrib[sf] = 0 /\ \A c \in Paths \ {sf} : x.contrib[c] = s.contrib[c]
  BY <1>1, <1>2 DEF StateSet
<1>4. Linked(x) BY <1>1, AdoptGrows DEF Grows
<1>5. Homed(x) BY <1>1, <1>3 DEF Homed
<1>6. QED BY <1>1, <1>3, <1>4, <1>5 DEF Adopts, Firm

(* The upward chain is kept if sf is not on it, or if p has no parent. *)
LEMMA AdoptFits ==
  ASSUME NEW s, NEW p \in Paths, NEW sf \in Paths \ {p}, NEW x, Adopts(s, x, p, sf),
         s.acc[p] # None, \E D : p \in D /\ Fits(s, D, {}), s.acc[sf] = None \/ s.parent[p] = None
  PROVE  \E D : p \in D /\ Fits(x, D, {})
<1>1. CASE s.acc[sf] = None
  <2>1. PICK D : p \in D /\ Fits(s, D, {})
    OBVIOUS
  <2>2. sf \notin D BY <1>1, <2>1 DEF Fits
  <2>3. Fits(x, D, {}) BY <2>1, <2>2 DEF Fits, Adopts
  <2>4. QED BY <2>1, <2>3
<1>2. CASE s.parent[p] = None
  <2>1. Fits(x, {p}, {}) BY <1>2 DEF Fits, Adopts
  <2>2. QED BY <2>1
<1>3. QED BY <1>1, <1>2

(* A subfolder that had no parent is given one. *)
LEMMA AdoptKeeps ==
  ASSUME NEW s, NEW p \in Paths, NEW d, Gathers(s, p, d), NEW sf \in Paths \ {p},
         s.parent[sf] = None, NEW x, Adopts(s, x, p, sf)
  PROVE  Adoption(s, x, p, sf, d)
<1>1. \A q \in Paths : Pending(x, q) = Pending(s, q) /\ Done(x, q) = Done(s, q)
  BY DEF Adopts, Pending, Done
<1>2. Waiting(s, {p}) /\ HandedUp(s, {}) /\ Grown(s) /\ Written(s, d, {p})
  BY DEF Gathers
<1>3. HandedUp(x, {sf}) BY <1>1, <1>2 DEF HandedUp, Adopts
<1>4. Grown(x)
  <2> SUFFICES ASSUME NEW c \in Paths
               PROVE  IF x.acc[c] = None THEN x.contrib[c] = 0
                      ELSE x.acc[c].total > 0 /\ x.contrib[c] <= x.acc[c].total
    BY DEF Grown
  <2>1. IF s.acc[c] = None THEN s.contrib[c] = 0
        ELSE s.acc[c].total > 0 /\ s.contrib[c] <= s.acc[c].total
    BY <1>2 DEF Grown
  <2>2. CASE c # sf BY <2>1, <2>2 DEF Adopts
  <2>3. CASE c = sf
    <3>1. x.acc[c] = s.acc[c] /\ x.contrib[c] = 0 BY <2>3 DEF Adopts
    <3>2. CASE s.acc[c] = None BY <3>1, <3>2
    <3>3. CASE s.acc[c] # None
      <4>1. s.acc[c].total \in Int
        BY <3>3, AccShape DEF Gathers, Firm, Linked
      <4>2. QED BY <2>1, <3>1, <3>3, <4>1
    <3>4. QED BY <3>2, <3>3
  <2>4. QED BY <2>2, <2>3
<1>5. Written(x, d, {p}) BY <1>1, <1>2 DEF Written, Recorded, Adopts
<1>6. \A q \in Paths : sf \notin Pending(x, q)
  BY <1>1, <1>2, NoneApart DEF Waiting
<1>7. \A q, c \in Paths : c # sf => (c \in Pending(x, q) <=>
        x.parent[c] = q /\ (~Done(x, c) \/ c \in {p}))
  BY <1>1, <1>2 DEF Waiting, Adopts
<1>8. Done(x, sf) => Waiting(x, {p}) BY <1>6, <1>7 DEF Waiting
<1>9. QED BY <1>3, <1>4, <1>5, <1>6, <1>7, <1>8 DEF Adoption

(* A subfolder that is not done is waited for. *)
LEMMA WaitGathers ==
  ASSUME NEW s, NEW p \in Paths, NEW d, Gathers(s, p, d), NEW sf \in Kids(p),
         s.parent[sf] = None, s.pending[p] \in SUBSET Paths,
         s.acc[sf] = None \/ s.parent[p] = None,
         NEW x, x = Adopted(s, p, sf), ~Done(x, sf), NEW y, y = Waits(x, p, sf, x.direct[sf])
  PROVE  Gathers(y, p, d) /\ y.parent = x.parent /\ y.direct = x.direct
<1>1. Firm(s) /\ s.acc[p] # None /\ sf \in Paths /\ sf # p
  BY KidIsPath, NotOwnKid DEF Gathers
<1>2. Adopts(s, x, p, sf) BY <1>1, AdoptIs
<1>3. Firm(x) /\ Linked(x) /\ x \in StateSet /\ Homed(x) /\ x.abandoned = {}
  BY <1>2 DEF Adopts, Firm, Linked
<1>4. /\ HandedUp(x, {sf}) /\ Grown(x) /\ Written(x, d, {p})
      /\ \A q, c \in Paths : c # sf => (c \in Pending(x, q) <=>
           x.parent[c] = q /\ (~Done(x, c) \/ c \in {p}))
      /\ \A q \in Paths : sf \notin Pending(x, q)
  <2>1. sf \in Paths \ {p} BY <1>1
  <2>2. Adoption(s, x, p, sf, d) BY <1>2, <2>1, AdoptKeeps
  <2>3. QED BY <1>1, <2>2 DEF Adoption
<1>5. PICK D : p \in D /\ Fits(x, D, {})
  BY <1>1, <1>2, AdoptFits DEF Gathers
<1>6. /\ y.acc = x.acc /\ y.direct = x.direct /\ y.dirty = x.dirty
      /\ y.parent = x.parent /\ y.contrib = x.contrib
      /\ y.pending[p] = x.pending[p] \cup {sf}
      /\ \A q \in Paths \ {p} : y.pending[q] = x.pending[q]
  <2>1. x \in StateSet /\ sf \in Paths BY <1>1, <1>3
  <2>2. y = Waits(x, p, sf, x.direct[sf])
    OBVIOUS
  <2>3. QED BY <2>1, <2>2, WaitsFields
<1>7. y.abandoned = {} BY <1>3 DEF Waits, StateSet
<1>8. Linked(y)
  <2>1. x.parent[sf] = p /\ x.pending[p] \in SUBSET Paths BY <1>2 DEF Adopts
  <2>2. QED BY <1>1, <1>3, <2>1, WaitGrows DEF Grows, Waits
<1>9. Firm(y) /\ y.acc[p] # None
  BY <1>1, <1>2, <1>3, <1>6, <1>7, <1>8 DEF Firm, Homed, Adopts
<1>10. /\ Pending(y, p) = Pending(x, p) \cup {sf}
       /\ \A q \in Paths \ {p} : Pending(y, q) = Pending(x, q)
  <2>1. x.pending[p] # None /\ y.pending[p] # None
    <3>1. x.pending[p] \in SUBSET Paths BY <1>2 DEF Adopts
    <3>2. y.pending[p] \in SUBSET Paths BY <1>1, <1>6, <3>1
    <3>3. QED BY <3>1, <3>2, NoneIsNothing
  <2>2. QED BY <1>6, <2>1 DEF Pending
<1>11. /\ \A q \in Paths \ {p} : Done(y, q) = Done(x, q)
       /\ ~Done(y, sf) /\ ~Done(y, p)
  BY <1>1, <1>6, <1>10 DEF Done
<1>12. Waiting(y, {p})
  <2> SUFFICES ASSUME NEW q \in Paths, NEW c \in Paths
               PROVE  c \in Pending(y, q) <=> y.parent[c] = q /\ (~Done(y, c) \/ c \in {p})
    BY DEF Waiting
  <2>1. CASE c = sf
    <3>1. y.parent[c] = p BY <1>2, <1>6, <2>1 DEF Adopts
    <3>2. sf \notin Pending(x, q) BY <1>4
    <3>3. c \in Pending(y, q) <=> q = p BY <1>10, <2>1, <3>2
    <3>4. QED BY <1>11, <2>1, <3>1, <3>3
  <2>2. CASE c # sf
    <3>1. c \in Pending(x, q) <=> x.parent[c] = q /\ (~Done(x, c) \/ c \in {p})
      BY <1>4, <2>2
    <3>2. c \in Pending(y, q) <=> c \in Pending(x, q) BY <1>10, <2>2
    <3>3. c # p => Done(y, c) = Done(x, c) BY <1>11
    <3>4. QED BY <1>6, <3>1, <3>2, <3>3
  <2>3. QED BY <2>1, <2>2
<1>13. HandedUp(y, {}) BY <1>4, <1>6, <1>11 DEF HandedUp
<1>14. Grown(y) /\ Written(y, d, {p}) /\ Fits(y, D, {})
  BY <1>4, <1>5, <1>6, <1>11 DEF Grown, Written, Recorded, Fits
<1>15. QED BY <1>5, <1>6, <1>9, <1>12, <1>13, <1>14 DEF Gathers

(* A subfolder of the page's own folder that is done is added into it. *)
LEMMA AttachGathers ==
  ASSUME HasLocalRoot, GenTyped, NEW s, NEW p \in Paths, NEW d, Gathers(s, p, d),
         NEW sf \in Kids(p), s.parent[sf] = None, s.parent[p] = None,
         NEW x, x = Adopted(s, p, sf), Done(x, sf), x.acc[sf] # None,
         NEW y, y = Attach(x, p, sf)
  PROVE  Gathers(y, p, d) /\ y.parent = x.parent /\ y.direct = x.direct
<1>1. Firm(s) /\ s.acc[p] # None /\ sf \in Paths /\ sf # p
  BY KidIsPath, NotOwnKid DEF Gathers
<1>2. Adopts(s, x, p, sf) BY <1>1, AdoptIs
<1>3. Firm(x) /\ Linked(x) /\ x.acc[p] # None /\ x.parent[p] = None
  BY <1>1, <1>2 DEF Adopts, Firm
<1>4. /\ HandedUp(x, {sf}) /\ Grown(x) /\ Written(x, d, {p}) /\ Waiting(x, {p})
  <2>1. sf \in Paths \ {p} BY <1>1
  <2>2. Adoption(s, x, p, sf, d) BY <1>2, <2>1, AdoptKeeps
  <2>3. QED BY <1>1, <2>2 DEF Adoption
<1>5. Waiting(x, {}) BY <1>3, <1>4, NoneApart DEF Waiting
<1> DEFINE E == {p}
<1>6. Written(x, d, E) BY <1>4
<1> HIDE DEF E
<1>7. Rests(x, y, d, E) BY <1>1, <1>3, <1>4, <1>5, <1>6, AttachRests
<1>8. /\ Firm(y) /\ Waiting(y, {}) /\ HandedUp(y, {}) /\ Grown(y) /\ Written(y, d, {p})
      /\ y.parent = x.parent /\ y.direct = x.direct
  BY <1>7 DEF Rests, Rested, E
<1>9. Waiting(y, {p}) BY <1>3, <1>8, NoneApart DEF Waiting
<1>10. y.acc[p] # None BY <1>1, <1>3, AttachGrows DEF Grows, Keeps
<1>11. Fits(y, {p}, {}) BY <1>3, <1>8, <1>10 DEF Fits
<1>12. QED BY <1>8, <1>9, <1>10, <1>11 DEF Gathers

(* _compute's loop body for one subfolder does that. *)
LEMMA AddSubfolderGathers ==
  ASSUME HasLocalRoot, GenTyped, NEW o, NEW x, x \in Adding, Blank(x.s),
         NEW p \in Paths, NEW sf \in Kids(p), NEW t \in Epochs, ~(t < minPage), NEW seen,
         NEW depth, Settled(x.s, {p}), x.s.parent[sf] = None, Ready(x.s, p, seen, o),
         NEW d, Gathers(x.s, p, d), p = o => x.s.parent[p] = None,
         NEW y, y = AddSubfolder(x, p, sf, t, seen, depth)
  PROVE  Gathering(x, y, p, sf, d)
<1> DEFINE s == x.s
           s1 == Adopted(x.s, p, sf)
           reusable == x.owned[sf] = 0 /\ seen[sf] # None /\ seen[sf].complete
           reused == [s1 EXCEPT
                        !.acc[sf] = [total |-> seen[sf].total, diff |-> seen[sf].diff,
                                     gen |-> seen[sf].gen],
                        !.direct[sf] = t,
                        !.pending[sf] = Pending(s1, sf)]
           dir == IF Pending(s1, sf) = {} THEN 0 ELSE s1.direct[sf]
           waiting == [s1 EXCEPT !.pending[p] = @ \cup {sf}, !.direct[sf] = dir]
           q1 == Put(x.q, JobOf(sf, t, depth))
<1>1. /\ x = [s |-> s, owned |-> x.owned, q |-> x.q] /\ s \in StateSet
      /\ x.owned \in [Paths -> 0..MaxPage] /\ sf \in Paths /\ sf # p /\ t # 0
  BY KidIsPath, NotOwnKid, BoundsAndPages DEF Adding, Epochs
<1>2. y = IF IsWhole(s1, sf) THEN [x EXCEPT !.s = Attach(s1, p, sf)]
          ELSE IF reusable THEN [x EXCEPT !.s = Attach(reused, p, sf)]
          ELSE IF waiting.direct[sf] = 0 /\ x.owned[sf] = 0
            THEN [s |-> waiting, owned |-> [x.owned EXCEPT ![sf] = t], q |-> q1]
          ELSE [x EXCEPT !.s = waiting]
  <2>1. waiting = [s1 EXCEPT !.pending[p] = @ \cup {sf},
                             !.direct[sf] = IF Pending(s1, sf) = {} THEN 0 ELSE @]
    OBVIOUS
  <2>2. QED BY <2>1 DEF AddSubfolder, Adopted
<1>3. /\ Gathers(s, p, d) /\ Firm(s) /\ s.acc[p] # None /\ s.parent[sf] = None
      /\ Settled(s, {p}) /\ Blank(s) /\ Ready(s, p, seen, o) /\ (p = o => s.parent[p] = None)
  BY DEF Gathers
<1>4. s1 = Adopted(s, p, sf)
  OBVIOUS
<1> HIDE DEF s1, s
<1>5. Adopts(s, s1, p, sf) BY <1>1, <1>3, <1>4, AdoptIs
<1>6. /\ s1.acc = s.acc /\ s1.direct = s.direct /\ s1.parent[sf] = p
      /\ (\A q : Pending(s1, q) = Pending(s, q)) /\ (Done(s1, sf) <=> Done(s, sf))
      /\ s1.abandoned = s.abandoned
  BY <1>3, <1>5 DEF Adopts, Pending, Done, Firm
<1>7. IsWhole(s1, sf) <=> Done(s1, sf)
  <2>1. Done(s, sf) => IsWhole(s, sf) BY <1>1, <1>3, SettledIsWhole DEF Done
  <2>2. IsWhole(s1, sf) <=> IsWhole(s, sf) BY <1>6 DEF IsWhole
  <2>3. IsWhole(s1, sf) => Done(s1, sf) BY DEF IsWhole, Done
  <2>4. QED BY <1>6, <2>1, <2>2, <2>3
<1>8. CASE IsWhole(s1, sf)
  <2> DEFINE z == Attach(s1, p, sf)
  <2>1. y = [s |-> z, owned |-> x.owned, q |-> x.q] BY <1>1, <1>2, <1>8
  <2>2. s1.acc[sf] # None /\ s1.direct[sf] # 0 /\ Done(s1, sf)
    BY <1>7, <1>8 DEF IsWhole
  <2>3. p = o BY <1>3, <1>6, <2>2 DEF Ready
  <2>4. Gathers(z, p, d) /\ z.parent = s1.parent /\ z.direct = s1.direct
    BY <1>3, <1>4, <2>2, <2>3, AttachGathers
  <2> HIDE DEF z
  <2>5. QED BY <1>6, <2>1, <2>2, <2>4 DEF Gathering
<1>9. CASE ~IsWhole(s1, sf)
  <2>1. ~reusable BY <1>3, <1>6, <1>7, <1>9 DEF Ready, Tells
  <2>2. ~Done(s1, sf) BY <1>7, <1>9
  <2>3. dir = s1.direct[sf] BY <2>2 DEF Done
  <2> HIDE DEF dir, reusable
  <2>4. waiting = Waits(s1, p, sf, s1.direct[sf]) BY <2>3 DEF Waits
  <2> HIDE DEF waiting
  <2>5. s.pending[p] \in SUBSET Paths /\ (s.acc[sf] = None \/ s.parent[p] = None)
    BY <1>1, <1>3 DEF Ready, Blank
  <2>6. Gathers(waiting, p, d) /\ waiting.parent = s1.parent /\ waiting.direct = s1.direct
    BY <1>3, <1>4, <2>2, <2>4, <2>5, WaitGathers
  <2>7. CASE waiting.direct[sf] = 0 /\ x.owned[sf] = 0
    <3>1. y.s = waiting /\ y.owned[sf] = t BY <1>1, <1>2, <1>9, <2>1, <2>7
    <3>2. QED BY <1>1, <1>6, <2>6, <3>1 DEF Gathering
  <2>8. CASE ~(waiting.direct[sf] = 0 /\ x.owned[sf] = 0)
    <3>1. y = [s |-> waiting, owned |-> x.owned, q |-> x.q]
      BY <1>1, <1>2, <1>9, <2>1, <2>8
    <3>2. QED BY <1>6, <2>6, <2>8, <3>1 DEF Gathering
  <2>9. QED BY <2>7, <2>8
<1>10. QED BY <1>8, <1>9

(* One subfolder more. *)
LEMMA CollectsNext ==
  ASSUME HasLocalRoot, NEW V, NEW o, NEW w \in Workers, Lists(w, V, o),
         NEW p, p = Doing(w), NEW L, L = Subfolders[p], NEW i \in 1..Len(L), NEW d,
         p = o => st.parent[p] = None,
         NEW v, Collects(i - 1, v, w, V, o, d), NEW depth \in 0..DepthCap,
         NEW y, y = AddSubfolder(v, p, L[i], Epoch(w), worker[w].seen, depth)
  PROVE  Collects(i, y, w, V, o, d)
<1> DEFINE n == Len(L)
           sf == L[i]
           t == Epoch(w)
           seen == worker[w].seen
<1>1. /\ L \in Seq(Paths) /\ n \in Nat /\ DOMAIN L = 1..n /\ p \in Paths
      /\ t \in Epochs /\ ~(t < minPage) /\ GenTyped
  BY TreeShape, LenProperties DEF Lists
<1>2. \A j, k \in 1..n : L[j] = L[k] => j = k
  BY <1>1, NamedOnce DEF IsInjective
<1>3. \A j \in 1..n : L[j] \in Kids(p) BY <1>1 DEF Kids, ToSet
<1>4. sf \in Kids(p) /\ i > 0 /\ n > 0 /\ (i - 1) + 1 = i BY <1>1, <1>3
<1>5. Upto(i - 1, v, w, V, o) /\ Gathers(v.s, p, d) BY DEF Collects
<1>6. Upto(i, y, w, V, o) /\ Adds(v, y, p, sf, seen, V, o) BY <1>5, UptoNext
<1>7. /\ v \in Adding /\ Counted(v.s, V, o) /\ Settled(v.s, {p}) /\ Ready(v.s, p, seen, o)
      /\ v.s.parent[sf] = None /\ v.s.parent[p] = st.parent[p]
  <2>1. i \in ((i - 1) + 1)..n /\ p \notin Kids(p) BY <1>1, <1>4, NotOwnKid
  <2>2. QED BY <1>1, <1>4, <1>5, <2>1 DEF Upto
<1>8. Blank(v.s) BY <1>7 DEF Counted
<1>9. y = AddSubfolder(v, p, sf, t, seen, depth) /\ (p = o => v.s.parent[p] = None)
  BY <1>7
<1> HIDE DEF sf, t, seen
<1>10. Gathering(v, y, p, sf, d)
  BY <1>1, <1>4, <1>5, <1>7, <1>8, <1>9, AddSubfolderGathers
<1>11. ASSUME NEW j \in 1..i
       PROVE  y.s.parent[L[j]] = p /\ (y.s.direct[L[j]] = 0 => y.owned[L[j]] # 0)
  <2>1. CASE j = i BY <1>10, <2>1 DEF Gathering, sf
  <2>2. CASE j # i
    <3>1. j \in 1..(i - 1) /\ j \in 1..n /\ i \in 1..n BY <1>1, <2>2
    <3>2. L[j] \in Paths /\ L[j] # sf BY <1>1, <1>2, <2>2, <3>1 DEF sf
    <3>3. v.s.parent[L[j]] = p /\ (v.s.direct[L[j]] = 0 => v.owned[L[j]] # 0)
      BY <3>1 DEF Collects
    <3>4. QED BY <1>6, <3>2, <3>3 DEF Adds
  <2>3. QED BY <2>1, <2>2
<1>12. Gathers(y.s, p, d) BY <1>10 DEF Gathering
<1>13. QED BY <1>6, <1>11, <1>12 DEF Collects

(* A whole listing. *)
LEMMA ListedCollects ==
  ASSUME HasLocalRoot, NEW V, NEW o, NEW w \in Workers, Lists(w, V, o),
         NEW p, p = Doing(w), p = o => st.parent[p] = None, Firm(st), st.acc[p] = None,
         NEW d, Rested(st, d, {}), NEW x, x = Listed(w)
  PROVE  Collects(Len(Subfolders[p]), x, w, V, o, d)
<1> DEFINE L == Subfolders[p]
           n == Len(L)
           depth == IF worker[w].depth < DepthCap THEN worker[w].depth + 1 ELSE DepthCap
           At0 == [s |-> Begun(w), owned |-> inProgress, q |-> queue]
           A == [i \in 0..n |-> {v \in Adding : Collects(i, v, w, V, o, d)}]
<1>1. p \in Paths /\ L \in Seq(Paths) /\ n \in Nat /\ 0 \in 0..n /\ n \in 0..n
  BY TreeShape, LenProperties DEF Lists
<1>2. depth \in 0..DepthCap BY BoundsAndPages DEF Lists
<1>3. Upto(0, At0, w, V, o) BY UptoBegins
<1>4. Gathers(Begun(w), p, d)
  <2>1. /\ GenTyped /\ ~CalledOff(w) /\ Epoch(w) \in Epochs /\ st.direct[p] = 0
    BY DEF Lists
  <2>2. QED BY <1>1, <2>1, BegunGathers
<1> HIDE DEF L, n, depth
<1>5. At0 \in A[0]
  <2>1. \A j \in 1..0 : FALSE
    OBVIOUS
  <2>2. At0.s = Begun(w)
    OBVIOUS
  <2> HIDE DEF At0
  <2>3. Collects(0, At0, w, V, o, d) BY <1>3, <1>4, <2>1, <2>2 DEF Collects
  <2>4. At0 \in Adding BY <1>3 DEF Upto
  <2>5. QED BY <1>1, <2>3, <2>4
<1>6. ASSUME NEW i \in 1..n, NEW v \in A[i - 1]
      PROVE  AddSubfolder(v, p, L[i], Epoch(w), worker[w].seen, depth) \in A[i]
  <2> DEFINE y == AddSubfolder(v, p, L[i], Epoch(w), worker[w].seen, depth)
  <2>1. i \in 0..n /\ i - 1 \in 0..n /\ i \in 1..Len(L) /\ L = Subfolders[p]
    BY <1>1 DEF L, n
  <2>2. v \in Adding /\ Collects(i - 1, v, w, V, o, d) BY <2>1
  <2> HIDE DEF A
  <2>3. Collects(i, y, w, V, o, d) BY <1>2, <2>1, <2>2, CollectsNext
  <2>4. y \in Adding BY <2>3 DEF Collects, Upto
  <2> HIDE DEF y
  <2>5. y \in A[i] BY <2>1, <2>3, <2>4 DEF A
  <2>6. QED BY <2>5 DEF y
<1> HIDE DEF A
<1>7. Listed(w) \in A[n] BY <1>1, <1>5, <1>6, AlongListed DEF depth, L, n
<1>8. QED BY <1>1, <1>7 DEF A, n, L

(* It keeps all of them. *)
LEMMA ListingRests ==
  ASSUME HasLocalRoot, NEW V, NEW o, NEW w \in Workers, Lists(w, V, o),
         NEW p, p = Doing(w), p = o => st.parent[p] = None, Firm(st), st.acc[p] = None,
         NEW d, Rested(st, d, {}), Gathered(st), AskedFor(st, inProgress),
         NEW y, y = Listed(w), NEW x, x = MaybeComplete(y.s, p)
  PROVE  Firm(x) /\ Rested(x, d, {}) /\ Gathered(x) /\ AskedFor(x, y.owned)
<1> DEFINE L == Subfolders[p]
           n == Len(L)
<1>1. p \in Paths /\ L \in Seq(Paths) /\ n \in Nat /\ DOMAIN L = 1..n /\ GenTyped
      /\ st.direct[p] = 0
  BY TreeShape, LenProperties DEF Lists
<1>2. Collects(n, y, w, V, o, d) BY ListedCollects
<1>3. Gathers(y.s, p, d) /\ Upto(n, y, w, V, o) BY <1>2 DEF Collects
<1>4. Rests(y.s, x, d, {})
  <2>1. /\ Firm(y.s) /\ y.s.acc[p] # None
        /\ Waiting(y.s, {p}) /\ HandedUp(y.s, {}) /\ Grown(y.s) /\ Written(y.s, d, {p})
    BY <1>3 DEF Gathers
  <2>2. PICK D : p \in D /\ Fits(y.s, D, {}) BY <1>3 DEF Gathers
  <2>3. QED BY <1>1, <2>1, <2>2, MaybeCompleteRests
<1>5. /\ Firm(x) /\ Rested(x, d, {}) /\ x.parent = y.s.parent /\ x.direct = y.s.direct
  BY <1>4 DEF Rests
<1>6. \A q \in Paths \ {p} : x.direct[q] = st.direct[q]
  <2>1. \A q \in Paths \ {p} : Begun(w).direct[q] = st.direct[q]
    BY BegunSettles DEF Lists
  <2>2. QED BY <1>3, <1>5, <2>1 DEF Upto
<1>7. ASSUME NEW c \in Kids(p)
      PROVE  x.parent[c] = p /\ (x.direct[c] = 0 => y.owned[c] # 0)
  <2>1. PICK j \in 1..n : c = L[j] BY <1>1 DEF Kids, ToSet
  <2>2. QED BY <1>2, <1>5, <2>1 DEF Collects
<1>8. /\ \A c \in Paths \ Kids(p) : x.parent[c] = st.parent[c]
      /\ \A q \in Paths \ Kids(p) : y.owned[q] = inProgress[q]
  BY <1>3, <1>5 DEF Upto
<1>9. Gathered(x)
  <2> SUFFICES ASSUME NEW q \in Paths, x.direct[q] # 0, NEW c \in Kids(q)
               PROVE  x.parent[c] = q
    BY DEF Gathered
  <2>1. CASE q = p BY <1>7, <2>1
  <2>2. CASE q # p
    <3>1. c \in Paths /\ c \notin Kids(p)
      BY <1>1, <2>2, TreeShape, KidIsPath
    <3>2. QED BY <1>6, <1>8, <2>2, <3>1 DEF Gathered
  <2>3. QED BY <2>1, <2>2
<1>10. AskedFor(x, y.owned)
  <2> SUFFICES ASSUME NEW c \in Paths, x.parent[c] # None, x.direct[c] = 0
               PROVE  y.owned[c] # 0
    BY DEF AskedFor
  <2>1. CASE c \in Kids(p) BY <1>7, <2>1
  <2>2. CASE c \notin Kids(p)
    <3>1. st.parent[c] # None /\ y.owned[c] = inProgress[c] BY <1>8, <2>2
    <3>2. st.direct[c] = 0 BY <1>1, <1>6
    <3>3. QED BY <3>1, <3>2 DEF AskedFor
  <2>3. QED BY <2>1, <2>2
<1>11. QED BY <1>5, <1>9, <1>10

-----------------------------------------------------------------------------
(* The steps of the cache *)

(* The helpers' states are the variable's states. *)
LEMMA RestedNext ==
  ASSUME NEW x, st' = x, NEW d, disk' = d, NEW owned, inProgress' = owned,
         Rested(x, d, {}), Gathered(x), AskedFor(x, owned), UNCHANGED generation,
         \A w \in Workers : Current(worker'[w], x.direct, generation)
  PROVE  Resting'
<1>1. (Waiting(st, {}))' /\ (HandedUp(st, {}))' /\ (Grown(st))'
  BY DEF Rested, Waiting, HandedUp, Grown, Done, Pending
<1>2. (Written(st, disk, {}))'
  BY DEF Rested, Written, Recorded, Tells, Done, Pending
<1>3. (Gathered(st))' /\ (AskedFor(st, inProgress))'
  BY DEF Gathered, AskedFor, Kids
<1>4. (\A w \in Workers : Current(worker[w], st.direct, generation))'
  BY DEF Current
<1>5. QED BY <1>1, <1>2, <1>3, <1>4 DEF Resting, Rested

(* What the step of one worker leaves to the others. *)
LEMMA CurrentOn ==
  ASSUME CacheInv, NEW w \in Workers, NEW rec, Moves(w, rec), NEW direct,
         \A v \in Workers : Current(worker[v], st.direct, generation),
         \A q \in Paths : st.direct[q] # 0 => direct[q] # 0,
         Current(rec, direct, generation)
  PROVE  \A v \in Workers : Current(worker'[v], direct, generation)
<1>1. worker'[w] = rec /\ \A v \in Workers \ {w} : worker'[v] = worker[v]
  BY DEF CacheInv, Working, Moves
<1>2. \A v \in Workers : worker[v].pc = "final" => worker[v].path \in Paths
  BY DEF CacheInv, Working, Employed
<1>3. QED BY <1>1, <1>2 DEF Current

(* A step of a worker that changes neither the accumulated state nor the disk. *)
LEMMA WorkerRests ==
  ASSUME CacheInv, Resting, NEW w \in Workers, NEW rec, Moves(w, rec),
         UNCHANGED <<st, disk, generation>>, Current(rec, st.direct, generation),
         \A q \in Paths : inProgress[q] # 0 => inProgress'[q] # 0 \/ st.direct[q] # 0
  PROVE  Resting'
<1>1. Rested(st, disk, {}) /\ Gathered(st) /\ AskedFor(st, inProgress')
  BY DEF Resting, AskedFor
<1>2. \A v \in Workers : Current(worker'[v], st.direct, generation)
  BY CurrentOn DEF Resting
<1>3. QED BY <1>1, <1>2, RestedNext

(* A step that leaves the cache alone. *)
LEMMA UnchangedRests ==
  ASSUME Resting, UNCHANGED <<st, inProgress, generation, worker, disk>>
  PROVE  Resting'
BY RestedNext DEF Resting

(* The steps of a worker that list nothing and repair nothing. *)
LEMMA WorkerMoveRests ==
  ASSUME CacheInv, ClaimInv, OwnedInv, Resting, NEW w \in Workers,
         Dequeue(w) \/ Claim(w) \/ List(w) \/ Finish(w) \/ FlushEnds(w)
  PROVE  Resting'
<1>1. CASE Dequeue(w)
  <2>1. PICK j \in DOMAIN queue :
          Moves(w, [pc |-> "got", path |-> j.path, epoch |-> j.epoch, depth |-> j.depth,
                    claimed |-> FALSE, force |-> FALSE, gen |-> 0, seen |-> None])
    BY <1>1 DEF Dequeue
  <2>2. UNCHANGED <<st, disk, generation, inProgress>> BY <1>1 DEF Dequeue
  <2>3. QED BY <2>1, <2>2, WorkerRests DEF Current
<1>2. CASE Claim(w)
  <2>1. worker[w].pc = "got" /\ UNCHANGED <<st, disk, generation, inProgress>>
    BY <1>2 DEF Claim, At
  <2>2. DOMAIN worker[w] = JobFields BY <2>1, JobShape DEF Employed
  <2>3. PICK rec : Moves(w, rec) /\ Current(rec, st.direct, generation)
    <3>1. \A pc \in {"flush", "stale", "done"} :
            Current([worker[w] EXCEPT !.pc = pc], st.direct, generation)
      BY <2>2 DEF JobFields, Current
    <3>2. Current([worker[w] EXCEPT !.pc = "list", !.epoch = Epoch(w), !.claimed = TRUE,
                                    !.gen = generation[Doing(w)]], st.direct, generation)
      BY <2>2 DEF JobFields, Current, Doing
    <3>3. QED BY <1>2, <3>1, <3>2 DEF Claim
  <2>4. QED BY <2>1, <2>3, WorkerRests
<1>3. CASE List(w)
  <2> DEFINE rec == [worker[w] EXCEPT !.pc = "commit",
                                      !.seen = [c \in Kids(Doing(w)) |-> disk[c]]]
  <2>1. /\ worker[w].pc = "list" /\ Moves(w, rec)
        /\ UNCHANGED <<st, disk, generation, inProgress>>
    BY <1>3 DEF List, At
  <2>2. DOMAIN worker[w] = JobFields BY <2>1, JobShape DEF Employed
  <2>3. rec.pc = "commit" /\ rec.gen = worker[w].gen /\ rec.path = worker[w].path
    BY <2>2 DEF JobFields
  <2> HIDE DEF rec
  <2>4. Current(rec, st.direct, generation)
    BY <2>1, <2>3 DEF Resting, Current
  <2>5. QED BY <2>1, <2>4, WorkerRests
<1>4. CASE Finish(w)
  <2> DEFINE rec == [worker[w] EXCEPT !.pc = "flush", !.claimed = FALSE]
  <2>1. /\ worker[w].pc = "final" /\ Moves(w, rec) /\ UNCHANGED <<st, disk, generation>>
    BY <1>4 DEF Finish, At
  <2>2. DOMAIN worker[w] = JobFields BY <2>1, JobShape DEF Employed
  <2>3. Current(rec, st.direct, generation) BY <2>2 DEF JobFields, Current
  <2>4. st.direct[Doing(w)] # 0 BY <2>1 DEF Resting, Current, Doing
  <2>5. \A q \in Paths : inProgress[q] # 0 => inProgress'[q] # 0 \/ st.direct[q] # 0
    BY <1>4, <2>4 DEF Finish, CacheInv, Owned
  <2> HIDE DEF rec
  <2>6. QED BY <2>1, <2>3, <2>5, WorkerRests
<1>5. CASE FlushEnds(w) BY <1>5, WorkerRests DEF FlushEnds, Current, Idle
<1>6. QED BY <1>1, <1>2, <1>3, <1>4, <1>5

(* A job that is called off was invalidated: there is none. *)
LEMMA NoneCalledOff ==
  ASSUME Resting, NEW w \in Workers, Listing(w)
  PROVE  ~CalledOff(w)
BY DEF Resting, Current, Listing, CalledOff, Doing

(* SkipDone. *)
LEMMA SkipDoneRests ==
  ASSUME HasLocalRoot, NEW o \in Paths, Tracked(o), CacheInv, OwnedInv, Resting,
         NEW w \in Workers, SkipDone(w)
  PROVE  Resting'
<1> DEFINE x == Repair(st, Doing(w))
           rec == Finishing(w, FALSE)
<1>1. /\ worker[w].pc = "done" /\ st' = x /\ Moves(w, rec)
      /\ UNCHANGED <<inProgress, generation, disk>>
  BY DEF SkipDone, At
<1>2. /\ Doing(w) \in Paths /\ GenTyped /\ Settled(st, {})
      /\ Serves(worker[w], st.direct, inProgress) /\ Employed(worker[w])
  BY <1>1, JobShape DEF CacheInv, Published, OwnedInv
<1>3. st.acc[Doing(w)] # None /\ st.direct[Doing(w)] # 0
  BY <1>1, <1>2 DEF Serves, Doing, Settled
<1>4. Firm(st) BY <1>2 DEF Tracked, Counted, Sound, Settled, Firm
<1>5. rec.path = Doing(w) /\ rec.pc = "final"
  BY <1>2 DEF Finishing, Employed, JobFields, Doing
<1> HIDE DEF x, rec
<1>6. Rests(st, x, disk, {}) BY <1>2, <1>3, <1>4, RepairRests DEF Resting, x
<1>7. x.parent = st.parent /\ x.direct = st.direct /\ Rested(x, disk, {})
  BY <1>6 DEF Rests
<1>8. Gathered(x) /\ AskedFor(x, inProgress)
  BY <1>7 DEF Resting, Gathered, AskedFor
<1>9. \A v \in Workers : Current(worker'[v], x.direct, generation)
  <2>1. Current(rec, x.direct, generation) BY <1>3, <1>5, <1>7 DEF Current
  <2>2. QED BY <1>1, <1>7, <2>1, CurrentOn DEF Resting
<1>10. QED BY <1>1, <1>7, <1>8, <1>9, RestedNext

(* request(). *)
LEMMA RequestRests ==
  ASSUME HasLocalRoot, NEW o \in Paths, Tracked(o), CacheInv, OwnedInv, Resting,
         NEW p \in Paths, NEW t \in Epochs, NEW d, Request(p, t, d)
  PROVE  Resting'
<1>1. PICK s \in {IF Awaits(st, p) THEN Repair(st, p) ELSE st} :
       \/ /\ Awaits(s, p)
          /\ st' = s
          /\ UNCHANGED <<inProgress, queue, minPage, flushing>>
       \/ /\ ~Awaits(s, p) /\ IsWhole(s, p)
          /\ st' = MarkDirty(s, p, TRUE)
          /\ flushing' = TRUE
          /\ UNCHANGED <<inProgress, queue, minPage>>
       \/ /\ ~Awaits(s, p) /\ ~IsWhole(s, p)
          /\ st' = IF s.direct[p] # 0 THEN Restarted(s, p) ELSE s
          /\ Own(p, t, d)
          /\ UNCHANGED flushing
  BY DEF Request
<1>2. UNCHANGED <<generation, worker, disk>> BY DEF Request
<1>3. /\ Linked(st) /\ GenTyped /\ Settled(st, {}) /\ inProgress \in [Paths -> 0..MaxPage]
      /\ Firm(st) /\ Rested(st, disk, {}) /\ Gathered(st) /\ AskedFor(st, inProgress)
  BY DEF CacheInv, Published, Owned, OwnedInv, Tracked, Counted, Sound, Settled, Firm, Resting
<1>4. /\ Firm(s) /\ Rested(s, disk, {}) /\ Settled(s, {})
      /\ s.direct = st.direct /\ s.parent = st.parent
  <2>1. CASE Awaits(st, p)
    <3>1. s = Repair(st, p) BY <1>1, <2>1
    <3>2. st.acc[p] # None BY <1>3, <2>1 DEF Awaits, Settled
    <3>3. Rests(st, s, disk, {}) BY <1>3, <3>1, <3>2, RepairRests
    <3>4. Settled(s, {}) BY <1>3, <3>1, RepairSettles
    <3>5. QED BY <3>3, <3>4 DEF Rests
  <2>2. CASE ~Awaits(st, p) BY <1>1, <1>3, <2>2
  <2>3. QED BY <2>1, <2>2
<1>5. \A v \in Workers : Current(worker'[v], s.direct, generation)
  BY <1>2, <1>4 DEF Resting
<1>6. Gathered(s) BY <1>3, <1>4 DEF Gathered
<1>7. CASE Awaits(s, p) /\ st' = s /\ UNCHANGED <<inProgress, queue, minPage, flushing>>
  <2>1. AskedFor(s, inProgress) BY <1>3, <1>4 DEF AskedFor
  <2>2. QED BY <1>2, <1>4, <1>5, <1>6, <1>7, <2>1, RestedNext
<1>8. CASE /\ ~Awaits(s, p) /\ IsWhole(s, p) /\ st' = MarkDirty(s, p, TRUE)
           /\ flushing' = TRUE /\ UNCHANGED <<inProgress, queue, minPage>>
  <2> DEFINE x == MarkDirty(s, p, TRUE)
  <2>1. s \in StateSet /\ s.acc[p] # None
    BY <1>4, <1>8 DEF Firm, Linked, IsWhole
  <2>2. Marks(s, x, {}) BY <2>1, MarkDirtyMarks
  <2>3. st' = x BY <1>8
  <2> HIDE DEF x
  <2>4. Rested(x, disk, {}) BY <1>4, <2>2, MarksKeep DEF Rested
  <2>5. x.direct = st.direct /\ x.parent = st.parent BY <1>4, <2>2 DEF Marks
  <2>6. Gathered(x) /\ AskedFor(x, inProgress)
    BY <1>3, <2>5 DEF Gathered, AskedFor
  <2>7. \A v \in Workers : Current(worker'[v], x.direct, generation)
    BY <1>4, <1>5, <2>5
  <2>8. QED BY <1>2, <1>8, <2>3, <2>4, <2>6, <2>7, RestedNext
<1>9. CASE /\ ~Awaits(s, p) /\ ~IsWhole(s, p)
           /\ st' = IF s.direct[p] # 0 THEN Restarted(s, p) ELSE s
           /\ Own(p, t, d) /\ UNCHANGED flushing
  <2>1. s.direct[p] = 0
    <3> SUFFICES ASSUME s.direct[p] # 0 PROVE FALSE
      OBVIOUS
    <3>1. Pending(s, p) = {} BY <1>4, <1>9 DEF Awaits, Settled
    <3>2. QED BY <1>4, <1>9, <3>1, SettledIsWhole
  <2>2. st' = s BY <1>9, <2>1
  <2>3. t # 0 BY DEF Epochs
  <2>4. \A q \in Paths : inProgress[q] # 0 => inProgress'[q] # 0
    BY <1>3, <1>9, <2>3 DEF Own
  <2>5. AskedFor(s, inProgress') BY <1>3, <1>4, <2>4 DEF AskedFor
  <2>6. QED BY <1>2, <1>4, <1>5, <1>6, <2>2, <2>5, RestedNext
<1>10. QED BY <1>1, <1>7, <1>8, <1>9

(* A record is written: what was to be written as complete is so on disk. *)
LEMMA FlushRecordRests ==
  ASSUME CacheInv, Resting, NEW p \in Paths, FlushRecord(p)
  PROVE  Resting'
<1> DEFINE x == [st EXCEPT !.dirty[p] = None]
           r == [total |-> st.acc[p].total, diff |-> st.acc[p].diff, gen |-> st.acc[p].gen,
                 complete |-> st.dirty[p]]
           e == [disk EXCEPT ![p] = r]
<1>1. /\ st.dirty[p] # None /\ disk' = e /\ st' = x
      /\ UNCHANGED <<inProgress, generation, worker>>
  BY DEF FlushRecord
<1>2. /\ Linked(st) /\ st \in StateSet /\ disk \in [Paths -> Record \cup {None}]
  BY DEF CacheInv, Published, Linked
<1>3. r \in Record BY <1>1, <1>2 DEF Linked, StateSet, Acc, Record
<1>4. x = [st EXCEPT !.dirty = [st.dirty EXCEPT ![p] = None]]
  BY <1>2 DEF StateSet
<1>5. /\ r.complete = st.dirty[p] /\ r.total = st.acc[p].total /\ r # None
      /\ e[p] = r /\ \A q \in Paths \ {p} : e[q] = disk[q]
  BY <1>2, <1>3, NoneApart
<1> HIDE DEF x, r, e
<1>6. /\ x.acc = st.acc /\ x.pending = st.pending /\ x.direct = st.direct
      /\ x.parent = st.parent /\ x.contrib = st.contrib
      /\ x.dirty[p] = None /\ \A q \in Paths \ {p} : x.dirty[q] = st.dirty[q]
  BY <1>2, <1>4 DEF StateSet
<1>7. \A q : Pending(x, q) = Pending(st, q) /\ Done(x, q) = Done(st, q)
  BY <1>6 DEF Pending, Done
<1>8. Waiting(x, {}) /\ HandedUp(x, {}) /\ Grown(x)
  BY <1>6, <1>7 DEF Resting, Rested, Waiting, HandedUp, Grown
<1>9. Written(x, e, {})
  <2> SUFFICES ASSUME NEW q \in Paths, Done(x, q) PROVE Recorded(x, e, q)
    BY DEF Written
  <2>1. Recorded(st, disk, q) BY <1>7 DEF Resting, Rested, Written
  <2>2. CASE q = p BY <1>1, <1>5, <1>6, <2>1, <2>2 DEF Recorded, Tells
  <2>3. CASE q # p BY <1>5, <1>6, <2>1, <2>3 DEF Recorded
  <2>4. QED BY <2>2, <2>3
<1>10. Gathered(x) /\ AskedFor(x, inProgress)
  BY <1>6 DEF Resting, Gathered, AskedFor
<1>11. \A w \in Workers : Current(worker'[w], x.direct, generation)
  BY <1>1, <1>6 DEF Resting
<1>12. Rested(x, e, {}) BY <1>8, <1>9 DEF Rested
<1>13. QED BY <1>1, <1>10, <1>11, <1>12, RestedNext

(* The page's folder has no parent. *)
LEMMA OriginHasNoParent ==
  ASSUME NEW o \in Paths, Tracked(o)
  PROVE  st.parent[o] = None
<1> SUFFICES ASSUME st.parent[o] # None PROVE FALSE
  OBVIOUS
<1>1. /\ Linked(st) /\ Homed(st) /\ Blank(st)
      /\ \A q \in Paths : Reached(q) => Lies(o, q)
  BY DEF Tracked, Counted, Sound
<1>2. st.parent[o] \in Paths /\ o \in Kids(st.parent[o])
  BY <1>1 DEF Linked, StateSet
<1>3. st.direct[st.parent[o]] # 0 BY <1>1, <1>2 DEF Homed, Blank
<1>4. QED BY <1>1, <1>2, <1>3, OriginIsTop DEF Reached

(* A listing commits. *)
LEMMA CommitRests ==
  ASSUME OneEpoch, HasLocalRoot, NEW o \in Paths, Tracked(o), CacheInv, ClaimInv,
         OwnedInv, Resting, NEW w \in Workers, Commit(w)
  PROVE  Resting'
<1> DEFINE p == Doing(w)
           seen == worker[w].seen
           y == Listed(w)
           x == MaybeComplete(y.s, p)
           rec == [Finishing(w, FALSE) EXCEPT !.seen = None]
<1>1. /\ worker[w].pc = "commit" /\ Listing(w) /\ worker[w].pc # "idle"
      /\ UNCHANGED <<generation, disk>>
  BY DEF Commit, At, Listing
<1>2. /\ p \in Paths /\ Epoch(w) \in Epochs /\ Employed(worker[w])
      /\ st.direct[p] = 0 /\ inProgress[p] # 0 /\ ~CalledOff(w)
  BY <1>1, JobShape, ListingServes, NoneCalledOff
<1>3. /\ Linked(st) /\ GenTyped /\ Settled(st, {}) /\ queue \in JobBags
      /\ inProgress \in [Paths -> 0..MaxPage]
      /\ Serves(worker[w], st.direct, inProgress)
      /\ Counted(st, Shares, o)
  BY DEF CacheInv, Published, Owned, OwnedInv, Tracked
<1>4. st' = x /\ inProgress' = y.owned /\ Moves(w, rec) BY <1>2 DEF Commit
<1>5. rec.pc = "final" /\ rec.path = p BY <1>1, UnforcedFields
<1> HIDE DEF rec
<1>6. Lists(w, Shares, o) BY <1>1, <1>2, CommitLists DEF At
<1>7. Firm(st) /\ st.acc[p] = None /\ (p = o => st.parent[p] = None)
  BY <1>2, <1>3, OriginHasNoParent DEF Counted, Sound, Settled, Firm, Blank
<1>8. Rested(st, disk, {}) /\ Gathered(st) /\ AskedFor(st, inProgress)
  BY DEF Resting
<1>9. y = Listed(w) /\ x = MaybeComplete(y.s, p) /\ p = Doing(w)
  OBVIOUS
<1>10. /\ x.direct[p] # 0 /\ \A q \in Paths \ {p} : x.direct[q] = st.direct[q]
  <2> HIDE DEF y, x
  <2>1. /\ Counted(y.s, Shares, o) /\ y.s.direct[p] # 0
        /\ \A q \in Paths \ {p} : y.s.direct[q] = st.direct[q]
    <3>1. /\ Upto(Len(Subfolders[p]), y, w, Shares, o) /\ y.s.direct[p] # 0
          /\ \A q \in Paths \ {p} : y.s.direct[q] = st.direct[q]
      BY <1>6, <1>9, ListedCounts
    <3>2. QED BY <3>1 DEF Upto
  <2>2. y.s.acc[p] # None
    <3>1. Collects(Len(Subfolders[p]), y, w, Shares, o, disk)
      BY <1>6, <1>7, <1>8, <1>9, ListedCollects
    <3>2. QED BY <3>1 DEF Collects, Gathers
  <2>3. Passes(y.s, x, Shares)
    BY <1>2, <1>3, <1>9, <2>1, <2>2, MaybeCompletePasses DEF Counted
  <2>4. QED BY <2>1, <2>3 DEF Passes, Hands
<1> HIDE DEF y, x, p
<1>11. Firm(x) /\ Rested(x, disk, {}) /\ Gathered(x) /\ AskedFor(x, y.owned)
  BY <1>6, <1>7, <1>8, <1>9, ListingRests
<1>12. \A v \in Workers : Current(worker'[v], x.direct, generation)
  <2>1. Current(rec, x.direct, generation) BY <1>5, <1>10 DEF Current
  <2>2. \A q \in Paths : st.direct[q] # 0 => x.direct[q] # 0 BY <1>10
  <2>3. QED BY <1>4, <2>1, <2>2, CurrentOn DEF Resting
<1>13. QED BY <1>1, <1>4, <1>11, <1>12, RestedNext

(* A request for the page k. *)
LEMMA RequestForRests ==
  ASSUME HasLocalRoot, NEW o \in Paths, Tracked(o), CacheInv, OwnedInv, Resting,
         NEW k \in Pages, NEW p \in Paths, NEW d, RequestFor(k, p, d)
  PROVE  Resting'
<1>1. PICK t \in EpochsFor(k) : Request(p, t, d) BY DEF RequestFor
<1>2. t \in Epochs BY EpochsForPage DEF CacheInv
<1>3. QED BY <1>1, <1>2, RequestRests

(* A step of the browser tab. *)
LEMMA BrowserRests ==
  ASSUME HasLocalRoot, NEW o \in Paths, Tracked(o), CacheInv, OwnedInv, Resting,
         NEW k \in Pages, Browser(k)
  PROVE  Resting'
<1>1. k \in Paths /\ Tab(client[k], k) /\ DOMAIN client = Pages
  BY BoundsAndPages DEF CacheInv, Browsing
<1>2. ASSUME UNCHANGED cacheVars PROVE Resting'
  BY <1>2, UnchangedRests DEF cacheVars
<1>3. ASSUME NEW p \in Paths, Ask(k, p) PROVE Resting'
  BY <1>2, <1>3, RequestForRests DEF Ask
<1>4. CASE LoadCurrent(k)
  <2>1. CASE Request(k, client[k].time, 0)
    <3>1. client[k].time \in 1..clock BY <1>1, <1>4 DEF LoadCurrent, Tab
    <3>2. client[k].time \in Epochs
      BY <3>1, BoundsAndPages DEF CacheInv, Timed, Epochs
    <3>3. QED BY <1>1, <2>1, <3>2, RequestRests
  <2>2. QED BY <1>2, <1>4, <2>1 DEF LoadCurrent
<1>5. CASE ShowPage(k) BY <1>2, <1>5 DEF ShowPage
<1>6. CASE PollRow(k)
  <2>1. client[k].left \in Seq({k} \cup Kids(k)) /\ client[k].left # <<>>
    BY <1>1, <1>6 DEF PollRow, Tab
  <2>2. Head(client[k].left) \in Kids(k) \cup {k}
    BY <2>1, HeadTailProperties
  <2>3. Head(client[k].left) \in Paths BY <1>1, <2>2, KidIsPath
  <2>4. QED BY <1>2, <1>3, <1>6, <2>3 DEF PollRow
<1>7. CASE PollCurrent(k) BY <1>1, <1>2, <1>3, <1>7 DEF PollCurrent
<1>8. QED BY <1>4, <1>5, <1>6, <1>7 DEF Browser

(* Every step. *)
LEMMA RestStep ==
  ASSUME OneEpoch, HasLocalRoot, CacheInv, ClaimInv, OwnedInv, TallyInv, RestInv, [Next]_vars
  PROVE  RestInv'
<1> SUFFICES ASSUME Paths # {}, mishaps' = 0 PROVE Resting'
  BY DEF RestInv
<1>1. Begins BY DEF TallyInv
<1>2. PICK o \in Paths : Tracked(o) BY DEF TallyInv
<1>3. mishaps \in Nat /\ mishaps' # mishaps + 1 BY <1>1 DEF Begins
<1>4. \A kind : ~Mishap(kind) BY <1>3 DEF Mishap
<1>5. /\ \A w \in Workers : ~ListFails(w) /\ ~JobFails(w)
      /\ \A p \in Paths : ~Prime(p) /\ ~Invalidate(p)
  BY <1>4 DEF ListFails, JobFails, Prime, Invalidate
<1>6. ASSUME mishaps' = mishaps PROVE Resting'
  <2>1. Resting BY <1>6 DEF RestInv
  <2>2. ASSUME NEW w \in Workers, WorkerStep(w) PROVE Resting'
    <3>1. ~SkipStale(w) BY DEF OwnedInv, Serves, SkipStale, At
    <3>2. ~ListSuperseded(w)
      BY <2>1, NoneCalledOff DEF ListSuperseded, At, Listing
    <3>3. CASE Dequeue(w) \/ Claim(w) \/ List(w) \/ Finish(w) \/ FlushEnds(w)
      BY <2>1, <3>3, WorkerMoveRests
    <3>4. CASE SkipDone(w) \/ Commit(w)
      BY <1>2, <2>1, <3>4, SkipDoneRests, CommitRests
    <3>5. QED BY <1>5, <2>2, <3>1, <3>2, <3>3, <3>4 DEF WorkerStep
  <2>3. ASSUME NEW k \in Pages, NEW p \in Paths, EnsureKnown(k, p) PROVE Resting'
    BY <1>2, <2>1, <2>3, RequestForRests DEF EnsureKnown
  <2>4. CASE \E k \in Pages : Browser(k) BY <1>2, <2>1, <2>4, BrowserRests
  <2>5. CASE \E p \in Paths : FlushRecord(p) BY <2>1, <2>5, FlushRecordRests
  <2>6. CASE \E p \in Paths : CoolDown(p)
    BY <2>1, <2>6, UnchangedRests DEF CoolDown
  <2>7. CASE HttpFlushEnds \/ UNCHANGED vars
    BY <2>1, <2>7, UnchangedRests DEF HttpFlushEnds, vars
  <2>8. CASE \E k \in Pages, force \in BOOLEAN : OpenPage(k, force)
    BY <2>1, <2>8, UnchangedRests DEF OpenPage
  <2>9. QED BY <1>5, <2>2, <2>3, <2>4, <2>5, <2>6, <2>7, <2>8 DEF Next
<1>7. mishaps' = mishaps
  <2>1. ASSUME NEW k \in Pages, Browser(k) PROVE mishaps' = mishaps
    BY <2>1 DEF Browser, LoadCurrent, ShowPage, PollRow, PollCurrent, Ask, RequestFor, Request,
                cacheVars
  <2>2. ASSUME NEW w \in Workers, WorkerStep(w) PROVE mishaps' = mishaps
    BY <1>5, <2>2 DEF WorkerStep, Dequeue, Claim, SkipStale, SkipDone, List, ListSuperseded,
                      Commit, Finish, FlushEnds
  <2>3. QED
    BY <1>5, <2>1, <2>2 DEF Next, OpenPage, EnsureKnown, RequestFor, Request, CoolDown,
                            FlushRecord, HttpFlushEnds, vars
<1>8. QED BY <1>6, <1>7

(* It holds initially. *)
LEMMA InitRest == Init => RestInv
<1> SUFFICES ASSUME Init PROVE Resting
  BY DEF RestInv
<1>1. \A p \in Paths : /\ st.acc[p] = None /\ st.direct[p] = 0 /\ Pending(st, p) = {}
                       /\ st.parent[p] = None /\ st.contrib[p] = 0 /\ ~Done(st, p)
  BY DEF Init, Pending, Done
<1>2. Rested(st, disk, {})
  BY <1>1, NoneApart DEF Rested, Waiting, HandedUp, Grown, Written
<1>3. Gathered(st) /\ AskedFor(st, inProgress)
  BY <1>1 DEF Gathered, AskedFor
<1>4. \A w \in Workers : Current(worker[w], st.direct, generation)
  BY DEF Init, Idle, Current
<1>5. QED BY <1>2, <1>3, <1>4 DEF Resting

-----------------------------------------------------------------------------
(* The total of a subtree *)

(* Among folders there is one with no subfolder among them. *)
LEMMA Deepest ==
  ASSUME NEW S, S \subseteq Paths, S # {}
  PROVE  \E p \in S : Kids(p) \cap S = {}
<1> SUFFICES ASSUME \A p \in S : Kids(p) \cap S # {} PROVE FALSE
  OBVIOUS
<1> DEFINE g == [p \in S |-> CHOOSE c \in S : c \in Kids(p)]
<1>1. \A p \in S : g[p] \in S /\ g[p] \in Kids(p)
  OBVIOUS
<1>2. PICK t \in S : \A q \in S : t \notin Kids(q) BY TreeShape
<1> HIDE DEF g
<1>3. \A p, q \in S : g[p] = g[q] => p = q BY <1>1, OneParent
<1>4. g \in Injection(S, S \ {t})
  <2>1. g \in [S -> S \ {t}] BY <1>1, <1>2 DEF g
  <2>2. QED BY <1>3, <2>1 DEF Injection, IsInjective
<1>5. IsFiniteSet(S) BY TreeShape, FS_Subset
<1>6. /\ IsFiniteSet(S \ {t}) /\ Cardinality(S \ {t}) = Cardinality(S) - 1
      /\ Cardinality(S) \in Nat
  BY <1>2, <1>5, FS_RemoveElement, FS_CardinalityType
<1>7. Cardinality(S) <= Cardinality(S \ {t}) BY <1>4, <1>6, FS_Injection
<1>8. QED BY <1>6, <1>7

(* A sum over two sets that have nothing in common. *)
LEMMA SumOfTwo ==
  ASSUME NEW f, NEW S, IsFiniteSet(S), NEW T, IsFiniteSet(T), S \cap T = {},
         \A x \in S \cup T : f[x] \in Int
  PROVE  SumOver(f, S \cup T) = SumOver(f, S) + SumOver(f, T)
<1> DEFINE Splits(U) == SumOver(f, U \cup T) = SumOver(f, U) + SumOver(f, T)
           Bad == {U \in SUBSET S : ~Splits(U)}
<1> SUFFICES ASSUME Bad # {} PROVE FALSE
  <2>1. S \in Bad \/ Splits(S)
    OBVIOUS
  <2>2. QED BY <2>1
<1>1. PICK U \in Bad : \A W \in SUBSET U : W # U => W \notin Bad
  <2>1. Bad \subseteq SUBSET S
    OBVIOUS
  <2> HIDE DEF Bad
  <2>2. QED BY <2>1, SmallestSubset
<1>2. U \subseteq S /\ ~Splits(U) /\ IsFiniteSet(U) BY FS_Subset
<1>3. SumOver(f, T) \in Int BY SumIsInt
<1>4. U # {}
  <2> SUFFICES ASSUME U = {} PROVE Splits(U)
    BY <1>2
  <2>1. SumOver(f, U) = 0 BY <1>2, SumTakes
  <2>2. U \cup T = T
    OBVIOUS
  <2>3. SumOver(f, U \cup T) = SumOver(f, T) BY <2>2
  <2> HIDE DEF Bad
  <2>4. QED BY <1>3, <2>1, <2>3
<1>5. PICK x \in U : TRUE BY <1>4
<1> DEFINE W == U \ {x}
<1>6. W \in SUBSET U /\ W # U /\ W \subseteq S BY <1>2, <1>5
<1>7. Splits(W) BY <1>1, <1>6
<1>8. (U \cup T) \ {x} = W \cup T BY <1>2, <1>5
<1>9. IsFiniteSet(U \cup T) /\ IsFiniteSet(W)
  BY <1>2, <1>6, FS_Union, FS_Subset
<1>10. SumOver(f, U \cup T) = f[x] + SumOver(f, W \cup T)
  BY <1>2, <1>5, <1>8, <1>9, SumWithout
<1>11. SumOver(f, U) = f[x] + SumOver(f, W) BY <1>2, <1>5, SumWithout
<1>12. f[x] \in Int /\ SumOver(f, W) \in Int
  BY <1>2, <1>5, <1>6, <1>9, SumIsInt
<1> HIDE DEF W, Bad
<1>13. Splits(U) BY <1>3, <1>7, <1>10, <1>11, <1>12
<1>14. QED BY <1>2, <1>13

(* A sum over parts, no two of which have anything in common, is the sum of *)
(* theirs. *)
LEMMA SumOfParts ==
  ASSUME NEW f, NEW K, IsFiniteSet(K), NEW B, NEW A, IsFiniteSet(A),
         \A c \in K : B[c] \subseteq A, \A x \in A : f[x] \in Int,
         \A c, e \in K : c # e => B[c] \cap B[e] = {},
         NEW h, \A c \in K : h[c] = SumOver(f, B[c])
  PROVE  SumOver(f, UNION {B[c] : c \in K}) = SumOver(h, K)
<1> DEFINE All(U) == UNION {B[c] : c \in U}
           Splits(U) == SumOver(f, All(U)) = SumOver(h, U)
           Bad == {U \in SUBSET K : ~Splits(U)}
<1> SUFFICES ASSUME Bad # {} PROVE FALSE
  <2>1. K \in Bad \/ Splits(K)
    OBVIOUS
  <2>2. QED BY <2>1
<1>1. PICK U \in Bad : \A W \in SUBSET U : W # U => W \notin Bad
  <2>1. Bad \subseteq SUBSET K
    OBVIOUS
  <2> HIDE DEF Bad
  <2>2. QED BY <2>1, SmallestSubset
<1>2. U \subseteq K /\ ~Splits(U) /\ IsFiniteSet(U) BY FS_Subset
<1>3. U # {}
  <2>1. SumOver(f, {}) = 0 /\ SumOver(h, {}) = 0 BY <1>2, SumTakes
  <2>2. All({}) = {}
    OBVIOUS
  <2>3. QED BY <1>2, <2>1, <2>2
<1>4. PICK e \in U : TRUE BY <1>3
<1> DEFINE W == U \ {e}
<1>5. W \in SUBSET U /\ W # U /\ W \subseteq K /\ e \in K BY <1>2, <1>4
<1>6. Splits(W) BY <1>1, <1>5
<1> HIDE DEF Bad
<1>7. All(U) = B[e] \cup All(W) /\ B[e] \cap All(W) = {}
  <2>1. All(U) = B[e] \cup All(W) BY <1>4
  <2>2. \A c \in W : B[c] \cap B[e] = {} BY <1>5
  <2>3. QED BY <2>1, <2>2
<1>8. B[e] \in SUBSET A /\ All(W) \in SUBSET A BY <1>5
<1>9. IsFiniteSet(B[e]) /\ IsFiniteSet(All(W)) BY <1>8, FS_Subset
<1> HIDE DEF All
<1>10. SumOver(f, All(U)) = SumOver(f, B[e]) + SumOver(f, All(W))
  <2> DEFINE X == B[e]
             Y == All(W)
  <2>1. \A x \in X \cup Y : f[x] \in Int BY <1>8
  <2>2. IsFiniteSet(X) /\ IsFiniteSet(Y) /\ X \cap Y = {} /\ All(U) = X \cup Y
    BY <1>7, <1>9
  <2> HIDE DEF X, Y
  <2>3. SumOver(f, X \cup Y) = SumOver(f, X) + SumOver(f, Y)
    BY <2>1, <2>2, SumOfTwo
  <2>4. QED BY <2>2, <2>3 DEF X, Y
<1>11. \A c \in U : h[c] \in Int
  <2> SUFFICES ASSUME NEW c \in U PROVE h[c] \in Int
    OBVIOUS
  <2>1. c \in K /\ B[c] \in SUBSET A BY <1>2
  <2>2. IsFiniteSet(B[c]) BY <2>1, FS_Subset
  <2>3. \A x \in B[c] : f[x] \in Int BY <2>1
  <2>4. SumOver(f, B[c]) \in Int BY <2>2, <2>3, SumIsInt
  <2>5. QED BY <2>1, <2>4
<1>12. SumOver(h, U) = h[e] + SumOver(h, W) BY <1>2, <1>4, <1>11, SumWithout
<1>13. Splits(U) BY <1>5, <1>6, <1>10, <1>12
<1>14. QED BY <1>2, <1>13

(* The folders of a way up. *)
LEMMA OnLineage ==
  ASSUME NEW q \in Paths, NEW c
  PROVE  c \in ToSet(Lineage[q]) <=> \E i \in 1..Len(Lineage[q]) : c = Lineage[q][i]
<1> DEFINE L == Lineage[q]
<1>1. L \in Seq(Paths) BY LineageIsChain DEF Chain
<1> HIDE DEF L
<1>2. DOMAIN L = 1..Len(L) BY <1>1, LenProperties
<1>3. c \in ToSet(L) <=> \E i \in 1..Len(L) : c = L[i] BY <1>2 DEF ToSet
<1>4. QED BY <1>3 DEF L

(* What is below a folder is the folder and what is below its subfolders. *)
LEMMA BelowParts ==
  ASSUME NEW p \in Paths
  PROVE  /\ Below(p) = {p} \cup UNION {Below(c) : c \in Kids(p)}
         /\ \A c \in Kids(p) : p \notin Below(c) /\ Below(c) \subseteq Paths
         /\ \A c, e \in Kids(p) : c # e => Below(c) \cap Below(e) = {}
<1>1. ASSUME NEW q \in Paths
      PROVE  LET L == Lineage[q]
             IN  /\ L \in Seq(Paths) /\ Len(L) \in Nat /\ Len(L) >= 1 /\ DOMAIN L = 1..Len(L)
                 /\ L[1] = q /\ \A i \in 1..(Len(L) - 1) : L[i] \in Kids(L[i + 1])
                 /\ \A r \in Paths : L[Len(L)] \notin Kids(r)
                 /\ ToSet(L) = {L[i] : i \in 1..Len(L)}
  BY LineageIsChain, LenProperties DEF Chain, ToSet
<1>2. Kids(p) \subseteq Paths BY KidIsPath
<1>3. p \in Below(p) BY <1>1 DEF Below
<1>4. ASSUME NEW q \in Paths, NEW c \in Kids(p), NEW i \in 1..Len(Lineage[q]), c = Lineage[q][i]
      PROVE  i + 1 \in 1..Len(Lineage[q]) /\ Lineage[q][i + 1] = p
  <2> DEFINE L == Lineage[q]
  <2>1. /\ L \in Seq(Paths) /\ Len(L) \in Nat
        /\ \A j \in 1..(Len(L) - 1) : L[j] \in Kids(L[j + 1])
        /\ \A r \in Paths : L[Len(L)] \notin Kids(r)
    BY <1>1
  <2>2. i \in 1..Len(L) /\ c = L[i] BY <1>4
  <2> HIDE DEF L
  <2>3. i # Len(L) BY <2>1, <2>2
  <2>4. i \in 1..(Len(L) - 1) /\ i + 1 \in 1..Len(L) BY <2>1, <2>2, <2>3
  <2>5. c \in Kids(L[i + 1]) /\ L[i + 1] \in Paths
    BY <2>1, <2>2, <2>4, ElementOfSeq
  <2>6. L[i + 1] = p BY <2>5, OneParent
  <2>7. QED BY <2>4, <2>6 DEF L
<1>5. \A c \in Kids(p) : Below(c) \subseteq Below(p)
  <2> SUFFICES ASSUME NEW c \in Kids(p), NEW q \in Below(c) PROVE q \in Below(p)
    OBVIOUS
  <2>1. q \in Paths /\ c \in ToSet(Lineage[q]) BY DEF Below
  <2>2. PICK i \in 1..Len(Lineage[q]) : c = Lineage[q][i] BY <2>1, OnLineage
  <2>3. i + 1 \in 1..Len(Lineage[q]) /\ Lineage[q][i + 1] = p
    BY <1>4, <2>1, <2>2
  <2>4. QED BY <2>1, <2>3, OnLineage DEF Below
<1>6. ASSUME NEW q \in Below(p), q # p PROVE \E c \in Kids(p) : q \in Below(c)
  <2> DEFINE L == Lineage[q]
  <2>1. q \in Paths /\ p \in ToSet(L) BY DEF Below
  <2>2. /\ L \in Seq(Paths) /\ Len(L) \in Nat /\ L[1] = q
        /\ \A j \in 1..(Len(L) - 1) : L[j] \in Kids(L[j + 1])
        /\ ToSet(L) = {L[j] : j \in 1..Len(L)}
    BY <1>1, <2>1
  <2> HIDE DEF L
  <2>3. PICK i \in 1..Len(L) : p = L[i] BY <2>1, <2>2
  <2>4. i # 1 BY <1>6, <2>2, <2>3
  <2>5. i - 1 \in 1..(Len(L) - 1) /\ i - 1 \in 1..Len(L) /\ (i - 1) + 1 = i
    BY <2>2, <2>3, <2>4
  <2>6. L[i - 1] \in Kids(p) BY <2>2, <2>3, <2>5
  <2>7. L[i - 1] \in ToSet(L) BY <2>2, <2>5
  <2>8. q \in Below(L[i - 1]) BY <2>1, <2>7 DEF Below, L
  <2>9. QED BY <2>6, <2>8
<1>7. Below(p) = {p} \cup UNION {Below(c) : c \in Kids(p)}
  BY <1>3, <1>5, <1>6
<1>8. ASSUME NEW c \in Kids(p) PROVE p \notin Below(c) /\ Below(c) \subseteq Paths
  <2> SUFFICES ASSUME p \in Below(c) PROVE FALSE
    BY DEF Below
  <2>1. PICK i \in 1..Len(Lineage[p]) : c = Lineage[p][i]
    BY OnLineage DEF Below
  <2>2. QED BY <2>1, LineageLeaves
<1>9. ASSUME NEW c \in Kids(p), NEW e \in Kids(p), c # e PROVE Below(c) \cap Below(e) = {}
  <2> SUFFICES ASSUME NEW q \in Below(c), q \in Below(e) PROVE FALSE
    OBVIOUS
  <2>1. q \in Paths BY DEF Below
  <2>2. PICK i \in 1..Len(Lineage[q]) : c = Lineage[q][i]
    BY <2>1, OnLineage DEF Below
  <2>3. PICK j \in 1..Len(Lineage[q]) : e = Lineage[q][j]
    BY <2>1, OnLineage DEF Below
  <2>4. /\ i + 1 \in 1..Len(Lineage[q]) /\ Lineage[q][i + 1] = p
        /\ j + 1 \in 1..Len(Lineage[q]) /\ Lineage[q][j + 1] = p
    BY <1>4, <2>1, <2>2, <2>3
  <2>5. i + 1 = j + 1
    <3>1. ~(i + 1 < j + 1) /\ ~(j + 1 < i + 1) BY <2>1, <2>4, LineageOnce
    <3>2. QED BY <3>1
  <2>6. i = j BY <2>5
  <2>7. QED BY <1>9, <2>2, <2>3, <2>6
<1>10. QED BY <1>7, <1>8, <1>9

(* The total of a subtree is the folder's own files and its subfolders' *)
(* subtrees. *)
LEMMA TrueTotalSplits ==
  ASSUME NEW p \in Paths
  PROVE  TrueTotal[p] = DirectTotal[p] + SumOver(TrueTotal, Kids(p))
<1> DEFINE K == Kids(p)
           B == [c \in K |-> Below(c)]
           All == UNION {Below(c) : c \in K}
<1>1. /\ Below(p) = {p} \cup All
      /\ \A c \in K : p \notin Below(c) /\ Below(c) \subseteq Paths
      /\ \A c, e \in K : c # e => Below(c) \cap Below(e) = {}
  BY BelowParts
<1>2. K \in SUBSET Paths /\ All \in SUBSET Paths /\ Below(p) \subseteq Paths
  BY <1>1, KidIsPath DEF Below
<1>3. IsFiniteSet(Paths) /\ IsFiniteSet(K) /\ IsFiniteSet(All) /\ IsFiniteSet(Below(p))
  BY <1>2, TreeShape, FS_Subset
<1>4. \A q \in Paths : DirectTotal[q] \in Int /\ TrueTotal[q] = SumOver(DirectTotal, Below(q))
  BY TotalsPositive DEF TrueTotal
<1>5. p \notin All /\ UNION {B[c] : c \in K} = All
  <2>1. p \notin All BY <1>1
  <2>2. \A c \in K : B[c] = Below(c)
    OBVIOUS
  <2> HIDE DEF B
  <2>3. {B[c] : c \in K} = {Below(c) : c \in K} BY <2>2
  <2>4. QED BY <2>1, <2>3
<1> HIDE DEF All
<1>6. SumOver(DirectTotal, Below(p)) = DirectTotal[p] + SumOver(DirectTotal, All)
  <2>1. (Below(p)) \ {p} = All /\ p \in Below(p) BY <1>1, <1>5
  <2>2. \A x \in Below(p) : DirectTotal[x] \in Int BY <1>2, <1>4
  <2>3. QED BY <1>3, <2>1, <2>2, SumWithout
<1>7. SumOver(DirectTotal, UNION {B[c] : c \in K}) = SumOver(TrueTotal, K)
  <2>1. \A c \in K : B[c] \subseteq Paths /\ TrueTotal[c] = SumOver(DirectTotal, B[c])
    BY <1>1, <1>2, <1>4
  <2>2. \A c, e \in K : c # e => B[c] \cap B[e] = {} BY <1>1
  <2>3. \A x \in Paths : DirectTotal[x] \in Int BY <1>4
  <2> HIDE DEF B, K
  <2>4. QED BY <1>3, <2>1, <2>2, <2>3, SumOfParts
<1>8. QED BY <1>4, <1>5, <1>6, <1>7

(* Nothing is owned at rest, so that every subfolder of a listed folder was *)
(* listed; and a folder that waits for one would wait without an end. *)
LEMMA RestIsDone ==
  ASSUME CacheInv, OwnedInv, Resting, Calm
  PROVE  AllDone(st)
<1>1. \A p \in Paths : inProgress[p] = 0
  <2>1. DOMAIN queue = {} BY DEF Calm, EmptyBag, SetToBag
  <2>2. \A w \in Workers : worker[w].pc = "idle" BY DEF Calm, At
  <2>3. \A p \in Paths : ~HasWork(p) BY <2>1, <2>2 DEF HasWork
  <2>4. QED BY <2>3 DEF OwnedInv, OwnedHasWork
<1>2. \A p \in Paths : st.direct[p] # 0 => st.acc[p] # None
  BY DEF OwnedInv, Settled
<1>3. \A p \in Paths : st.direct[p] # 0 =>
        \A c \in Kids(p) : c \in Paths /\ st.parent[c] = p /\ st.direct[c] # 0
  BY <1>1, KidIsPath, NoneApart DEF Resting, Gathered, AskedFor
<1> DEFINE S == {p \in Paths : st.direct[p] # 0 /\ Pending(st, p) # {}}
<1>4. S = {}
  <2> SUFFICES ASSUME S # {} PROVE FALSE
    OBVIOUS
  <2>1. S \subseteq Paths
    OBVIOUS
  <2>2. \E p \in S : Kids(p) \cap S = {}
    <3> HIDE DEF S
    <3>1. QED BY <2>1, Deepest
  <2>3. PICK p \in S : Kids(p) \cap S = {} BY <2>2
  <2>4. PICK c \in Pending(st, p) : TRUE BY <2>3
  <2>5. c \in Kids(p) /\ c \in Paths
    BY <2>3, <2>4, KidIsPath DEF CacheInv, Published, Linked
  <2>6. ~Done(st, c) BY <2>3, <2>4, <2>5 DEF Resting, Rested, Waiting
  <2>7. c \in S BY <1>3, <2>3, <2>5, <2>6 DEF Done
  <2>8. QED BY <2>3, <2>5, <2>7
<1>5. \A p \in Paths : st.direct[p] # 0 => Done(st, p) BY <1>4 DEF Done
<1>6. \A c \in Paths : st.direct[c] # 0 /\ st.parent[c] # None => st.contrib[c] = st.acc[c].total
  BY <1>5 DEF Resting, Rested, HandedUp
<1>7. QED BY <1>2, <1>3, <1>5, <1>6, NoneApart DEF AllDone, Done

(* Then every total is the subtree's. *)
LEMMA DoneIsExact ==
  ASSUME CacheInv, NEW V, Tallied(st, V), \A p \in Paths : V[p] = {DirectTotal[p]}, AllDone(st)
  PROVE  \A p \in Paths : st.direct[p] # 0 => st.acc[p].total = TrueTotal[p]
<1> DEFINE S == {p \in Paths : st.direct[p] # 0 /\ st.acc[p].total # TrueTotal[p]}
<1> SUFFICES ASSUME S # {} PROVE FALSE
  OBVIOUS
<1>1. Linked(st) /\ st \in StateSet BY DEF CacheInv, Published, Linked
<1>2. \E p \in S : Kids(p) \cap S = {}
  <2>1. S \subseteq Paths
    OBVIOUS
  <2> HIDE DEF S
  <2>2. QED BY <2>1, Deepest
<1>3. PICK p \in S : Kids(p) \cap S = {} BY <1>2
<1>4. p \in Paths /\ st.direct[p] # 0 /\ st.acc[p].total # TrueTotal[p]
  OBVIOUS
<1>5. \A c \in Kids(p) : c \in Paths /\ st.contrib[c] = TrueTotal[c]
  BY <1>3, <1>4, KidIsPath DEF AllDone
<1> HIDE DEF S
<1>6. Attached(st, p) = Kids(p)
  BY <1>1, <1>4, KidIsPath, NoneApart DEF Attached, AllDone, Linked
<1>7. IsFiniteSet(Kids(p)) /\ Kids(p) \in SUBSET Paths
  BY <1>4, KidIsPath, TreeShape, FS_Subset
<1>8. SumOver(st.contrib, Kids(p)) = SumOver(TrueTotal, Kids(p))
  BY <1>5, <1>7, SumSame
<1>9. SumOver(st.contrib, Kids(p)) \in Int
  <2>1. \A c \in Kids(p) : st.contrib[c] \in Int BY <1>1, <1>7 DEF StateSet
  <2>2. QED BY <1>7, <2>1, SumIsInt
<1>10. st.acc[p] # None /\ st.acc[p].total \in Int /\ DirectTotal[p] \in Int
  BY <1>1, <1>4, TotalsPositive DEF AllDone, StateSet, Acc
<1>11. st.acc[p].total - SumOver(st.contrib, Kids(p)) = DirectTotal[p]
  BY <1>4, <1>6, <1>10 DEF Tallied
<1>12. TrueTotal[p] = DirectTotal[p] + SumOver(TrueTotal, Kids(p))
  BY <1>4, TrueTotalSplits
<1>13. QED BY <1>4, <1>8, <1>9, <1>10, <1>11, <1>12

(* At rest, with no failure on the way, every folder that was listed is on *)
(* disk as complete, with the total of its whole subtree: for every tree, *)
(* however many workers there are and in whatever order they finish, while one *)
(* page is shown, with a local root. *)
THEOREM RestTotalsAreExact ==
  ASSUME OneEpoch, HasLocalRoot
  PROVE  Spec => []RestIsExact
<1>1. CacheInv /\ ClaimInv /\ OwnedInv /\ TallyInv /\ [Next]_vars => TallyInv'
  BY TallyStep
<1>2. CacheInv /\ ClaimInv /\ OwnedInv /\ [Next]_vars => OwnedInv'
  BY OwnedStep
<1>3. CacheInv /\ ClaimInv /\ OwnedInv /\ TallyInv /\ RestInv /\ [Next]_vars => RestInv'
  BY RestStep
<1>4. CacheInv /\ OwnedInv /\ TallyInv /\ RestInv => RestIsExact
  <2> SUFFICES ASSUME CacheInv, OwnedInv, TallyInv, RestInv, Calm, mishaps = 0,
                      NEW p \in Paths, st.direct[p] # 0
               PROVE  Complete(p) /\ disk[p].total = TrueTotal[p]
    BY DEF RestIsExact
  <2>1. Resting BY DEF RestInv
  <2>2. AllDone(st) BY <2>1, RestIsDone
  <2>3. PICK o \in Paths : Tracked(o) BY DEF TallyInv
  <2>4. Tallied(st, Shares) /\ \A q \in Paths : Shares[q] = {DirectTotal[q]}
    BY <2>3 DEF Tracked, Counted, Sound, Shares
  <2>5. st.acc[p].total = TrueTotal[p] BY <2>2, <2>4, DoneIsExact
  <2>6. Done(st, p) BY <2>2 DEF AllDone, Done
  <2>7. Recorded(st, disk, p) BY <2>1, <2>6 DEF Resting, Rested, Written
  <2>8. st.dirty[p] = None BY DEF Calm, AllWritten
  <2>9. Tells(disk[p]) /\ disk[p].total = st.acc[p].total
    BY <2>7, <2>8, NoneApart DEF Recorded
  <2>10. QED BY <2>5, <2>9 DEF Tells, Complete
<1>5. QED
  BY <1>1, <1>2, <1>3, <1>4, InitRest, InitTally, InitOwned, CacheInvHolds, ClaimsHold, PTL DEF Spec
=============================================================================
