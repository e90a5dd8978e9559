----------------------------- MODULE PhotoThumbs -----------------------------
(***************************************************************************)
(* The thumbnails of the Photo Map: the scheduler that serves the demand   *)
(* of the visible pins and of an open group (photo-map/thumbnails.js), and *)
(* the host's store of what is ready (photo-map/thumbnail-store.js,        *)
(* photo-map.js).                                                          *)
(*                                                                         *)
(* The demand changes with every pan, zoom and popup.  A request that is   *)
(* no longer wanted is aborted and forgotten at once, but it holds its     *)
(* slot until its abort has settled; a request a more urgent one displaces *)
(* is aborted, and goes back to the queue when it settles.                 *)
(***************************************************************************)
EXTENDS Integers, FiniteSets, Functions

CONSTANTS Paths,
          Slots,       \* PHOTO_MAP_THUMBNAIL_CONCURRENCY
          Group, Pin,  \* the priority of a cell of the open group, of a visible pin
          MaxDemand    \* bound: the changes of the demand

\* what MCParts assumes of the constants
ThumbsAssumption == /\ IsFiniteSet(Paths)
                    /\ Slots \in Nat \ {0} /\ MaxDemand \in Nat
                    /\ Group \in Int /\ Pin \in Int /\ Group < Pin

Priorities == {Group, Pin}
Demands == UNION {[P -> Priorities] : P \in SUBSET Paths}
NoDemand == [p \in {} |-> Pin]

VARIABLES queue,   \* [desired, pending, active, loose, running]
          known,   \* [cache, failed]: the answers of the scheduler
          shown,   \* the state of each path in the host's store
          emitted, \* the last state the scheduler reported of each path
          on,      \* the generation is current
          changes  \* the changes of the demand so far

vars == <<queue, known, shown, emitted, on, changes>>

States == {"idle", "loading", "ready", "error"}

\* record.preempted of an active request
Requests == UNION {[P -> [priority : Priorities, preempted : BOOLEAN]] : P \in SUBSET Paths}

Init == /\ queue = [desired |-> NoDemand, pending |-> NoDemand, active |-> NoDemand,
                    loose |-> 0, running |-> 0]
        /\ known = [cache |-> {}, failed |-> {}]
        /\ shown = [p \in Paths |-> "idle"]
        /\ emitted = [p \in Paths |-> "idle"]
        /\ on = FALSE
        /\ changes = 0

-----------------------------------------------------------------------------
Minus(f, P) == Restrict(f, DOMAIN f \ P)
Plus(f, P, v) == [x \in DOMAIN f \cup P |-> IF x \in P THEN v ELSE f[x]]

Answered == known.cache \cup known.failed
Least(a, b) == IF a < b THEN a ELSE b

\* pump(): the most urgent requests that wait take the free slots
Chosen(q) ==
    {P \in SUBSET DOMAIN q.pending :
        /\ Cardinality(P) = Least(Slots - q.running, Cardinality(DOMAIN q.pending))
        /\ \A p \in P, r \in DOMAIN q.pending \ P : q.pending[p] <= q.pending[r]}

Started(q, P) ==
    [q EXCEPT !.pending = Minus(@, P), !.running = @ + Cardinality(P),
              !.active = [p \in DOMAIN @ \cup P |->
                            IF p \in P THEN [priority |-> q.pending[p], preempted |-> FALSE] ELSE @[p]]]

\* emitState: a ready thumbnail does not fall back, a state is not reported twice
Reported(P, state) ==
    {p \in P : /\ emitted[p] # state
               /\ ~(emitted[p] = "ready" /\ state \in {"idle", "loading"})}

\* the store refuses the same fall back on its own
Stored(p, state) == IF shown[p] = "ready" /\ state \in {"idle", "loading"} THEN "ready" ELSE state

\* the reports of one step: each path has at most one
Report(idle, loading, ready, error) ==
    LET said == [p \in Paths |-> CASE p \in Reported(idle, "idle") -> "idle"
                                   [] p \in Reported(loading, "loading") -> "loading"
                                   [] p \in Reported(ready, "ready") -> "ready"
                                   [] p \in Reported(error, "error") -> "error"
                                   [] OTHER -> "none"]
    IN /\ emitted' = [p \in Paths |-> IF said[p] = "none" THEN emitted[p] ELSE said[p]]
       /\ shown' = [p \in Paths |-> IF said[p] = "none" THEN shown[p] ELSE Stored(p, said[p])]

-----------------------------------------------------------------------------
(* A change of the demand *)

\* removeUndesired
Abandoned(q) ==
    LET gone == DOMAIN q.active \ DOMAIN q.desired
    IN [q EXCEPT !.active = Minus(@, gone), !.loose = @ + Cardinality(gone),
                 !.pending = Restrict(@, DOMAIN @ \cap DOMAIN q.desired)]

\* a request under way is promoted, what has no answer and no request is queued
Wanted(q) ==
    [q EXCEPT !.active = [p \in DOMAIN @ |-> [priority |-> Least(@[p].priority, q.desired[p]),
                                              preempted |-> @[p].preempted]],
              !.pending = [p \in DOMAIN q.desired \ (Answered \cup DOMAIN q.active) |-> q.desired[p]]]

\* Slip: nothing makes room for a more urgent request
NonePreempted(q) == q

\* preemptLowerPriorityActive
Preempted(q) ==
    [q EXCEPT !.active = [p \in DOMAIN @ |->
        [priority |-> @[p].priority,
         preempted |-> @[p].preempted \/ \E r \in DOMAIN q.pending : q.pending[r] < @[p].priority]]]

\* update(), for a demand other than the present one
Update(demand) ==
    /\ on /\ demand # queue.desired
    /\ changes < MaxDemand
    /\ LET q == Preempted(Wanted(Abandoned([queue EXCEPT !.desired = demand])))
           gone == (DOMAIN queue.active \cup DOMAIN queue.pending) \ DOMAIN demand
           put == {p \in DOMAIN q.active : q.active[p].preempted /\ ~queue.active[p].preempted}
       IN \E P \in Chosen(q) : /\ queue' = Started(q, P)
                               /\ Report(gone \cup put, P, DOMAIN demand \cap known.cache, {})
    /\ changes' = changes + 1
    /\ UNCHANGED <<known, on>>

-----------------------------------------------------------------------------
(* Answers *)

\* Slip: a displaced request is forgotten when it has settled
PreemptedIsLost(p) ==
    /\ p \in DOMAIN queue.active /\ queue.active[p].preempted
    /\ LET q == [queue EXCEPT !.active = Minus(@, {p}), !.running = @ - 1]
       IN \E P \in Chosen(q) : queue' = Started(q, P) /\ Report({}, P, {}, {})
    /\ UNCHANGED <<known, on, changes>>

\* a displaced request has settled: it waits again
PreemptedSettles(p) ==
    /\ p \in DOMAIN queue.active /\ queue.active[p].preempted
    /\ LET q == [queue EXCEPT !.active = Minus(@, {p}), !.running = @ - 1,
                              !.pending = Plus(@, {p}, queue.desired[p])]
       IN \E P \in Chosen(q) : queue' = Started(q, P) /\ Report({}, P, {}, {})
    /\ UNCHANGED <<known, on, changes>>

\* an abandoned request has settled: only its slot is left of it
LooseSettles ==
    /\ queue.loose > 0
    /\ LET q == [queue EXCEPT !.loose = @ - 1, !.running = @ - 1]
       IN \E P \in Chosen(q) : queue' = Started(q, P) /\ Report({}, P, {}, {})
    /\ UNCHANGED <<known, on, changes>>

Loads(p) ==
    /\ p \in DOMAIN queue.active /\ ~queue.active[p].preempted
    /\ known' = [known EXCEPT !.cache = @ \cup {p}]
    /\ LET q == [queue EXCEPT !.active = Minus(@, {p}), !.running = @ - 1]
       IN \E P \in Chosen(q) :
            /\ queue' = Started(q, P)
            \* onResult stores the URL whether or not the state was reported
            /\ emitted' = [r \in Paths |-> IF r \in Reported({p}, "ready") THEN "ready"
                                           ELSE IF r \in Reported(P, "loading") THEN "loading" ELSE emitted[r]]
            /\ shown' = [r \in Paths |-> IF r = p THEN "ready"
                                         ELSE IF r \in Reported(P, "loading") THEN Stored(r, "loading") ELSE shown[r]]
    /\ UNCHANGED <<on, changes>>

Errs(p) ==
    /\ p \in DOMAIN queue.active /\ ~queue.active[p].preempted
    /\ known' = [known EXCEPT !.failed = @ \cup {p}]
    /\ LET q == [queue EXCEPT !.active = Minus(@, {p}), !.running = @ - 1]
       IN \E P \in Chosen(q) : queue' = Started(q, P) /\ Report({}, P, {}, {p})
    /\ UNCHANGED <<on, changes>>

\* cancelGeneration: the scheduler is reset while the generation is not current,
\* so that nothing is reported, and the store is cleared
Generation(open) ==
    /\ on \/ open
    /\ changes < MaxDemand
    /\ queue' = [queue EXCEPT !.desired = NoDemand, !.pending = NoDemand, !.active = NoDemand,
                              !.loose = @ + Cardinality(DOMAIN queue.active)]
    /\ known' = [cache |-> {}, failed |-> {}]
    /\ shown' = [p \in Paths |-> "idle"]
    /\ on' = open
    /\ changes' = changes + 1
    /\ UNCHANGED emitted

Settles == \/ LooseSettles
           \/ \E p \in Paths : PreemptedSettles(p) \/ Loads(p) \/ Errs(p)

Next == \/ \E demand \in Demands : Update(demand)
        \/ \E open \in BOOLEAN : Generation(open)
        \/ Settles

Spec == Init /\ [][Next]_vars

\* an image request ends, in one way or another; nobody has to pan the map
FairSpec == Spec /\ WF_vars(Settles)

-----------------------------------------------------------------------------
TypeOK ==
    /\ queue.desired \in Demands /\ queue.pending \in Demands /\ queue.active \in Requests
    /\ queue.loose \in 0 .. Slots /\ queue.running \in 0 .. Slots
    /\ known.cache \subseteq Paths /\ known.failed \subseteq Paths
    /\ shown \in [Paths -> States] /\ emitted \in [Paths -> States]
    /\ on \in BOOLEAN /\ changes \in 0 .. MaxDemand

\* Every thumbnail in demand has its answer, a request under way or a place in the
\* queue: nothing else would ask for it again, because a demand that does not
\* change is not looked at (thumbnails.js update, sameDemand).  And a request that
\* waits finds every slot taken by one whose end will start it, the slots of the
\* aborted requests included.
DemandIsServed ==
    /\ DOMAIN queue.desired = (DOMAIN queue.desired \cap Answered)
                              \cup DOMAIN queue.pending \cup DOMAIN queue.active
    /\ queue.running = queue.loose + Cardinality(DOMAIN queue.active)
    /\ DOMAIN queue.pending # {} => queue.running = Slots

\* The cells of the open group come first: no request runs on while a more urgent
\* one waits, through promotions, preemptions and requeues (thumbnails.js
\* preemptLowerPriorityActive).
UrgentIsFirst ==
    \A p \in DOMAIN queue.active, r \in DOMAIN queue.pending :
        queue.active[p].preempted \/ queue.active[p].priority <= queue.pending[r]

\* What the scheduler will not load again is what the host can show: the
\* scheduler's cache and the host's store are cleared together, and the suppressed
\* reports of an older generation do not hide a thumbnail (photo-map.js
\* applyThumbnailResult).
LoadedIsShown == \A p \in Paths : p \in known.cache <=> shown[p] = "ready"

\* The demand is met: what stays in demand has its answer in the end.
InDemand(p) == p \in DOMAIN queue.desired
DemandEnds == \A p \in Paths : InDemand(p) ~> (~InDemand(p) \/ p \in Answered)

\* What keeps the three: a path in demand is in one place only.
OnePlace ==
    /\ DOMAIN queue.pending \cap DOMAIN queue.active = {}
    /\ (DOMAIN queue.pending \cup DOMAIN queue.active) \cap Answered = {}

Records ==
    /\ DOMAIN queue = {"desired", "pending", "active", "loose", "running"}
    /\ DOMAIN known = {"cache", "failed"}

IInv == TypeOK /\ Records /\ DemandIsServed /\ UrgentIsFirst /\ LoadedIsShown /\ OnePlace
=============================================================================
