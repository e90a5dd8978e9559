-------------------------- MODULE PhotoThumbsProofs --------------------------
(****************************************************************************)
(* Proofs about PhotoThumbs, for every finite set of photos, any number of  *)
(* slots and any sequence of demands.                                       *)
(*                                                                          *)
(* The argument: a path in demand is in exactly one place, so that what     *)
(* leaves the requests under way goes back to the queue, gets an answer or  *)
(* is not wanted any more; the slots taken are the requests under way and   *)
(* the aborted ones that have not ended; and the queue is emptied into the  *)
(* free slots, the most urgent first, before a step ends.                   *)
(****************************************************************************)
EXTENDS PhotoThumbs, FiniteSetTheorems, TLAPS

(* What the lemmas below need of cardinalities, of two sets                  *)
LEMMA ThumbsCount ==
  ASSUME NEW S, NEW T, IsFiniteSet(S), IsFiniteSet(T)
  PROVE  /\ Cardinality(S) \in Nat
         /\ S \cap T = {} => Cardinality(S \cup T) = Cardinality(S) + Cardinality(T)
         /\ T \subseteq S => Cardinality(S \ T) = Cardinality(S) - Cardinality(T)
         /\ T \subseteq S => Cardinality(T) <= Cardinality(S)
         /\ T \subseteq S /\ Cardinality(T) = Cardinality(S) => T = S
         /\ Cardinality(S) = 0 <=> S = {}
<1>1. Cardinality(S) \in Nat /\ Cardinality(T) \in Nat BY FS_CardinalityType
<1>2. Cardinality({}) = 0 /\ (Cardinality(S) = 0 <=> S = {}) BY FS_EmptySet
<1>3. Cardinality(S \cup T) = Cardinality(S) + Cardinality(T) - Cardinality(S \cap T) BY FS_Union
<1>4. Cardinality(S \ T) = Cardinality(S) - Cardinality(S \cap T) BY FS_Difference
<1>5. T \subseteq S => S \cap T = T OBVIOUS
<1>6. T \subseteq S => Cardinality(T) <= Cardinality(S) /\ (Cardinality(T) = Cardinality(S) => T = S)
  BY FS_Subset
<1>8. S \cap T = {} => Cardinality(S \cup T) = Cardinality(S) + Cardinality(T)
  <2> HAVE S \cap T = {}
  <2>1. Cardinality(S \cap T) = 0 BY <1>2
  <2>2. QED BY <1>1, <1>3, <2>1
<1>9. T \subseteq S => Cardinality(S \ T) = Cardinality(S) - Cardinality(T)
  <2> HAVE T \subseteq S
  <2>1. Cardinality(S \cap T) = Cardinality(T) BY <1>5
  <2>2. QED BY <1>4, <2>1
<1>10. QED BY <1>1, <1>2, <1>6, <1>8, <1>9

(* and of one,                                                               *)
LEMMA ThumbsNat ==
  ASSUME NEW S, IsFiniteSet(S)
  PROVE  Cardinality(S) \in Nat /\ (Cardinality(S) = 0 <=> S = {})
  BY ThumbsCount

(* and every set of paths is finite.                                         *)
LEMMA ThumbsFinite ==
  ASSUME ThumbsAssumption, NEW S, S \subseteq Paths
  PROVE  IsFiniteSet(S)
  BY FS_Subset DEF ThumbsAssumption

-----------------------------------------------------------------------------
(* A function from some paths to C.                                         *)
From(f, C) == /\ f \in [DOMAIN f -> C] /\ DOMAIN f \subseteq Paths
(* What is asked for one of them.                                            *)
Asked == [priority : Priorities, preempted : BOOLEAN]

(* The types of the model in these words.                                    *)
LEMMA ThumbsTypes == /\ \A f : f \in Demands <=> From(f, Priorities)
                     /\ \A f : f \in Requests <=> From(f, Asked)
  BY DEF Demands, Requests, From, Asked

(* A queue before its free slots are taken; A are the answered paths.       *)
Ready(q, A) ==
  /\ DOMAIN q = {"desired", "pending", "active", "loose", "running"}
  /\ From(q.desired, Priorities) /\ From(q.pending, Priorities) /\ From(q.active, Asked)
  /\ q.loose \in Nat /\ q.running \in 0..Slots
  /\ q.running = q.loose + Cardinality(DOMAIN q.active)
  /\ DOMAIN q.desired = (DOMAIN q.desired \cap A) \cup DOMAIN q.pending \cup DOMAIN q.active
  /\ DOMAIN q.pending \cap DOMAIN q.active = {}
  /\ (DOMAIN q.pending \cup DOMAIN q.active) \cap A = {}

(* No request that will go on waiting is more urgent than one under way.    *)
Urgent(q, P) ==
  \A p \in DOMAIN q.active, r \in DOMAIN q.pending \ P :
    q.active[p].preempted \/ q.active[p].priority <= q.pending[r]

(* The free slots are taken by the most urgent: the queue is as before,      *)
(* nothing waits beside a free slot, and the most urgent are under way.      *)
LEMMA ThumbsPump ==
  ASSUME ThumbsAssumption, NEW q, NEW A, Ready(q, A), NEW P \in Chosen(q), Urgent(q, P)
  PROVE  /\ Ready(Started(q, P), A) /\ Urgent(Started(q, P), {})
         /\ DOMAIN Started(q, P).pending # {} => Started(q, P).running = Slots
         /\ P \subseteq DOMAIN q.pending
<1> DEFINE s == Started(q, P)
           began == [p \in DOMAIN q.active \cup P |->
                       IF p \in P THEN [priority |-> q.pending[p], preempted |-> FALSE] ELSE q.active[p]]
<1>1. /\ P \subseteq DOMAIN q.pending
      /\ Cardinality(P) = Least(Slots - q.running, Cardinality(DOMAIN q.pending))
      /\ \A p \in P, r \in DOMAIN q.pending \ P : q.pending[p] <= q.pending[r]
  BY DEF Chosen
<1>2. /\ s.desired = q.desired /\ s.loose = q.loose /\ s.running = q.running + Cardinality(P)
      /\ s.pending = Minus(q.pending, P) /\ s.active = began /\ DOMAIN s = DOMAIN q
  BY DEF Started, Ready
<1>3. /\ DOMAIN s.pending = DOMAIN q.pending \ P
      /\ \A r \in DOMAIN q.pending \ P : s.pending[r] = q.pending[r]
      /\ From(s.pending, Priorities)
  BY <1>2 DEF Minus, Restrict, Ready, From
<1>4. /\ DOMAIN s.active = DOMAIN q.active \cup P
      /\ \A p \in P : s.active[p].priority = q.pending[p]
      /\ \A p \in DOMAIN q.active : s.active[p] = q.active[p]
      /\ From(s.active, Asked)
  BY <1>1, <1>2 DEF Ready, From, Asked
<1>5. /\ IsFiniteSet(P) /\ IsFiniteSet(DOMAIN q.pending) /\ IsFiniteSet(DOMAIN q.active)
  BY <1>1, ThumbsFinite DEF Ready, From
<1>6. /\ Cardinality(P) \in Nat /\ Cardinality(DOMAIN q.pending) \in Nat
      /\ Cardinality(DOMAIN q.active) \in Nat
      /\ Cardinality(P) = Cardinality(DOMAIN q.pending) => P = DOMAIN q.pending
      /\ Cardinality(DOMAIN s.active) = Cardinality(DOMAIN q.active) + Cardinality(P)
  <2>1. DOMAIN q.active \cap P = {} BY <1>1 DEF Ready
  <2>2. Cardinality(DOMAIN s.active) = Cardinality(DOMAIN q.active) + Cardinality(P)
    BY <1>4, <1>5, <2>1, ThumbsCount
  <2>3. Cardinality(P) = Cardinality(DOMAIN q.pending) => P = DOMAIN q.pending
    BY <1>1, <1>5, ThumbsCount
  <2>4. QED BY <1>5, <2>2, <2>3, ThumbsCount
<1>7. s.running \in 0..Slots /\ (P # DOMAIN q.pending => s.running = Slots)
  BY <1>1, <1>2, <1>6 DEF Least, Ready, ThumbsAssumption
<1> HIDE DEF s, began
<1>8. Ready(s, A)
  BY <1>1, <1>2, <1>3, <1>4, <1>6, <1>7 DEF Ready
<1>9. Urgent(s, {})
  <2> SUFFICES ASSUME NEW p \in DOMAIN s.active, NEW r \in DOMAIN s.pending
               PROVE  s.active[p].preempted \/ s.active[p].priority <= s.pending[r]
    BY DEF Urgent
  <2>1. CASE p \in P
    <3>1. r \in DOMAIN q.pending \ P /\ s.pending[r] = q.pending[r] BY <1>3
    <3>2. s.active[p].priority = q.pending[p] BY <1>4, <2>1
    <3>3. QED BY <1>1, <2>1, <3>1, <3>2
  <2>2. CASE p \in DOMAIN q.active BY <1>3, <1>4, <2>2 DEF Urgent
  <2>3. QED BY <1>4, <2>1, <2>2
<1>10. QED BY <1>1, <1>3, <1>7, <1>8, <1>9 DEF s

-----------------------------------------------------------------------------
(* The queue in the words of these lemmas,                                   *)
LEMMA ThumbsReady ==
  ASSUME ThumbsAssumption, IInv
  PROVE  /\ Ready(queue, Answered) /\ Urgent(queue, {})
         /\ DOMAIN queue.pending # {} => queue.running = Slots
<1>1. From(queue.desired, Priorities) /\ From(queue.pending, Priorities) /\ From(queue.active, Asked)
  BY ThumbsTypes DEF IInv, TypeOK
<1>2. queue.loose \in Nat /\ queue.running \in 0..Slots BY DEF IInv, TypeOK, ThumbsAssumption
<1>3. QED BY <1>1, <1>2 DEF IInv, Records, DemandIsServed, UrgentIsFirst, OnePlace, Ready, Urgent

(* the types of what the host keeps,                                         *)
Store == shown \in [Paths -> States] /\ emitted \in [Paths -> States]

(* and the way back to the invariant.                                        *)
LEMMA ThumbsBack ==
  ASSUME ThumbsAssumption,
         Ready(queue, Answered)', Urgent(queue, {})',
         DOMAIN queue'.pending # {} => queue'.running = Slots,
         known'.cache \subseteq Paths, known'.failed \subseteq Paths, DOMAIN known' = {"cache", "failed"},
         Store', on' \in BOOLEAN, changes' \in 0..MaxDemand, LoadedIsShown'
  PROVE  IInv'
<1>1. queue'.desired \in Demands /\ queue'.pending \in Demands /\ queue'.active \in Requests
  BY ThumbsTypes DEF Ready
<1>2. queue'.loose \in 0..Slots /\ queue'.running \in 0..Slots
  <2>1. Cardinality(DOMAIN queue'.active) \in Nat
    BY ThumbsFinite, ThumbsCount DEF Ready, From
  <2>2. QED BY <2>1 DEF Ready, ThumbsAssumption
<1>3. TypeOK' BY <1>1, <1>2 DEF TypeOK, Store
<1>4. QED
  BY <1>3 DEF IInv, Records, DemandIsServed, UrgentIsFirst, OnePlace, Ready, Urgent

-----------------------------------------------------------------------------
(* Nothing is in demand.                                                     *)
LEMMA InitIInv == ThumbsAssumption /\ Init => IInv
<1> SUFFICES ASSUME ThumbsAssumption, Init PROVE IInv
  OBVIOUS
<1>1. DOMAIN NoDemand = {} BY DEF NoDemand
<1>2. From(NoDemand, Priorities) /\ From(NoDemand, Asked) BY DEF NoDemand, From
<1>3. NoDemand \in Demands /\ NoDemand \in Requests BY <1>2, ThumbsTypes
<1>4. IsFiniteSet({}) /\ Cardinality({}) = 0 BY ThumbsFinite, ThumbsCount
<1>5. TypeOK
  <2>1. queue.desired \in Demands /\ queue.pending \in Demands /\ queue.active \in Requests
        /\ queue.loose \in 0..Slots /\ queue.running \in 0..Slots
    BY <1>3 DEF Init, ThumbsAssumption
  <2>2. shown \in [Paths -> States] /\ emitted \in [Paths -> States] BY DEF Init, States
  <2>3. known.cache \subseteq Paths /\ known.failed \subseteq Paths
        /\ on \in BOOLEAN
    BY DEF Init
  <2>4. changes \in 0..MaxDemand BY DEF Init, ThumbsAssumption
  <2>5. QED BY <2>1, <2>2, <2>3, <2>4 DEF TypeOK
<1>6. QED
  BY <1>1, <1>4, <1>5
  DEF Init, IInv, Records, DemandIsServed, UrgentIsFirst, LoadedIsShown, OnePlace, Answered

(* What is reported leaves the host's store in step with the cache.         *)
LEMMA ThumbsReport ==
  ASSUME Store, LoadedIsShown, NEW idle, NEW loading, NEW ready, NEW error,
         ready \subseteq known.cache, error \cap known.cache = {}, known'.cache = known.cache,
         Report(idle, loading, ready, error)
  PROVE  Store' /\ LoadedIsShown'
<1>1. PICK said \in [Paths -> States \cup {"none"}] :
        /\ \A p \in Paths : said[p] = "ready" => p \in ready
        /\ \A p \in Paths : said[p] = "error" => p \in error
        /\ emitted' = [p \in Paths |-> IF said[p] = "none" THEN emitted[p] ELSE said[p]]
        /\ shown' = [p \in Paths |-> IF said[p] = "none" THEN shown[p] ELSE Stored(p, said[p])]
  <2> DEFINE said == [p \in Paths |-> CASE p \in Reported(idle, "idle") -> "idle"
                                   [] p \in Reported(loading, "loading") -> "loading"
                                   [] p \in Reported(ready, "ready") -> "ready"
                                   [] p \in Reported(error, "error") -> "error"
                                   [] OTHER -> "none"]
  <2>0. said = [p \in Paths |-> said[p]] OBVIOUS
  <2>1. \A p \in Paths : /\ said[p] \in States \cup {"none"}
                         /\ said[p] = "ready" => p \in Reported(ready, "ready")
                         /\ said[p] = "error" => p \in Reported(error, "error")
    BY DEF States
  <2>2. /\ emitted' = [p \in Paths |-> IF said[p] = "none" THEN emitted[p] ELSE said[p]]
        /\ shown' = [p \in Paths |-> IF said[p] = "none" THEN shown[p] ELSE Stored(p, said[p])]
    BY DEF Report
  <2> HIDE DEF said
  <2>3. said \in [Paths -> States \cup {"none"}] BY <2>0, <2>1
  <2>4. (\A p \in Paths : said[p] = "ready" => p \in ready)
        /\ \A p \in Paths : said[p] = "error" => p \in error
    BY <2>1 DEF Reported
  <2>5. QED BY <2>2, <2>3, <2>4
<1>2. \A p \in Paths : Stored(p, said[p]) \in States \cup {"none"}
                      /\ (said[p] # "none" => Stored(p, said[p]) \in States)
                      /\ (shown[p] = "ready" /\ said[p] # "error" /\ said[p] # "none" => Stored(p, said[p]) = "ready")
                      /\ (shown[p] # "ready" /\ said[p] # "ready" => Stored(p, said[p]) # "ready")
  BY DEF Stored, States, Store
<1>3. Store' BY <1>1, <1>2 DEF Store
<1>4. LoadedIsShown'
  BY <1>1, <1>2 DEF LoadedIsShown
<1>5. QED BY <1>3, <1>4

(* The end of a step: the slots are filled and the reports are sent.        *)
LEMMA ThumbsStep ==
  ASSUME ThumbsAssumption, IInv, NEW q, Ready(q, Answered'), NEW P \in Chosen(q), Urgent(q, P),
         queue' = Started(q, P),
         known'.cache = known.cache, known'.failed \subseteq Paths, DOMAIN known' = {"cache", "failed"},
         NEW idle, NEW ready, ready \subseteq known.cache, NEW error, error \cap known.cache = {},
         Report(idle, P, ready, error), UNCHANGED on, changes' \in 0..MaxDemand
  PROVE  IInv'
<1>1. Store /\ LoadedIsShown /\ on \in BOOLEAN /\ known.cache \subseteq Paths
  BY DEF IInv, TypeOK, Store
<1>2. Store' /\ LoadedIsShown' BY <1>1, ThumbsReport
<1>3. Ready(queue, Answered)' /\ Urgent(queue, {})' /\ (DOMAIN queue'.pending # {} => queue'.running = Slots)
  BY ThumbsPump
<1>4. QED BY <1>1, <1>2, <1>3, ThumbsBack

-----------------------------------------------------------------------------
(* A slot is given back.                                                    *)
LEMMA ThumbsLoose == ASSUME ThumbsAssumption, IInv, LooseSettles PROVE IInv'
<1> DEFINE q == [queue EXCEPT !.loose = @ - 1, !.running = @ - 1]
<1>1. Ready(queue, Answered) /\ Urgent(queue, {}) /\ queue.loose > 0 BY ThumbsReady DEF LooseSettles
<1>2. PICK P \in Chosen(q) : queue' = Started(q, P) /\ Report({}, P, {}, {})
  BY DEF LooseSettles
<1>3. UNCHANGED <<known, on, changes>> BY DEF LooseSettles
<1>4. /\ DOMAIN q = DOMAIN queue /\ q.desired = queue.desired /\ q.pending = queue.pending
      /\ q.active = queue.active /\ q.loose = queue.loose - 1 /\ q.running = queue.running - 1
  BY <1>1 DEF Ready
<1> HIDE DEF q
<1>5. Cardinality(DOMAIN queue.active) \in Nat BY <1>1, ThumbsFinite, ThumbsCount DEF Ready, From
<1>6. Ready(q, Answered)
  BY <1>1, <1>4, <1>5 DEF Ready, ThumbsAssumption
<1>7. Urgent(q, P) BY <1>1, <1>4 DEF Urgent
<1>8. Answered' = Answered BY <1>3 DEF Answered
<1>9. known.failed \subseteq Paths /\ DOMAIN known = {"cache", "failed"} /\ changes \in 0..MaxDemand
  BY DEF IInv, TypeOK, Records
<1>10. QED BY <1>2, <1>3, <1>6, <1>7, <1>8, <1>9, ThumbsStep

(* A request under way ends.                                                *)
LEMMA ThumbsEnd ==
  ASSUME ThumbsAssumption, Ready(queue, Answered), NEW p \in DOMAIN queue.active
  PROVE  /\ DOMAIN Minus(queue.active, {p}) = DOMAIN queue.active \ {p}
         /\ \A r \in DOMAIN queue.active \ {p} : Minus(queue.active, {p})[r] = queue.active[r]
         /\ From(Minus(queue.active, {p}), Asked)
         /\ queue.running - 1 \in 0..Slots /\ queue.running - 1 < Slots
         /\ queue.running - 1 = queue.loose + Cardinality(DOMAIN Minus(queue.active, {p}))
<1>1. DOMAIN Minus(queue.active, {p}) = DOMAIN queue.active \ {p}
      /\ \A r \in DOMAIN queue.active \ {p} : Minus(queue.active, {p})[r] = queue.active[r]
  BY DEF Minus, Restrict
<1>2. From(Minus(queue.active, {p}), Asked) BY DEF Minus, Restrict, Ready, From
<1>3. IsFiniteSet(DOMAIN queue.active) /\ IsFiniteSet({p})
  BY ThumbsFinite DEF Ready, From
<1>4. Cardinality(DOMAIN queue.active \ {p}) = Cardinality(DOMAIN queue.active) - 1
  <2>1. Cardinality({p}) = 1 BY FS_Singleton
  <2>2. Cardinality(DOMAIN queue.active \ {p}) = Cardinality(DOMAIN queue.active) - Cardinality({p})
    <3>1. {p} \subseteq DOMAIN queue.active OBVIOUS
    <3>2. QED BY <1>3, <3>1, ThumbsCount
  <2>3. QED BY <2>1, <2>2
<1>5. Cardinality(DOMAIN queue.active \ {p}) \in Nat
  <2>1. IsFiniteSet(DOMAIN queue.active \ {p}) BY ThumbsFinite DEF Ready, From
  <2>2. QED BY <2>1, ThumbsCount
<1>6. Cardinality(DOMAIN Minus(queue.active, {p})) = Cardinality(DOMAIN queue.active) - 1
  BY <1>1, <1>4
<1>7. Cardinality(DOMAIN queue.active) \in Nat /\ Cardinality(DOMAIN queue.active) >= 1
  BY <1>3, <1>4, <1>5, ThumbsNat
<1>8. /\ queue.running - 1 \in 0..Slots /\ queue.running - 1 < Slots
      /\ queue.running - 1 = queue.loose + (Cardinality(DOMAIN queue.active) - 1)
  BY <1>7 DEF Ready, ThumbsAssumption
<1>9. QED BY <1>1, <1>2, <1>6, <1>8

(* A request under way is answered: what is left of the queue.              *)
LEMMA ThumbsAnswered ==
  ASSUME ThumbsAssumption, Ready(queue, Answered), Urgent(queue, {}), NEW p \in DOMAIN queue.active,
         NEW q, DOMAIN q = DOMAIN queue, q.desired = queue.desired, q.pending = queue.pending,
         q.active = Minus(queue.active, {p}), q.loose = queue.loose, q.running = queue.running - 1
  PROVE  Ready(q, Answered \cup {p}) /\ \A P : Urgent(q, P)
<1>1. /\ DOMAIN q.active = DOMAIN queue.active \ {p} /\ From(q.active, Asked)
      /\ \A r \in DOMAIN q.active : q.active[r] = queue.active[r]
      /\ q.running \in 0..Slots /\ q.running = q.loose + Cardinality(DOMAIN q.active)
  BY ThumbsEnd
<1>2. /\ DOMAIN queue.desired = (DOMAIN queue.desired \cap Answered)
                                \cup DOMAIN queue.pending \cup DOMAIN queue.active
      /\ DOMAIN queue.pending \cap DOMAIN queue.active = {}
      /\ (DOMAIN queue.pending \cup DOMAIN queue.active) \cap Answered = {}
  BY DEF Ready
<1>3. DOMAIN q.desired = (DOMAIN q.desired \cap (Answered \cup {p})) \cup DOMAIN q.pending
                         \cup DOMAIN q.active
  BY <1>1, <1>2
<1>4. /\ DOMAIN q.pending \cap DOMAIN q.active = {}
      /\ (DOMAIN q.pending \cup DOMAIN q.active) \cap (Answered \cup {p}) = {}
  BY <1>1, <1>2
<1>5. /\ DOMAIN q = {"desired", "pending", "active", "loose", "running"}
      /\ From(q.desired, Priorities) /\ From(q.pending, Priorities) /\ q.loose \in Nat
  BY DEF Ready
<1>6. Ready(q, Answered \cup {p}) BY <1>1, <1>3, <1>4, <1>5 DEF Ready
<1>7. \A a \in DOMAIN q.active, r \in DOMAIN q.pending :
        q.active[a].preempted \/ q.active[a].priority <= q.pending[r]
  <2> SUFFICES ASSUME NEW a \in DOMAIN q.active, NEW r \in DOMAIN q.pending
               PROVE  q.active[a].preempted \/ q.active[a].priority <= q.pending[r]
    OBVIOUS
  <2>1. /\ a \in DOMAIN queue.active /\ r \in DOMAIN queue.pending
        /\ q.active[a] = queue.active[a] /\ q.pending[r] = queue.pending[r]
    BY <1>1
  <2>2. queue.active[a].preempted \/ queue.active[a].priority <= queue.pending[r]
    BY <2>1 DEF Urgent
  <2>3. QED BY <2>1, <2>2
<1>8. \A P : Urgent(q, P) BY <1>7 DEF Urgent
<1>9. QED BY <1>6, <1>8

(* A request that fails is answered,                                         *)
LEMMA ThumbsErrs == ASSUME ThumbsAssumption, IInv, NEW p \in Paths, Errs(p) PROVE IInv'
<1> DEFINE q == [queue EXCEPT !.active = Minus(@, {p}), !.running = @ - 1]
<1>1. Ready(queue, Answered) /\ Urgent(queue, {}) /\ p \in DOMAIN queue.active
  BY ThumbsReady DEF Errs
<1>2. PICK P \in Chosen(q) : queue' = Started(q, P) /\ Report({}, P, {}, {p})
  BY DEF Errs
<1>3. UNCHANGED <<on, changes>> /\ known' = [known EXCEPT !.failed = @ \cup {p}] BY DEF Errs
<1>4. /\ DOMAIN q = DOMAIN queue /\ q.desired = queue.desired /\ q.pending = queue.pending
      /\ q.active = Minus(queue.active, {p}) /\ q.loose = queue.loose /\ q.running = queue.running - 1
  BY <1>1 DEF Ready
<1> HIDE DEF q
<1>5. /\ known.failed \subseteq Paths /\ DOMAIN known = {"cache", "failed"} /\ changes \in 0..MaxDemand
  BY DEF IInv, TypeOK, Records
<1>6. /\ known'.cache = known.cache /\ known'.failed = known.failed \cup {p}
      /\ DOMAIN known' = {"cache", "failed"} /\ Answered' = Answered \cup {p}
  BY <1>3, <1>5 DEF Answered
<1>7. Ready(q, Answered') /\ Urgent(q, P) BY <1>1, <1>4, <1>6, ThumbsAnswered
<1>9. p \notin known.cache BY <1>1 DEF Ready, Answered
<1>10. known'.failed \subseteq Paths BY <1>5, <1>6
<1>11. QED BY <1>2, <1>3, <1>5, <1>6, <1>7, <1>9, <1>10, ThumbsStep

(* one that was preempted goes back to the queue, if it is still wanted,     *)
LEMMA ThumbsPreempted ==
  ASSUME ThumbsAssumption, IInv, NEW p \in Paths, PreemptedSettles(p)
  PROVE  IInv'
<1> DEFINE q == [queue EXCEPT !.active = Minus(@, {p}), !.running = @ - 1,
                              !.pending = Plus(@, {p}, queue.desired[p])]
<1>1. Ready(queue, Answered) /\ Urgent(queue, {}) /\ p \in DOMAIN queue.active
      /\ (DOMAIN queue.pending # {} => queue.running = Slots)
  BY ThumbsReady DEF PreemptedSettles
<1>2. PICK P \in Chosen(q) : queue' = Started(q, P) /\ Report({}, P, {}, {})
  BY DEF PreemptedSettles
<1>3. UNCHANGED <<known, on, changes>> BY DEF PreemptedSettles
<1>4. /\ DOMAIN q = DOMAIN queue /\ q.desired = queue.desired
      /\ q.pending = Plus(queue.pending, {p}, queue.desired[p])
      /\ q.active = Minus(queue.active, {p}) /\ q.loose = queue.loose /\ q.running = queue.running - 1
  BY <1>1 DEF Ready
<1> HIDE DEF q
<1>5. /\ known.failed \subseteq Paths /\ DOMAIN known = {"cache", "failed"} /\ changes \in 0..MaxDemand
      /\ Answered' = Answered
  BY <1>3 DEF IInv, TypeOK, Records, Answered
<1>6. /\ DOMAIN q.pending = DOMAIN queue.pending \cup {p} /\ q.pending[p] = queue.desired[p]
      /\ p \notin DOMAIN queue.pending
      /\ \A r \in DOMAIN queue.pending : q.pending[r] = queue.pending[r]
      /\ From(q.pending, Priorities)
  <2>1. p \in DOMAIN queue.desired /\ p \notin DOMAIN queue.pending /\ queue.desired[p] \in Priorities
    BY <1>1 DEF Ready, From
  <2>2. /\ DOMAIN q.pending = DOMAIN queue.pending \cup {p} /\ q.pending[p] = queue.desired[p]
        /\ \A r \in DOMAIN queue.pending : q.pending[r] = queue.pending[r]
        /\ q.pending = [r \in DOMAIN q.pending |-> q.pending[r]]
    BY <1>4, <2>1 DEF Plus
  <2>3. QED BY <1>1, <2>1, <2>2 DEF Ready, From
<1>7. Ready(q, Answered)
  <2>1. /\ DOMAIN q.active = DOMAIN queue.active \ {p} /\ From(q.active, Asked)
        /\ q.running \in 0..Slots /\ q.running = q.loose + Cardinality(DOMAIN q.active)
    BY <1>1, <1>4, ThumbsEnd
  <2>2. /\ DOMAIN queue.desired = (DOMAIN queue.desired \cap Answered)
                                  \cup DOMAIN queue.pending \cup DOMAIN queue.active
        /\ DOMAIN queue.pending \cap DOMAIN queue.active = {}
        /\ (DOMAIN queue.pending \cup DOMAIN queue.active) \cap Answered = {}
    BY <1>1 DEF Ready
  <2>3. /\ DOMAIN queue.desired = (DOMAIN queue.desired \cap Answered)
                                  \cup DOMAIN q.pending \cup DOMAIN q.active
        /\ DOMAIN q.pending \cap DOMAIN q.active = {}
        /\ (DOMAIN q.pending \cup DOMAIN q.active) \cap Answered = {}
    BY <1>1, <1>6, <2>1, <2>2
  <2>4. /\ DOMAIN q = {"desired", "pending", "active", "loose", "running"}
        /\ From(q.desired, Priorities) /\ q.loose \in Nat
    BY <1>1, <1>4 DEF Ready
  <2>5. q.desired = queue.desired BY <1>4
  <2>6. QED BY <1>6, <2>1, <2>3, <2>4, <2>5 DEF Ready
<1>8. Urgent(q, P)
  <2> SUFFICES ASSUME NEW a \in DOMAIN q.active, NEW r \in DOMAIN q.pending \ P
               PROVE  q.active[a].preempted \/ q.active[a].priority <= q.pending[r]
    BY DEF Urgent
  <2>1. q.active[a] = queue.active[a] /\ a \in DOMAIN queue.active BY <1>1, <1>4, ThumbsEnd
  <2>2. CASE r # p BY <1>1, <1>6, <2>1, <2>2 DEF Urgent
  <2>3. CASE r = p
    (* A slot is free, so one is taken, by another that waited before.      *)
    <3>1. P \subseteq DOMAIN q.pending /\ P # {}
      <4>1. /\ P \subseteq DOMAIN q.pending
            /\ Cardinality(P) = Least(Slots - q.running, Cardinality(DOMAIN q.pending))
        BY DEF Chosen
      <4>a. q.running \in 0..Slots /\ q.running < Slots BY <1>1, <1>4, ThumbsEnd
      <4>2. Slots - q.running \in Nat /\ Slots - q.running # 0 BY <4>a DEF ThumbsAssumption
      <4>3. IsFiniteSet(DOMAIN q.pending) /\ IsFiniteSet(P)
        BY <1>6, <4>1, ThumbsFinite DEF From
      <4>4. Cardinality(DOMAIN q.pending) \in Nat /\ Cardinality(DOMAIN q.pending) # 0
        BY <1>6, <4>3, ThumbsCount
      <4>5. Cardinality(P) # 0 BY <4>1, <4>2, <4>4 DEF Least
      <4>6. QED BY <4>1, <4>3, <4>5, ThumbsCount
    <3>2. PICK b \in P : TRUE BY <3>1
    <3>3. b \in DOMAIN queue.pending /\ q.pending[b] <= q.pending[p] /\ q.pending[b] = queue.pending[b]
      BY <1>2, <1>6, <2>3, <3>1 DEF Chosen
    <3>4. queue.active[a].preempted \/ queue.active[a].priority <= queue.pending[b]
      BY <1>1, <2>1, <3>3 DEF Urgent
    <3>5. queue.active[a].priority \in Int /\ queue.pending[b] \in Int /\ q.pending[p] \in Int
      <4>1. Priorities \subseteq Int BY DEF Priorities, ThumbsAssumption
      <4>2. queue.active[a] \in Asked /\ queue.pending[b] \in Priorities /\ q.pending[p] \in Priorities
        BY <1>1, <1>6, <2>1, <3>3 DEF Ready, From
      <4>3. QED BY <4>1, <4>2 DEF Asked
    <3>6. QED BY <2>1, <2>3, <3>3, <3>4, <3>5
  <2>4. QED BY <2>2, <2>3
<1>9. QED BY <1>2, <1>3, <1>5, <1>7, <1>8, ThumbsStep

(* and one that loads is answered and shown.                                 *)
LEMMA ThumbsLoads == ASSUME ThumbsAssumption, IInv, NEW p \in Paths, Loads(p) PROVE IInv'
<1> DEFINE q == [queue EXCEPT !.active = Minus(@, {p}), !.running = @ - 1]
<1>1. Ready(queue, Answered) /\ Urgent(queue, {}) /\ p \in DOMAIN queue.active
  BY ThumbsReady DEF Loads
<1>2. PICK P \in Chosen(q) :
        /\ queue' = Started(q, P)
        /\ emitted' = [r \in Paths |-> IF r \in Reported({p}, "ready") THEN "ready"
                                        ELSE IF r \in Reported(P, "loading") THEN "loading" ELSE emitted[r]]
        /\ shown' = [r \in Paths |-> IF r = p THEN "ready"
                                      ELSE IF r \in Reported(P, "loading") THEN Stored(r, "loading") ELSE shown[r]]
  BY DEF Loads
<1>3. UNCHANGED <<on, changes>> /\ known' = [known EXCEPT !.cache = @ \cup {p}] BY DEF Loads
<1>4. /\ DOMAIN q = DOMAIN queue /\ q.desired = queue.desired /\ q.pending = queue.pending
      /\ q.active = Minus(queue.active, {p}) /\ q.loose = queue.loose /\ q.running = queue.running - 1
  BY <1>1 DEF Ready
<1> HIDE DEF q
<1>5. /\ known.failed \subseteq Paths /\ DOMAIN known = {"cache", "failed"} /\ changes \in 0..MaxDemand
      /\ known.cache \subseteq Paths /\ Store /\ LoadedIsShown /\ on \in BOOLEAN
  BY DEF IInv, TypeOK, Records, Store
<1>6. /\ known'.failed = known.failed /\ known'.cache = known.cache \cup {p}
      /\ DOMAIN known' = {"cache", "failed"} /\ Answered' = Answered \cup {p}
  BY <1>3, <1>5 DEF Answered
<1>7. Ready(q, Answered') /\ Urgent(q, P) BY <1>1, <1>4, <1>6, ThumbsAnswered
<1>9. Store' BY <1>2, <1>5 DEF Store, States, Stored
<1>10. LoadedIsShown' BY <1>2, <1>5, <1>6 DEF LoadedIsShown, Stored
<1>11. Ready(queue, Answered)' /\ Urgent(queue, {})' /\ (DOMAIN queue'.pending # {} => queue'.running = Slots)
  BY <1>2, <1>7, ThumbsPump
<1>12. QED BY <1>3, <1>5, <1>6, <1>9, <1>10, <1>11, ThumbsBack

-----------------------------------------------------------------------------
(* The generation ends, or a new one begins.                                *)
LEMMA ThumbsGeneration ==
  ASSUME ThumbsAssumption, IInv, NEW open \in BOOLEAN, Generation(open)
  PROVE  IInv'
<1>1. Ready(queue, Answered) BY ThumbsReady
<1>2. /\ DOMAIN NoDemand = {} /\ From(NoDemand, Priorities) /\ From(NoDemand, Asked)
  BY DEF NoDemand, From
<1>3. IsFiniteSet({}) /\ Cardinality({}) = 0 BY FS_EmptySet
<1>4. /\ DOMAIN queue' = DOMAIN queue /\ queue'.desired = NoDemand /\ queue'.pending = NoDemand
      /\ queue'.active = NoDemand /\ queue'.running = queue.running
      /\ queue'.loose = queue.loose + Cardinality(DOMAIN queue.active)
  BY <1>1 DEF Generation, Ready
<1>5. Ready(queue, Answered)'
  BY <1>1, <1>2, <1>3, <1>4 DEF Ready, ThumbsAssumption
<1>6. Urgent(queue, {})' /\ DOMAIN queue'.pending = {} BY <1>2, <1>4 DEF Urgent
<1>7. known' = [cache |-> {}, failed |-> {}] /\ shown' = [p \in Paths |-> "idle"] /\ emitted' = emitted
      /\ on' = open /\ changes' = changes + 1 /\ changes < MaxDemand
  BY DEF Generation
<1>8. Store' BY <1>7 DEF IInv, TypeOK, Store, States
<1>9. LoadedIsShown' BY <1>7 DEF LoadedIsShown
<1>10. changes' \in 0..MaxDemand BY <1>7 DEF IInv, TypeOK, ThumbsAssumption
<1>11. QED BY <1>5, <1>6, <1>7, <1>8, <1>9, <1>10, ThumbsBack

(* The demand changes: what is not wanted any more is abandoned,            *)
LEMMA ThumbsAbandoned ==
  ASSUME ThumbsAssumption, Ready(queue, Answered), NEW demand \in Demands,
         NEW q, q = Abandoned([queue EXCEPT !.desired = demand])
  PROVE  /\ DOMAIN q = DOMAIN queue /\ q.desired = demand /\ q.running = queue.running
         /\ DOMAIN q.active = DOMAIN queue.active \cap DOMAIN demand /\ From(q.active, Asked)
         /\ q.loose \in Nat /\ q.running = q.loose + Cardinality(DOMAIN q.active)
<1> DEFINE gone == DOMAIN queue.active \ DOMAIN demand
<1>1. /\ DOMAIN q = DOMAIN queue /\ q.desired = demand /\ q.running = queue.running
      /\ q.active = Minus(queue.active, gone) /\ q.loose = queue.loose + Cardinality(gone)
  BY DEF Abandoned, Ready
<1>2. DOMAIN q.active = DOMAIN queue.active \cap DOMAIN demand /\ From(q.active, Asked)
  BY <1>1 DEF Minus, Restrict, Ready, From
<1>3. IsFiniteSet(gone) /\ IsFiniteSet(DOMAIN q.active)
  BY <1>2, ThumbsFinite DEF Ready, From
<1>4. Cardinality(DOMAIN queue.active) = Cardinality(DOMAIN q.active) + Cardinality(gone)
  <2>1. DOMAIN queue.active = DOMAIN q.active \cup gone /\ DOMAIN q.active \cap gone = {}
    BY <1>2
  <2> HIDE DEF gone
  <2>2. Cardinality(DOMAIN q.active \cup gone) = Cardinality(DOMAIN q.active) + Cardinality(gone)
    BY <1>3, <2>1, ThumbsCount
  <2>3. QED BY <2>1, <2>2
<1>5. Cardinality(gone) \in Nat /\ Cardinality(DOMAIN q.active) \in Nat BY <1>3, ThumbsNat
<1>6. QED BY <1>1, <1>2, <1>4, <1>5 DEF Ready

(* and what is wanted goes before what is less urgent.                      *)
LEMMA ThumbsWanted ==
  ASSUME ThumbsAssumption, Ready(queue, Answered), NEW demand \in Demands,
         NEW q, q = Preempted(Wanted(Abandoned([queue EXCEPT !.desired = demand])))
  PROVE  Ready(q, Answered) /\ \A P : Urgent(q, P)
<1>1. PICK a : a = Abandoned([queue EXCEPT !.desired = demand]) OBVIOUS
<1>2. PICK w : w = Wanted(a) OBVIOUS
<1>3. q = Preempted(w) BY <1>1, <1>2
<1>4. /\ DOMAIN a = DOMAIN queue /\ a.desired = demand /\ a.running = queue.running
      /\ DOMAIN a.active = DOMAIN queue.active \cap DOMAIN demand /\ From(a.active, Asked)
      /\ a.loose \in Nat /\ a.running = a.loose + Cardinality(DOMAIN a.active)
  BY <1>1, ThumbsAbandoned
<1>5. From(demand, Priorities) /\ Priorities \subseteq Int
  BY ThumbsTypes DEF Priorities, ThumbsAssumption
<1>6. /\ DOMAIN w = DOMAIN queue /\ w.desired = demand /\ w.running = a.running /\ w.loose = a.loose
      /\ w.active = [p \in DOMAIN a.active |->
             [priority |-> Least(a.active[p].priority, a.desired[p]), preempted |-> a.active[p].preempted]]
      /\ w.pending = [p \in DOMAIN a.desired \ (Answered \cup DOMAIN a.active) |-> a.desired[p]]
  <2> DEFINE X == [p \in DOMAIN a.active |->
               [priority |-> Least(a.active[p].priority, a.desired[p]), preempted |-> a.active[p].preempted]]
             Y == [p \in DOMAIN a.desired \ (Answered \cup DOMAIN a.active) |-> a.desired[p]]
  <2>1. w = [a EXCEPT !.active = X, !.pending = Y] BY <1>2 DEF Wanted
  <2>2. DOMAIN a = {"desired", "pending", "active", "loose", "running"} BY <1>4 DEF Ready
  <2> HIDE DEF X, Y
  <2>3. /\ DOMAIN w = DOMAIN a /\ w.desired = a.desired /\ w.running = a.running /\ w.loose = a.loose
        /\ w.active = X /\ w.pending = Y
    BY <2>1, <2>2
  <2>4. QED BY <1>4, <2>3 DEF X, Y
<1>7. DOMAIN w.active = DOMAIN a.active /\ From(w.active, Asked)
  <2>1. ASSUME NEW p \in DOMAIN a.active
        PROVE  [priority |-> Least(a.active[p].priority, a.desired[p]), preempted |-> a.active[p].preempted] \in Asked
    BY <1>4, <1>5 DEF From, Asked, Least
  <2>2. \A p \in DOMAIN a.active : w.active[p] \in Asked BY <1>6, <2>1
  <2>3. w.active = [p \in DOMAIN w.active |-> w.active[p]] /\ DOMAIN w.active = DOMAIN a.active
    BY <1>6
  <2>4. QED BY <1>4, <2>2, <2>3 DEF From
<1>8. /\ DOMAIN w.pending = DOMAIN demand \ (Answered \cup DOMAIN w.active)
      /\ From(w.pending, Priorities)
  BY <1>4, <1>5, <1>6, <1>7 DEF From
<1>9. /\ DOMAIN q = DOMAIN queue /\ q.desired = demand /\ q.running = w.running /\ q.loose = w.loose
      /\ q.pending = w.pending
      /\ q.active = [p \in DOMAIN w.active |-> [priority |-> w.active[p].priority,
             preempted |-> w.active[p].preempted \/ \E r \in DOMAIN w.pending : w.pending[r] < w.active[p].priority]]
  <2> DEFINE X == [p \in DOMAIN w.active |-> [priority |-> w.active[p].priority,
             preempted |-> w.active[p].preempted \/ \E r \in DOMAIN w.pending : w.pending[r] < w.active[p].priority]]
  <2>1. q = [w EXCEPT !.active = X] BY <1>3 DEF Preempted
  <2>2. DOMAIN w = {"desired", "pending", "active", "loose", "running"} BY <1>6 DEF Ready
  <2> HIDE DEF X
  <2>3. /\ DOMAIN q = DOMAIN w /\ q.desired = w.desired /\ q.running = w.running /\ q.loose = w.loose
        /\ q.active = X /\ q.pending = w.pending
    BY <2>1, <2>2
  <2>4. QED BY <1>6, <2>3 DEF X
<1>10. ASSUME NEW p \in DOMAIN w.active
       PROVE  /\ q.active[p] \in Asked /\ q.active[p].priority = w.active[p].priority
              /\ q.active[p].preempted
                   <=> w.active[p].preempted \/ \E r \in DOMAIN w.pending : w.pending[r] < w.active[p].priority
  <2> DEFINE before == \E r \in DOMAIN w.pending : w.pending[r] < w.active[p].priority
             moved == w.active[p].preempted \/ before
  <2>1. w.active[p] \in Asked BY <1>7 DEF From
  <2>2. q.active[p] = [priority |-> w.active[p].priority, preempted |-> moved]
    BY <1>9
  <2>3. moved \in BOOLEAN OBVIOUS
  <2>4. moved <=> w.active[p].preempted \/ before OBVIOUS
  <2> HIDE DEF moved
  <2>5. q.active[p] \in Asked /\ q.active[p].priority = w.active[p].priority /\ q.active[p].preempted = moved
    BY <2>1, <2>2, <2>3 DEF Asked
  <2>6. QED BY <2>4, <2>5
<1>11. DOMAIN q.active = DOMAIN w.active /\ From(q.active, Asked)
  BY <1>7, <1>9, <1>10 DEF From
<1>12. Ready(q, Answered)
  BY <1>4, <1>5, <1>6, <1>7, <1>8, <1>9, <1>11 DEF Ready
<1>13. ASSUME NEW P PROVE Urgent(q, P)
  <2> SUFFICES ASSUME NEW p \in DOMAIN q.active, NEW r \in DOMAIN q.pending \ P
               PROVE  q.active[p].preempted \/ q.active[p].priority <= q.pending[r]
    BY DEF Urgent
  <2>1. w.active[p].priority \in Int /\ w.pending[r] \in Int
    BY <1>5, <1>7, <1>8, <1>9, <1>11 DEF From, Asked
  <2>2. QED BY <1>9, <1>10, <1>11, <2>1
<1>14. QED BY <1>12, <1>13

(* A new demand.                                                             *)
LEMMA ThumbsUpdate ==
  ASSUME ThumbsAssumption, IInv, NEW demand \in Demands, Update(demand)
  PROVE  IInv'
<1> DEFINE q == Preempted(Wanted(Abandoned([queue EXCEPT !.desired = demand])))
<1>0. PICK P \in Chosen(q) :
        \E idle : queue' = Started(q, P) /\ Report(idle, P, DOMAIN demand \cap known.cache, {})
  BY DEF Update
<1>1. PICK idle : queue' = Started(q, P) /\ Report(idle, P, DOMAIN demand \cap known.cache, {})
  BY <1>0
<1>2. UNCHANGED <<known, on>> /\ changes' = changes + 1 /\ changes < MaxDemand BY DEF Update
<1>3. Ready(q, Answered) /\ Urgent(q, P) BY ThumbsReady, ThumbsWanted
<1>4. /\ known'.failed \subseteq Paths /\ DOMAIN known' = {"cache", "failed"} /\ changes' \in 0..MaxDemand
      /\ Answered' = Answered
  BY <1>2 DEF IInv, TypeOK, Records, Answered, ThumbsAssumption
<1> HIDE DEF q
<1>5. QED BY <1>1, <1>2, <1>3, <1>4, ThumbsStep

-----------------------------------------------------------------------------
(* Every action keeps the invariant.                                         *)
LEMMA NextStep == ThumbsAssumption /\ IInv /\ [Next]_vars => IInv'
<1> SUFFICES ASSUME ThumbsAssumption, IInv, [Next]_vars PROVE IInv'
  OBVIOUS
<1>1. CASE Next
  BY <1>1, ThumbsUpdate, ThumbsGeneration, ThumbsLoose, ThumbsPreempted, ThumbsLoads, ThumbsErrs
  DEF Next, Settles
<1>2. CASE UNCHANGED vars
  BY <1>2
  DEF vars, IInv, TypeOK, Records, DemandIsServed, UrgentIsFirst, LoadedIsShown, OnePlace, Answered
<1>3. QED BY <1>1, <1>2
=============================================================================
