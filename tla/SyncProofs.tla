------------------------------ MODULE SyncProofs ------------------------------
(***************************************************************************)
(* The safety properties of the sync jobs and of the page that posts them    *)
(* hold for any number of workers, any operations, whatever a plan finds to  *)
(* copy, whatever fails and however often the page posts.                    *)
(*                                                                         *)
(* MadeOnceInOrder: a folder that a worker makes is "doing", and a worker    *)
(* only begins with one that is "none", so two makers of one operation       *)
(* never meet; "made" is never taken back, and a worker goes one level down  *)
(* only past a folder that is "made".                                       *)
(*                                                                         *)
(* Accounted, ReportedLast, ReportedFresh and CompleteIsDone: a job is in    *)
(* one place at a time, so moving it takes one from one count and adds one   *)
(* to another.  An operation is closed when its counts leave no job          *)
(* anywhere, and whatever a job of it changed is by then among the folders   *)
(* that the closing worker invalidates before it reports.  An item that is   *)
(* not done has a job on its way until the operation counts an error or has  *)
(* lost the job in a shutdown.                                              *)
(*                                                                         *)
(* PageTypeOK and RowsAreFresh: the page does nothing to the server but what *)
(* SyncJobs already allows, so the invariant of the server's jobs carries    *)
(* over.  A status that is final stays final, and an operation with a final  *)
(* status has left nothing stale; the page refreshes for such operations     *)
(* only, so the answer shows their folders as they are, and no later step    *)
(* of the server makes one of them stale again on their account.             *)
(***************************************************************************)
EXTENDS SyncPage, FiniteSetTheorems, TLAPS

Folding == {"chain", "make"}

(* Jobs are jobs wherever they are, and plans hold items.                   *)
JobsTyped ==
  /\ planned \in [Plans -> [tree: Nat, items: Seq(Items)]]
  /\ origin \in [Batches -> Plans \cup {None}]
  /\ tree \in Nat /\ order \in Nat
  /\ entering \in [Ops -> Seq(Job)]
  /\ queue \subseteq Job /\ timers \subseteq Job /\ due \subseteq Job
  /\ DOMAIN worker = Workers
  /\ \A w \in Workers : worker[w].pc \notin {"idle", "stopped"} => worker[w].job \in Job

(* A worker in the chain is at a folder above its item, or at the item.     *)
ChainTyped ==
  /\ mkdirs \in [Ops -> [Folders -> {"none", "doing", "made", "failed"}]]
  /\ \A w \in Workers : worker[w].pc \in Folding =>
       /\ Kind[Item(w)] = "mkdir"
       /\ worker[w].depth \in 1..Len(Item(w))

(* The folders above the one a worker has come to are made.                 *)
AboveMade ==
  \A w \in Workers : worker[w].pc \in Folding =>
    \A d \in 1..(worker[w].depth - 1) : mkdirs[Op(w)][SubSeq(Item(w), 1, d)] = "made"

(* The folder that a worker makes is marked as being made ...               *)
MakingMarked == \A w \in Workers : At(w, "make") => MkdirState(w) = "doing"

(* ... and by one worker of the operation only.                             *)
OneMaker ==
  \A v, w \in Workers : v # w /\ At(v, "make") /\ At(w, "make") /\ Op(v) = Op(w)
    => Target(v) # Target(w)

MkdirInv == JobsTyped /\ ChainTyped /\ AboveMade /\ MakingMarked /\ OneMaker

-----------------------------------------------------------------------------
(* Every folder down to the item of a "mkdir" job is one of Folders.        *)
LEMMA TargetIsFolder ==
  ASSUME NEW i \in Items, Kind[i] = "mkdir", NEW d \in 1..Len(i)
  PROVE  SubSeq(i, 1, d) \in Folders
<1>1. i \in Seq(STRING)
  BY ItemsArePaths DEF Items
<1>2. SubSeq(i, 1, d) \in Prefixes(i)
  BY <1>1 DEF Prefixes
<1>3. IsFolder(i)
  BY DEF IsFolder
<1>4. QED
  BY <1>2, <1>3 DEF Folders

(* What an operation wants to copy is a sequence of items.                  *)
LEMMA WantedItems ==
  ASSUME JobsTyped, NEW o \in Ops, o \in Batches => origin[o] # None
  PROVE  Wanted(o) \in Seq(Items)
<1>1. CASE o \in Singles
  BY <1>1, ItemsArePaths DEF Wanted, Items
<1>2. CASE o \notin Singles
  <2>1. origin[o] \in Plans
    BY <1>2 DEF Ops, JobsTyped
  <2>2. QED
    BY <1>2, <2>1 DEF Wanted, JobsTyped
<1>3. QED
  BY <1>1, <1>2

(* Nothing is made in the beginning.                                        *)
LEMMA InitMkdir == Init => MkdirInv
<1> SUFFICES ASSUME Init PROVE MkdirInv
  OBVIOUS
<1>1. JobsTyped
  BY DEF Init, JobsTyped, Idle
<1>2. ChainTyped
  BY DEF Init, ChainTyped, Idle, Folding
<1>3. AboveMade /\ MakingMarked /\ OneMaker
  BY DEF Init, AboveMade, MakingMarked, OneMaker, Idle, Folding, At
<1>4. QED
  BY <1>1, <1>2, <1>3 DEF MkdirInv

-----------------------------------------------------------------------------
(* Steps keep the part about folders if the folders stay and the workers in  *)
(* the chain are those that were there.                                     *)
LEMMA ChainKept ==
  ASSUME MkdirInv, UNCHANGED mkdirs,
         \A w \in Workers : worker'[w].pc \in Folding => worker'[w] = worker[w]
  PROVE  (ChainTyped /\ AboveMade /\ MakingMarked /\ OneMaker)'
<1>1. ChainTyped'
  BY DEF MkdirInv, ChainTyped, Item
<1>2. AboveMade'
  BY DEF MkdirInv, AboveMade, Item, Op
<1>3. MakingMarked'
  BY DEF MkdirInv, MakingMarked, At, MkdirState, Op, Target, Item, Folding
<1>4. OneMaker'
  BY DEF MkdirInv, OneMaker, At, Op, Target, Item, Folding
<1>5. QED
  BY <1>1, <1>2, <1>3, <1>4

(* A worker that leaves the chain, or was not in it.                        *)
LEMMA OneWorkerElsewhere ==
  ASSUME MkdirInv, UNCHANGED mkdirs, NEW w \in Workers, NEW rec, Moves(w, rec),
         rec.pc \notin Folding
  PROVE  (ChainTyped /\ AboveMade /\ MakingMarked /\ OneMaker)'
<1>1. \A v \in Workers : worker'[v].pc \in Folding => worker'[v] = worker[v]
  BY DEF MkdirInv, JobsTyped, Moves
<1>2. QED
  BY <1>1, ChainKept

(* A worker that enters the chain or goes down in it.                       *)
LEMMA OneWorkerDown ==
  ASSUME MkdirInv, UNCHANGED mkdirs, NEW w \in Workers, NEW rec, Moves(w, rec),
         rec.pc = "chain", rec.job = worker[w].job, rec.job \in Job,
         Kind[rec.job.item] = "mkdir",
         rec.depth \in 1..Len(rec.job.item),
         \A d \in 1..(rec.depth - 1) : mkdirs[Op(w)][SubSeq(Item(w), 1, d)] = "made"
  PROVE  (ChainTyped /\ AboveMade /\ MakingMarked /\ OneMaker)'
<1>1. worker'[w] = rec /\ \A v \in Workers \ {w} : worker'[v] = worker[v]
  BY DEF MkdirInv, JobsTyped, Moves
<1>2. ChainTyped'
  BY <1>1 DEF MkdirInv, ChainTyped, Item
<1>3. AboveMade'
  BY <1>1 DEF MkdirInv, AboveMade, Item, Op
<1>4. MakingMarked'
  BY <1>1 DEF MkdirInv, MakingMarked, At, MkdirState, Op, Target, Item
<1>5. OneMaker'
  <2> SUFFICES ASSUME NEW u \in Workers, NEW v \in Workers, u # v,
                      At(u, "make")', At(v, "make")', (Op(u) = Op(v))'
               PROVE  (Target(u) # Target(v))'
    BY DEF OneMaker
  <2>1. worker'[u] = worker[u] /\ worker'[v] = worker[v]
    BY <1>1 DEF At
  <2>2. QED
    BY <2>1 DEF MkdirInv, OneMaker, At, Op, Target, Item
<1>6. QED
  BY <1>2, <1>3, <1>4, <1>5

(* A worker in the chain has a job, and is at a folder of it.               *)
LEMMA ChainFolders ==
  ASSUME JobsTyped, ChainTyped, NEW w \in Workers, worker[w].pc \in Folding
  PROVE  /\ worker[w].job \in Job /\ Op(w) \in Ops /\ Item(w) \in Items
         /\ worker[w].depth \in 1..Len(Item(w))
         /\ \A d \in 1..worker[w].depth : SubSeq(Item(w), 1, d) \in Folders
         /\ Target(w) \in Folders
<1>1. worker[w].job \in Job /\ Op(w) \in Ops /\ Item(w) \in Items
  BY DEF JobsTyped, Folding, Op, Item, Job
<1>2. worker[w].depth \in 1..Len(Item(w)) /\ Kind[Item(w)] = "mkdir"
  BY DEF ChainTyped
<1>3. Len(Item(w)) \in Nat
  BY <1>1, ItemsArePaths DEF Items
<1>4. \A d \in 1..worker[w].depth : SubSeq(Item(w), 1, d) \in Folders
  BY <1>1, <1>2, <1>3, TargetIsFolder
<1>5. QED
  BY <1>1, <1>2, <1>3, <1>4 DEF Target

(* A worker that begins to make its folder: nobody else has come to it.     *)
LEMMA OwnKeeps == ASSUME MkdirInv, NEW w \in Workers, Own(w) PROVE MkdirInv'
<1> DEFINE o == Op(w)
           f == Target(w)
<1>1. /\ worker[w].pc = "chain" /\ mkdirs[o][f] = "none"
      /\ mkdirs' = [mkdirs EXCEPT ![o][f] = "doing"]
      /\ worker' = [worker EXCEPT ![w] = [worker[w] EXCEPT !.pc = "make"]]
  BY DEF Own, At, MkdirState, Moves
<1>2. o \in Ops /\ f \in Folders
  BY <1>1, ChainFolders DEF MkdirInv, Folding
<1>3. JobsTyped'
  BY <1>1 DEF MkdirInv, JobsTyped, Own, planning, pool
<1>4. \A v \in Workers : /\ worker'[v].pc \in Folding => worker[v].pc \in Folding
                         /\ worker'[v].job = worker[v].job
                         /\ worker'[v].depth = worker[v].depth
                         /\ v # w => worker'[v] = worker[v]
  BY <1>1 DEF MkdirInv, JobsTyped, Folding
<1>5. \A p \in Ops, g \in Folders :
        mkdirs'[p][g] = IF p = o /\ g = f THEN "doing" ELSE mkdirs[p][g]
  BY <1>1, <1>2 DEF MkdirInv, ChainTyped
<1> HIDE DEF o, f
<1>6. ChainTyped'
  <2>1. mkdirs' \in [Ops -> [Folders -> {"none", "doing", "made", "failed"}]]
    BY <1>1 DEF MkdirInv, ChainTyped
  <2>2. ASSUME NEW v \in Workers, worker'[v].pc \in Folding
        PROVE  Kind[Item(v)'] = "mkdir" /\ worker'[v].depth \in 1..Len(Item(v)')
    BY <1>4, <2>2 DEF MkdirInv, ChainTyped, Item
  <2> QED
    BY <2>1, <2>2 DEF ChainTyped
<1>7. AboveMade'
  <2> SUFFICES ASSUME NEW v \in Workers, worker'[v].pc \in Folding,
                      NEW d \in 1..(worker'[v].depth - 1)
               PROVE  mkdirs'[Op(v)][SubSeq(Item(v), 1, d)] = "made"
    BY <1>4 DEF AboveMade, Op, Item
  <2>1. worker[v].pc \in Folding /\ d \in 1..(worker[v].depth - 1)
    BY <1>4
  <2>2. Op(v) \in Ops /\ SubSeq(Item(v), 1, d) \in Folders
    BY <2>1, ChainFolders DEF MkdirInv
  <2>3. mkdirs[Op(v)][SubSeq(Item(v), 1, d)] = "made"
    BY <2>1 DEF MkdirInv, AboveMade
  <2>4. QED
    BY <1>1, <1>5, <2>2, <2>3 DEF o, f
<1>8. MakingMarked'
  <2> SUFFICES ASSUME NEW v \in Workers, worker'[v].pc = "make"
               PROVE  mkdirs'[Op(v)][Target(v)] = "doing"
    BY <1>4 DEF MakingMarked, At, MkdirState, Op, Item, Target
  <2>1. Op(v) \in Ops /\ Target(v) \in Folders
    BY <1>4, ChainFolders DEF MkdirInv, Folding
  <2>2. v # w => mkdirs[Op(v)][Target(v)] = "doing"
    BY <1>4 DEF MkdirInv, MakingMarked, At, MkdirState
  <2>3. QED
    BY <1>5, <2>1, <2>2 DEF o, f
<1>9. OneMaker'
  <2> SUFFICES ASSUME NEW u \in Workers, NEW v \in Workers, u # v,
                      worker'[u].pc = "make", worker'[v].pc = "make",
                      worker'[u].job.op = worker'[v].job.op
               PROVE  SubSeq(worker'[u].job.item, 1, worker'[u].depth)
                      # SubSeq(worker'[v].job.item, 1, worker'[v].depth)
    BY DEF OneMaker, At, Op, Item, Target
  <2>1. /\ worker'[u].job = worker[u].job /\ worker'[u].depth = worker[u].depth
        /\ worker'[v].job = worker[v].job /\ worker'[v].depth = worker[v].depth
    BY <1>4
  <2>2. SUFFICES ASSUME Op(u) = Op(v) PROVE Target(u) # Target(v)
    BY <2>1 DEF Op, Item, Target
  <2>3. \A x \in Workers : worker'[x].pc = "make" /\ x # w
                           => At(x, "make") /\ mkdirs[Op(x)][Target(x)] = "doing"
    BY <1>4 DEF MkdirInv, MakingMarked, At, MkdirState
  <2>4. CASE u # w /\ v # w
    BY <2>2, <2>3, <2>4 DEF MkdirInv, OneMaker
  <2>5. mkdirs[Op(w)][Target(w)] = "none"
    BY <1>1 DEF o, f
  <2>6. CASE u = w \/ v = w
    BY <2>2, <2>3, <2>5, <2>6
  <2>7. QED
    BY <2>4, <2>6
<1>10. QED
  BY <1>3, <1>6, <1>7, <1>8, <1>9 DEF MkdirInv

(* A worker whose mkdir ends: its folder is made or failed, nobody else's    *)
(* folder changes, and it goes down only if it is made.                     *)
LEMMA MakeKeeps == ASSUME MkdirInv, NEW w \in Workers, Make(w) PROVE MkdirInv'
<1> DEFINE o == Op(w)
           f == Target(w)
<1>1. /\ worker[w].pc = "make"
      /\ \E result \in {"made", "failed"} :
           /\ mkdirs' = [mkdirs EXCEPT ![o][f] = result]
           /\ \/ Moves(w, Settling(w, "error")) 
              \/ Moves(w, Onward(w)) /\ result = "made"
  BY DEF Make, At
<1>2. PICK result \in {"made", "failed"} :
        /\ mkdirs' = [mkdirs EXCEPT ![o][f] = result]
        /\ Moves(w, Settling(w, "error")) \/ (Moves(w, Onward(w)) /\ result = "made")
  BY <1>1
<1>3. /\ o \in Ops /\ f \in Folders /\ worker[w].job \in Job /\ Item(w) \in Items
      /\ worker[w].depth \in 1..Len(Item(w)) /\ Kind[Item(w)] = "mkdir"
      /\ Len(Item(w)) \in Nat
  BY <1>1, ChainFolders, ItemsArePaths DEF MkdirInv, ChainTyped, Folding, Items
<1> DEFINE rec == worker'[w]
<1>4. /\ rec.job = worker[w].job
      /\ \/ rec.pc = "settle"
         \/ /\ rec.pc = "chain" /\ result = "made"
            /\ rec.depth = worker[w].depth + 1 /\ worker[w].depth # Len(Item(w))
  <2>1. CASE rec = Settling(w, "error")
    BY <2>1 DEF Settling
  <2>2. CASE rec = Onward(w) /\ result = "made" /\ worker[w].depth = Len(Item(w))
    BY <2>2 DEF Onward, Settling
  <2>3. CASE rec = Onward(w) /\ result = "made" /\ worker[w].depth # Len(Item(w))
    BY <2>3 DEF Onward
  <2>4. QED
    BY <1>2, <2>1, <2>2, <2>3 DEF Moves, MkdirInv, JobsTyped
<1>5. \A v \in Workers : v # w => worker'[v] = worker[v]
  BY <1>2 DEF Moves, MkdirInv, JobsTyped
<1>6. JobsTyped'
  <2>1. DOMAIN worker' = Workers
    BY <1>2 DEF Moves, MkdirInv, JobsTyped
  <2>2. \A v \in Workers : worker'[v].pc \notin {"idle", "stopped"} => worker'[v].job \in Job
    BY <1>3, <1>4, <1>5 DEF MkdirInv, JobsTyped
  <2>3. UNCHANGED <<planned, origin, tree, order, entering, queue, timers, due>>
    BY DEF Make, planning, pool
  <2>4. QED
    BY <2>1, <2>2, <2>3 DEF MkdirInv, JobsTyped
<1>7. \A p \in Ops, g \in Folders :
        mkdirs'[p][g] = IF p = o /\ g = f THEN result ELSE mkdirs[p][g]
  BY <1>2, <1>3 DEF MkdirInv, ChainTyped
<1>8. mkdirs[o][f] = "doing"
  BY <1>1 DEF MkdirInv, MakingMarked, At, MkdirState
<1>9. ChainTyped'
  <2>1. mkdirs' \in [Ops -> [Folders -> {"none", "doing", "made", "failed"}]]
    BY <1>2, <1>3 DEF MkdirInv, ChainTyped
  <2>2. ASSUME NEW v \in Workers, worker'[v].pc \in Folding
        PROVE  Kind[worker'[v].job.item] = "mkdir"
               /\ worker'[v].depth \in 1..Len(worker'[v].job.item)
    <3>1. CASE v = w
      BY <1>3, <1>4, <1>5, <2>2, <3>1 DEF Folding, Item
    <3>2. CASE v # w
      BY <1>5, <2>2, <3>2 DEF MkdirInv, ChainTyped, Item
    <3>3. QED
      BY <3>1, <3>2
  <2>3. QED
    BY <2>1, <2>2 DEF ChainTyped, Item
<1> HIDE DEF o, f
<1>10. AboveMade'
  <2> SUFFICES ASSUME NEW v \in Workers, worker'[v].pc \in Folding,
                      NEW d \in 1..(worker'[v].depth - 1)
               PROVE  mkdirs'[worker'[v].job.op][SubSeq(worker'[v].job.item, 1, d)] = "made"
    BY DEF AboveMade, Op, Item
  <2>1. worker'[v].job = worker[v].job
    BY <1>4, <1>5
  <2>2. worker[v].pc \in Folding
    BY <1>1, <1>5 DEF Folding
  <2>3. d \in 1..worker[v].depth
    <3>1. CASE v = w
      BY <1>3, <1>4, <1>5, <3>1 DEF Folding
    <3>2. CASE v # w
      BY <1>5, <2>2, <3>2, ChainFolders DEF MkdirInv
    <3>3. QED
      BY <3>1, <3>2
  <2>4. Op(v) \in Ops /\ SubSeq(Item(v), 1, d) \in Folders
    BY <2>2, <2>3, ChainFolders DEF MkdirInv
  <2>5. CASE d \in 1..(worker[v].depth - 1)
    <3>1. mkdirs[Op(v)][SubSeq(Item(v), 1, d)] = "made"
      BY <2>2, <2>5 DEF MkdirInv, AboveMade
    <3>2. mkdirs'[Op(v)][SubSeq(Item(v), 1, d)] = "made"
      BY <1>7, <1>8, <2>4, <3>1
    <3>3. QED
      BY <2>1, <3>2 DEF Op, Item
  <2>6. CASE d \notin 1..(worker[v].depth - 1)
    <3>1. v = w /\ d = worker[w].depth /\ result = "made"
      BY <1>3, <1>4, <1>5, <2>3, <2>6 DEF Folding
    <3>2. SubSeq(Item(v), 1, d) = f /\ Op(v) = o
      BY <3>1 DEF f, o, Target
    <3>3. mkdirs'[Op(v)][SubSeq(Item(v), 1, d)] = "made"
      BY <1>7, <2>4, <3>1, <3>2
    <3>4. QED
      BY <2>1, <3>3 DEF Op, Item
  <2>7. QED
    BY <2>5, <2>6
<1>11. \A v \in Workers : worker'[v].pc = "make" => v # w /\ At(v, "make") /\ worker'[v] = worker[v]
  BY <1>4, <1>5 DEF At
<1>12. MakingMarked'
  <2> SUFFICES ASSUME NEW v \in Workers, worker'[v].pc = "make"
               PROVE  mkdirs'[Op(v)][Target(v)] = "doing"
    BY <1>11 DEF MakingMarked, At, MkdirState, Op, Item, Target
  <2>1. Op(v) \in Ops /\ Target(v) \in Folders
    BY <1>11, ChainFolders DEF MkdirInv, Folding, At
  <2>2. mkdirs[Op(v)][Target(v)] = "doing"
    BY <1>11 DEF MkdirInv, MakingMarked, MkdirState
  <2>3. Op(v) # o \/ Target(v) # f
    BY <1>1, <1>11 DEF MkdirInv, OneMaker, At, o, f
  <2>4. QED
    BY <1>7, <2>1, <2>2, <2>3
<1>13. OneMaker'
  <2> SUFFICES ASSUME NEW v \in Workers, NEW u \in Workers, v # u, At(v, "make")', At(u, "make")',
                      Op(v)' = Op(u)'
               PROVE  Target(v)' # Target(u)'
    BY DEF OneMaker
  <2>1. /\ At(v, "make") /\ worker'[v] = worker[v]
        /\ At(u, "make") /\ worker'[u] = worker[u]
    BY <1>11 DEF At
  <2>2. Op(v) = Op(u)
    BY <2>1 DEF Op
  <2>3. Target(v) # Target(u)
    BY <2>1, <2>2 DEF MkdirInv, OneMaker
  <2> QED
    BY <2>1, <2>3 DEF Target, Item
<1>14. QED
  BY <1>6, <1>9, <1>10, <1>12, <1>13 DEF MkdirInv

-----------------------------------------------------------------------------
(* Steps outside the chain: the jobs stay typed.                            *)

(* A worker changes, and the rest of what is typed does not.                *)
LEMMA OneWorkerTyped ==
  ASSUME JobsTyped, NEW w \in Workers, NEW rec, Moves(w, rec),
         rec.pc \notin {"idle", "stopped"} => rec.job \in Job,
         UNCHANGED <<planned, origin, tree, entering>>,
         order' \in Nat, queue' \subseteq Job, timers' \subseteq Job, due' \subseteq Job
  PROVE  JobsTyped'
  BY DEF JobsTyped, Moves

(* A step of a worker that neither is nor comes into the chain.             *)
LEMMA OneWorkerOutside ==
  ASSUME MkdirInv, NEW w \in Workers, NEW rec, Moves(w, rec), UNCHANGED mkdirs,
         rec.pc \notin Folding,
         rec.pc \notin {"idle", "stopped"} => rec.job \in Job,
         UNCHANGED <<planned, origin, tree, entering>>,
         order' \in Nat, queue' \subseteq Job, timers' \subseteq Job, due' \subseteq Job
  PROVE  MkdirInv'
<1>1. JobsTyped'
  BY OneWorkerTyped DEF MkdirInv
<1>2. QED
  BY <1>1, OneWorkerElsewhere DEF MkdirInv

(* Taking a job, and stopping.                                              *)
LEMMA TakeKeeps == ASSUME MkdirInv, NEW w \in Workers, Take(w) \/ Quit(w) PROVE MkdirInv'
<1>1. CASE Take(w)
  <2>1. PICK j \in queue : Moves(w, [pc |-> "got", job |-> j]) /\ queue' = queue \ {j}
    BY <1>1 DEF Take
  <2> DEFINE rec == [pc |-> "got", job |-> j]
  <2>2. /\ rec.pc \notin Folding /\ rec.job \in Job
        /\ order' \in Nat /\ queue' \subseteq Job /\ timers' \subseteq Job /\ due' \subseteq Job
        /\ UNCHANGED <<mkdirs, planned, origin, tree, entering>>
    BY <1>1, <2>1 DEF Take, MkdirInv, JobsTyped, Folding, planning
  <2> HIDE DEF rec
  <2>3. QED
    BY <2>1, <2>2, OneWorkerOutside DEF rec
<1>2. CASE Quit(w)
  <2> DEFINE rec == [pc |-> "stopped"]
  <2>1. /\ rec.pc \notin Folding /\ rec.pc = "stopped" /\ Moves(w, rec)
        /\ order' \in Nat /\ queue' \subseteq Job /\ timers' \subseteq Job /\ due' \subseteq Job
        /\ UNCHANGED <<mkdirs, planned, origin, tree, entering>>
    BY <1>2 DEF Quit, MkdirInv, JobsTyped, Folding, planning
  <2> HIDE DEF rec
  <2>2. QED
    BY <2>1, OneWorkerOutside
<1>3. QED
  BY <1>1, <1>2

(* Settling a job, arming its timer and reporting the operation.            *)
LEMMA SettleKeeps ==
  ASSUME MkdirInv, NEW w \in Workers, Settle(w) \/ Arm(w) \/ Refresh(w) \/ Report(w)
  PROVE  MkdirInv'
<1> DEFINE job == worker[w].job
<1>1. PICK rec : /\ Moves(w, rec)
                 /\ \/ rec.pc = "idle"
                    \/ rec.pc \in {"report", "arm"} /\ rec.job = job
                       /\ worker[w].pc \in {"settle", "report"}
  <2>1. CASE Settle(w)
    BY <2>1 DEF Settle, At, Idle
  <2>2. CASE Arm(w)
    BY <2>2 DEF Arm, Idle
  <2>3. CASE Refresh(w)
    <3>1. PICK f \in worker[w].parents : Moves(w, [worker[w] EXCEPT !.parents = @ \ {f}])
      BY <2>3 DEF Refresh
    <3>2. worker[w].pc = "report"
      BY <2>3 DEF Refresh, At
    <3> DEFINE r == [worker[w] EXCEPT !.parents = @ \ {f}]
    <3>3. r.pc = "report" /\ r.job = job
      BY <3>2
    <3> HIDE DEF r, job
    <3>4. QED
      BY <3>1, <3>2, <3>3 DEF r
  <2>4. CASE Report(w)
    BY <2>4 DEF Report, Idle
  <2>5. QED
    BY <2>1, <2>2, <2>3, <2>4
<1>2. rec.pc \notin Folding /\ (rec.pc \notin {"idle", "stopped"} => rec.job \in Job)
  BY <1>1 DEF MkdirInv, JobsTyped, Folding
<1>3. UNCHANGED <<mkdirs, planned, origin, tree, entering, order, queue, due>>
  BY DEF Settle, Arm, Refresh, Report, planning, pool
<1>4. timers' \subseteq Job
  <2>1. CASE Arm(w)
    BY <2>1 DEF Arm, At, MkdirInv, JobsTyped
  <2>2. CASE Settle(w) \/ Refresh(w) \/ Report(w)
    BY <2>2 DEF Settle, Refresh, Report, pool, MkdirInv, JobsTyped
  <2>3. QED
    BY <2>1, <2>2
<1>5. order' \in Nat /\ queue' \subseteq Job /\ due' \subseteq Job
  BY <1>3 DEF MkdirInv, JobsTyped
<1>6. QED
  BY <1>1, <1>2, <1>3, <1>4, <1>5, OneWorkerOutside

(* The clone that is retried is a job: it has an attempt left.              *)
LEMMA RetryIsJob ==
  ASSUME NEW j \in Job, order \in Nat, MayRetry(j)
  PROVE  Again(j) \in Job
<1>1. j.op \in Ops /\ j.item \in Items /\ j.attempt \in 1..MaxAttempts /\ j.order \in Nat
  BY DEF Job
<1> DEFINE k == [j EXCEPT !.attempt = @ + 1]
<1>2. k \in Job
  BY <1>1, Attempts DEF MayRetry, Job
<1> HIDE DEF k
<1>3. [k EXCEPT !.order = order + 1] \in Job
  BY <1>2 DEF Job
<1>4. Again(j) = [k EXCEPT !.order = order + 1]
  BY DEF Again, Job, k
<1>5. QED
  BY <1>3, <1>4

(* A copy: the job is settled as it is, or as a retry with one more attempt. *)
LEMMA ExecuteKeeps == ASSUME MkdirInv, NEW w \in Workers, Execute(w) PROVE MkdirInv'
<1> DEFINE job == worker[w].job
<1>1. job \in Job /\ order \in Nat /\ worker[w].pc = "copy"
  BY DEF Execute, At, MkdirInv, JobsTyped
<1>2. MayRetry(job) => Again(job) \in Job
  BY <1>1, RetryIsJob
<1>3. PICK rec : Moves(w, rec) /\ rec.pc = "settle" /\ rec.job \in Job
  <2>1. CASE Moves(w, Settling(w, "ok"))
    BY <1>1, <2>1 DEF Settling
  <2>2. CASE Moves(w, Settling(w, "error"))
    BY <1>1, <2>2 DEF Settling
  <2>3. CASE /\ MayRetry(job)
             /\ Moves(w, [pc |-> "settle", job |-> Again(job), outcome |-> "retry"])
    <3> DEFINE r == [pc |-> "settle", job |-> Again(job), outcome |-> "retry"]
    <3>1. r.pc = "settle" /\ r.job \in Job /\ Moves(w, r)
      BY <1>2, <2>3
    <3> HIDE DEF r
    <3>2. QED
      BY <3>1
  <2>4. QED
    BY <2>1, <2>2, <2>3 DEF Execute
<1>4. UNCHANGED <<mkdirs, planned, origin, tree, entering, queue, timers, due>>
  BY DEF Execute, planning, pool
<1>5. order' \in Nat /\ queue' \subseteq Job /\ timers' \subseteq Job /\ due' \subseteq Job
  BY <1>1, <1>4 DEF Execute, MkdirInv, JobsTyped
<1>6. QED
  BY <1>3, <1>4, <1>5, OneWorkerOutside DEF Folding

(* A worker that comes into the chain, at the top folder of its item.       *)
LEMMA StartKeeps == ASSUME MkdirInv, NEW w \in Workers, Start(w) PROVE MkdirInv'
<1> DEFINE job == worker[w].job
<1>1. job \in Job /\ worker[w].pc = "got"
  BY DEF Start, At, MkdirInv, JobsTyped
<1>2. UNCHANGED <<mkdirs, planned, origin, tree, entering, order, queue, timers, due>>
  BY DEF Start, planning, pool
<1>3. order' \in Nat /\ queue' \subseteq Job /\ timers' \subseteq Job /\ due' \subseteq Job
  BY <1>2 DEF MkdirInv, JobsTyped
<1>4. CASE Moves(w, SourceFound(w)) /\ Kind[Item(w)] = "mkdir"
  <2> DEFINE rec == SourceFound(w)
  <2>1. /\ Moves(w, rec) /\ rec.pc = "chain" /\ rec.job = job /\ rec.depth = 1
        /\ Kind[rec.job.item] = "mkdir"
    BY <1>4 DEF SourceFound, Item
  <2> HIDE DEF rec
  <2>2. rec.depth \in 1..Len(rec.job.item)
    BY <1>1, <2>1, ItemsArePaths DEF Job, Items
  <2>3. \A d \in 1..(rec.depth - 1) : mkdirs[Op(w)][SubSeq(Item(w), 1, d)] = "made"
    BY <2>1
  <2>4. (ChainTyped /\ AboveMade /\ MakingMarked /\ OneMaker)'
    BY <1>1, <1>2, <2>1, <2>2, <2>3, OneWorkerDown
  <2>5. JobsTyped'
    BY <1>1, <1>2, <1>3, <2>1, OneWorkerTyped DEF MkdirInv
  <2>6. QED
    BY <2>4, <2>5 DEF MkdirInv
<1>5. CASE \E rec : Moves(w, rec) /\ (rec.pc = "idle" \/ (rec.pc \in {"copy", "settle"} /\ rec.job = job))
  <2>1. PICK rec : Moves(w, rec) /\ (rec.pc = "idle" \/ (rec.pc \in {"copy", "settle"} /\ rec.job = job))
    BY <1>5
  <2>2. QED
    BY <1>1, <1>2, <1>3, <2>1, OneWorkerOutside DEF Folding
<1>6. QED
  BY <1>4, <1>5 DEF Start, Idle, Settling

(* A worker that finds its folder made or failed by another one.            *)
LEMMA FollowKeeps == ASSUME MkdirInv, NEW w \in Workers, Follow(w) PROVE MkdirInv'
<1> DEFINE job == worker[w].job
<1>1. /\ worker[w].pc = "chain" /\ job \in Job /\ Item(w) \in Items
      /\ worker[w].depth \in 1..Len(Item(w)) /\ Len(Item(w)) \in Nat
      /\ Kind[Item(w)] = "mkdir"
  BY ChainFolders, ItemsArePaths DEF Follow, At, MkdirInv, ChainTyped, Folding, Items
<1>2. UNCHANGED <<mkdirs, planned, origin, tree, entering, order, queue, timers, due>>
  BY DEF Follow, planning, pool
<1>3. order' \in Nat /\ queue' \subseteq Job /\ timers' \subseteq Job /\ due' \subseteq Job
  BY <1>2 DEF MkdirInv, JobsTyped
<1>4. CASE MkdirState(w) = "made" /\ worker[w].depth # Len(Item(w))
  <2> DEFINE rec == [pc |-> "chain", job |-> job, depth |-> worker[w].depth + 1]
  <2>1. Moves(w, rec) /\ rec.pc = "chain" /\ rec.job = job /\ rec.depth = worker[w].depth + 1
    BY <1>4 DEF Follow, Onward
  <2> HIDE DEF rec
  <2>2. rec.depth \in 1..Len(rec.job.item) /\ Kind[rec.job.item] = "mkdir"
    BY <1>1, <1>4, <2>1 DEF Item
  <2>3. ASSUME NEW d \in 1..(rec.depth - 1)
        PROVE  mkdirs[Op(w)][SubSeq(Item(w), 1, d)] = "made"
    <3>1. CASE d = worker[w].depth
      BY <1>4, <3>1 DEF MkdirState, Target
    <3>2. CASE d # worker[w].depth
      <4>1. d \in 1..(worker[w].depth - 1)
        BY <1>1, <2>1, <3>2
      <4>2. QED
        BY <1>1, <4>1 DEF MkdirInv, AboveMade, Folding
    <3>3. QED
      BY <3>1, <3>2
  <2>4. (ChainTyped /\ AboveMade /\ MakingMarked /\ OneMaker)'
    BY <1>1, <1>2, <2>1, <2>2, <2>3, OneWorkerDown
  <2>5. JobsTyped'
    BY <1>1, <1>2, <1>3, <2>1, OneWorkerTyped DEF MkdirInv
  <2>6. QED
    BY <2>4, <2>5 DEF MkdirInv
<1>5. CASE MkdirState(w) # "made" \/ worker[w].depth = Len(Item(w))
  <2>1. PICK outcome \in {"ok", "error"} : Moves(w, Settling(w, outcome))
    BY <1>5 DEF Follow, Onward
  <2> DEFINE rec == Settling(w, outcome)
  <2>2. Moves(w, rec) /\ rec.pc = "settle" /\ rec.job = job
    BY <2>1 DEF Settling
  <2> HIDE DEF rec
  <2>3. QED
    BY <1>1, <1>2, <1>3, <2>2, OneWorkerOutside DEF Folding
<1>6. QED
  BY <1>4, <1>5

-----------------------------------------------------------------------------
(* Steps of request threads and timers, and the shutdown.                   *)

(* The jobs that submit builds are jobs.                                    *)
LEMMA SubmitKeeps == ASSUME MkdirInv, NEW o \in Ops, Submit(o) PROVE MkdirInv'
<1>1. UNCHANGED <<mkdirs, worker, planned, origin, tree, queue, timers, due>>
  BY DEF Submit, planning, pool
<1>2. order' \in Nat /\ entering' \in [Ops -> Seq(Job)]
  <2>1. CASE UNCHANGED <<entering, order>>
    BY <2>1 DEF MkdirInv, JobsTyped
  <2>2. CASE /\ entering' = [entering EXCEPT ![o] =
                               [n \in 1..Len(Wanted(o)) |->
                                  [op |-> o, item |-> Wanted(o)[n], attempt |-> 1,
                                   order |-> order + n]]]
             /\ order' = order + Len(Wanted(o))
    <3>1. Wanted(o) \in Seq(Items)
      BY WantedItems DEF MkdirInv, Submit
    <3> DEFINE jobs == [n \in 1..Len(Wanted(o)) |->
                          [op |-> o, item |-> Wanted(o)[n], attempt |-> 1, order |-> order + n]]
    <3>2. ASSUME NEW n \in 1..Len(Wanted(o)) PROVE jobs[n] \in Job
      BY <3>1, Attempts DEF MkdirInv, JobsTyped, Job
    <3>3. jobs \in Seq(Job)
      BY <3>1, <3>2
    <3>4. QED
      BY <2>2, <3>1, <3>3 DEF MkdirInv, JobsTyped
  <2>3. QED
    BY <2>1, <2>2 DEF Submit
<1>3. JobsTyped'
  BY <1>1, <1>2 DEF MkdirInv, JobsTyped
<1>4. QED
  BY <1>1, <1>3, ChainKept DEF MkdirInv

(* Jobs move between the queue and the timers.                              *)
LEMMA PoolKeeps ==
  ASSUME MkdirInv,
         \/ \E o \in Ops : Put(o)
         \/ \E j \in timers : Fire(j)
         \/ \E j \in due : PutAgain(j)
         \/ Shutdown
  PROVE  MkdirInv'
<1>1. UNCHANGED <<mkdirs, worker, planned, origin, tree, order>>
  BY DEF Put, Fire, PutAgain, Shutdown, planning
<1>2. /\ entering' \in [Ops -> Seq(Job)]
      /\ queue' \subseteq Job /\ timers' \subseteq Job /\ due' \subseteq Job
  <2>1. CASE \E o \in Ops : Put(o)
    <3>1. PICK o \in Ops : Put(o)
      BY <2>1
    <3>2. entering[o] \in Seq(Job) /\ entering[o] # <<>>
      BY <3>1 DEF Put, MkdirInv, JobsTyped
    <3>3. Head(entering[o]) \in Job /\ Tail(entering[o]) \in Seq(Job)
      BY <3>2
    <3>4. QED
      BY <3>1, <3>3 DEF Put, MkdirInv, JobsTyped
  <2>2. CASE \E j \in timers : Fire(j)
    BY <2>2 DEF Fire, MkdirInv, JobsTyped
  <2>3. CASE \E j \in due : PutAgain(j)
    BY <2>3 DEF PutAgain, MkdirInv, JobsTyped
  <2>4. CASE Shutdown
    BY <2>4 DEF Shutdown, MkdirInv, JobsTyped
  <2>5. QED
    BY <2>1, <2>2, <2>3, <2>4
<1>3. JobsTyped'
  BY <1>1, <1>2 DEF MkdirInv, JobsTyped
<1>4. QED
  BY <1>1, <1>3, ChainKept DEF MkdirInv

(* A plan is made of what a scan finds, and is consumed by a batch.         *)
LEMMA PlanKeeps ==
  ASSUME MkdirInv,
         \/ TreeChanges
         \/ \E p \in Plans : StartPlan(p) \/ EndPlan(p)
         \/ \E o \in Batches, p \in Plans : Confirm(o, p)
  PROVE  MkdirInv'
<1>1. UNCHANGED <<mkdirs, worker, entering, order, queue, timers, due>>
  BY DEF TreeChanges, StartPlan, EndPlan, Confirm, pool
<1>2. /\ planned' \in [Plans -> [tree: Nat, items: Seq(Items)]]
      /\ origin' \in [Batches -> Plans \cup {None}] /\ tree' \in Nat
  <2>1. CASE TreeChanges
    BY <2>1 DEF TreeChanges, MkdirInv, JobsTyped
  <2>2. CASE \E p \in Plans : StartPlan(p)
    <3>1. PICK p \in Plans, found \in Finds :
            /\ planned' = [planned EXCEPT ![p] = [tree |-> tree, items |-> found]]
            /\ UNCHANGED <<origin, tree>>
      BY <2>2 DEF StartPlan
    <3>2. [tree |-> tree, items |-> found] \in [tree: Nat, items: Seq(Items)]
      BY ItemsArePaths DEF MkdirInv, JobsTyped, Items
    <3>3. QED
      BY <3>1, <3>2 DEF MkdirInv, JobsTyped
  <2>3. CASE \E p \in Plans : EndPlan(p)
    BY <2>3 DEF EndPlan, MkdirInv, JobsTyped
  <2>4. CASE \E o \in Batches, p \in Plans : Confirm(o, p)
    BY <2>4 DEF Confirm, MkdirInv, JobsTyped
  <2>5. QED
    BY <2>1, <2>2, <2>3, <2>4
<1>3. JobsTyped'
  BY <1>1, <1>2 DEF MkdirInv, JobsTyped
<1>4. QED
  BY <1>1, <1>3, ChainKept DEF MkdirInv

-----------------------------------------------------------------------------
(* Every step keeps MkdirInv.                                               *)
LEMMA NextMkdir == MkdirInv /\ [Next]_vars => MkdirInv'
<1> SUFFICES ASSUME MkdirInv, [Next]_vars PROVE MkdirInv'
  OBVIOUS
<1>1. CASE \E w \in Workers : Run(w)
  BY <1>1, TakeKeeps, StartKeeps, ExecuteKeeps, OwnKeeps, MakeKeeps, FollowKeeps,
     SettleKeeps DEF Run
<1>2. CASE \E o \in Ops : Submit(o)
  BY <1>2, SubmitKeeps
<1>3. CASE \/ \E o \in Ops : Put(o)
           \/ \E j \in timers : Fire(j)
           \/ \E j \in due : PutAgain(j)
           \/ Shutdown
  BY <1>3, PoolKeeps
<1>4. CASE \/ TreeChanges
           \/ \E p \in Plans : StartPlan(p) \/ EndPlan(p)
           \/ \E o \in Batches, p \in Plans : Confirm(o, p)
  BY <1>4, PlanKeeps
<1>5. CASE UNCHANGED vars
  <2>1. UNCHANGED <<mkdirs, worker, planned, origin, tree, entering, order, queue, timers, due>>
    BY <1>5 DEF vars, planning, pool
  <2>2. JobsTyped'
    BY <2>1 DEF MkdirInv, JobsTyped
  <2>3. QED
    BY <2>1, <2>2, ChainKept DEF MkdirInv
<1>6. QED
  BY <1>1, <1>2, <1>3, <1>4, <1>5 DEF Next

(* The invariant of the program, for any number of workers.                 *)
THEOREM MkdirInvHolds == Spec => []MkdirInv
<1>1. QED
  BY InitMkdir, NextMkdir, PTL DEF Spec

(* In one operation no two workers ever make the same Dropbox folder, and    *)
(* every folder is made after all those above it.                           *)
THEOREM FoldersMadeOnceInOrder == Spec => []MadeOnceInOrder
<1>1. MkdirInv => MadeOnceInOrder
  BY DEF MkdirInv, OneMaker, AboveMade, MadeOnceInOrder, Folding, At
<1>2. QED
  BY <1>1, MkdirInvHolds, PTL

-----------------------------------------------------------------------------
(* What a batch has consumed is used up, and nobody else has consumed it.   *)
PlanInv ==
  /\ origin \in [Batches -> Plans \cup {None}]
  /\ DOMAIN plan = Plans
  /\ \A a \in Batches : origin[a] \in Plans => plan[origin[a]] = "used"
  /\ \A a, b \in Batches : a # b /\ origin[a] \in Plans => origin[a] # origin[b]

(* Consuming a plan needs a ready one, and a used plan stays used.          *)
LEMMA NextPlan == PlanInv /\ [Next]_vars => PlanInv'
<1> SUFFICES ASSUME PlanInv, [Next]_vars PROVE PlanInv'
  OBVIOUS
<1>1. CASE UNCHANGED <<plan, origin>>
  BY <1>1 DEF PlanInv
<1>2. CASE \E p \in Plans : StartPlan(p) \/ EndPlan(p)
  <2>1. PICK p \in Plans, to \in {"scanning", "ready", "failed", "expired"} :
          plan[p] # "used" /\ plan' = [plan EXCEPT ![p] = to] /\ origin' = origin
    BY <1>2 DEF StartPlan, EndPlan
  <2>2. QED
    BY <2>1 DEF PlanInv
<1>3. CASE \E o \in Batches, p \in Plans : Confirm(o, p)
  <2>1. PICK o \in Batches, p \in Plans :
          /\ plan[p] = "ready" /\ plan' = [plan EXCEPT ![p] = "used"]
          /\ origin' = [origin EXCEPT ![o] = p]
    BY <1>3 DEF Confirm
  <2>2. QED
    BY <2>1 DEF PlanInv
<1>4. QED
  BY <1>1, <1>2, <1>3 DEF Next, vars, planning, TreeChanges, Submit, Put, Run, Take, Quit,
     Start, Execute, Own, Make, Follow, Settle, Arm, Refresh, Report, Fire, PutAgain, Shutdown

(* A plan is copied by one batch at most, however often it is confirmed.    *)
THEOREM PlanIsUsedOnce == Spec => []PlanUsedOnce
<1>1. Init => PlanInv
  BY NoPlan DEF Init, PlanInv
<1>2. PlanInv => PlanUsedOnce
  BY DEF PlanInv, PlanUsedOnce
<1>3. QED
  BY <1>1, <1>2, NextPlan, PTL DEF Spec

-----------------------------------------------------------------------------
(* Jobs and operations: what is counted, reported and fresh                 *)

Active == {"got", "arm"} \cup Working
Pool == queue \cup due \cup timers

(* No job is in two places.                                                 *)
Apart ==
  /\ queue \cap due = {} /\ (queue \cup due) \cap timers = {}
  /\ \A w \in Workers : worker[w].pc \in Active => worker[w].job \notin Pool
  /\ \A v, w \in Workers :
       v # w /\ worker[v].pc \in Active /\ worker[w].pc \in Active
         => worker[v].job # worker[w].job
  /\ \A o \in Ops : \A n \in 1..Len(entering[o]) :
       /\ entering[o][n].op = o
       /\ entering[o][n] \notin Pool
       /\ \A w \in Workers : worker[w].pc \in Active => worker[w].job # entering[o][n]
       /\ \A m \in 1..Len(entering[o]) : m # n => entering[o][m] # entering[o][n]

(* A job has the number of a submission that has been.                      *)
Numbered ==
  /\ \A j \in Pool : j.order <= order
  /\ \A w \in Workers : worker[w].pc \in Active => worker[w].job.order <= order
  /\ \A o \in Ops : \A n \in 1..Len(entering[o]) : entering[o][n].order <= order

PlaceInv == Apart /\ Numbered

(* An open operation has counted its jobs, and one that has no group has no  *)
(* job anywhere.                                                            *)
NoJob(o) ==
  /\ entering[o] = <<>> /\ Queued(o) = {} /\ Ticking(o) = {}
  /\ Held(o, Working) = {} /\ Held(o, {"got"}) = {} /\ Held(o, {"arm"}) = {}
Kept(o) == IF group[o] = None THEN NoJob(o) ELSE Balanced(o, group[o])

(* A shutdown has lost a retry of o: its group never closes.                *)
Lost(o) == group[o] # None /\ group[o].retries > Retrying(o)

(* An operation with a group, or whose group a worker has just closed, is    *)
(* running, and one worker closes it.                                       *)
OneReporter ==
  /\ \A o \in Ops : group[o] # None => status[o] = "running"
  /\ \A w \in Workers : At(w, "report") => group[Op(w)] = None /\ status[Op(w)] = "running"
  /\ \A v, w \in Workers : v # w /\ At(v, "report") /\ At(w, "report") => Op(v) # Op(w)

GroupsTyped ==
  /\ group \in [Ops -> Group \cup {None}]
  /\ DOMAIN status = Ops
  /\ IsFiniteSet(queue) /\ IsFiniteSet(due) /\ IsFiniteSet(timers)

CountInv == GroupsTyped /\ OneReporter /\ \A o \in Ops : Kept(o)

(* Where a folder of operation o that is stale is remembered: by a worker   *)
(* that has yet to settle its job, in the group, or by the worker that      *)
(* invalidates the folders of the closed operation.                         *)
Covers(dirs, f) == \E d \in dirs : f \in Prefixes(d)
Remembers(w, f) ==
  \/ /\ worker[w].pc \in Folding \/ (At(w, "settle") /\ worker[w].outcome # "retry")
     /\ Covers(Touches(Item(w)), f)
  \/ At(w, "report") /\ Covers(worker[w].parents, f)
StaleInv ==
  \A o \in Ops, f \in Folders : <<o, f>> \in stale =>
    \/ \E w \in Workers : Remembers(w, f) /\ Op(w) = o
    \/ group[o] # None /\ Covers(group[o].touched, f)

SettleInv == MkdirInv /\ PlaceInv /\ CountInv /\ StaleInv

-----------------------------------------------------------------------------
(* One worker moves, the others stay.                                       *)
LEMMA OthersStay ==
  ASSUME JobsTyped, NEW w \in Workers, NEW rec, Moves(w, rec)
  PROVE  /\ worker'[w] = rec
         /\ \A v \in Workers \ {w} : worker'[v] = worker[v]
  BY DEF JobsTyped, Moves

(* The steps in which a worker at most lets go of its job.                  *)
LEMMA PlaceOfWorker ==
  ASSUME JobsTyped, PlaceInv, UNCHANGED <<queue, due, timers, entering, order>>,
         NEW w \in Workers, NEW rec, Moves(w, rec),
         rec.pc \in Active => worker[w].pc \in Active /\ rec.job = worker[w].job
  PROVE  PlaceInv'
<1>1. \A v \in Workers : worker'[v].pc \in Active
         => worker[v].pc \in Active /\ worker'[v].job = worker[v].job
  BY OthersStay
<1>2. Pool' = Pool
  BY DEF Pool
<1> HIDE DEF Active, Pool
<1>3. Apart'
  BY <1>1, <1>2 DEF PlaceInv, Apart
<1>4. Numbered'
  BY <1>1, <1>2 DEF PlaceInv, Numbered
<1>5. QED
  BY <1>3, <1>4 DEF PlaceInv

(* A throttled job goes on as a clone with a number that nothing has.       *)
LEMMA PlaceOfClone ==
  ASSUME JobsTyped, PlaceInv, UNCHANGED <<queue, due, timers, entering>>,
         NEW w \in Workers, NEW rec, Moves(w, rec),
         rec.job \in Job, rec.job.order = order + 1, order' = order + 1
  PROVE  PlaceInv'
<1>1. worker'[w] = rec /\ \A v \in Workers \ {w} : worker'[v] = worker[v]
  BY OthersStay
<1>2. Pool' = Pool /\ order \in Nat
  BY DEF Pool, JobsTyped
<1>3. \A j \in Pool : j.order \in Nat
  BY DEF JobsTyped, Pool, Job
<1>4. \A v \in Workers : worker[v].pc \in Active => worker[v].job.order \in Nat
  BY DEF JobsTyped, Job, Active, Working
<1>5. ASSUME NEW o \in Ops, NEW n \in 1..Len(entering[o]) PROVE entering[o][n].order \in Nat
  <2>1. entering[o] \in Seq(Job)
    BY DEF JobsTyped
  <2>2. entering[o][n] \in Job
    BY <2>1
  <2>3. QED
    BY <2>2 DEF Job
<1> HIDE DEF Active, Pool
<1>6. Apart'
  BY <1>1, <1>2, <1>3, <1>4, <1>5 DEF PlaceInv, Apart, Numbered
<1>7. Numbered'
  BY <1>1, <1>2, <1>3, <1>4, <1>5 DEF PlaceInv, Numbered
<1>8. QED
  BY <1>6, <1>7 DEF PlaceInv

(* A job goes from the queue to a worker.                                   *)
LEMMA PlaceOfTaken ==
  ASSUME JobsTyped, PlaceInv, NEW w \in Workers, Take(w)
  PROVE  PlaceInv'
<1>1. PICK j \in queue : /\ queue' = queue \ {j}
                         /\ Moves(w, [pc |-> "got", job |-> j])
  BY DEF Take
<1>2. UNCHANGED <<due, timers, entering, order>>
  BY DEF Take
<1>3. /\ worker'[w].job = j
      /\ \A v \in Workers \ {w} : worker'[v] = worker[v]
  BY <1>1, OthersStay
<1>4. Pool' = Pool \ {j} /\ j \in Pool
  BY <1>1, <1>2 DEF Pool, PlaceInv, Apart
<1> HIDE DEF Active
<1>5. Apart'
  BY <1>1, <1>2, <1>3, <1>4 DEF PlaceInv, Apart
<1>6. Numbered'
  BY <1>1, <1>2, <1>3, <1>4 DEF PlaceInv, Numbered
<1>7. QED
  BY <1>5, <1>6 DEF PlaceInv

(* A job goes from a worker to a timer, or is lost in the shutdown.         *)
LEMMA PlaceOfArmed ==
  ASSUME JobsTyped, PlaceInv, NEW w \in Workers, Arm(w)
  PROVE  PlaceInv'
<1>1. /\ worker[w].pc \in Active
      /\ UNCHANGED <<queue, due, entering, order>>
      /\ timers' = timers \/ timers' = timers \cup {worker[w].job}
  BY DEF Arm, At, Active
<1>2. /\ worker'[w].pc \notin Active
      /\ \A v \in Workers \ {w} : worker'[v] = worker[v]
  BY OthersStay DEF Arm, Idle, Active, Working
<1>3. Pool' \subseteq Pool \cup {worker[w].job}
  BY <1>1 DEF Pool
<1>4. queue' \cap due' = {} /\ (queue' \cup due') \cap timers' = {}
  BY <1>1 DEF PlaceInv, Apart, Pool
<1> HIDE DEF Active, Pool
<1>5. Apart'
  BY <1>1, <1>2, <1>3, <1>4 DEF PlaceInv, Apart
<1>6. Numbered'
  BY <1>1, <1>2, <1>3 DEF PlaceInv, Numbered
<1>7. QED
  BY <1>5, <1>6 DEF PlaceInv

(* Timers fire and are cancelled, and their jobs go back into the queue.    *)
LEMMA PlaceInPool ==
  ASSUME JobsTyped, PlaceInv,
         (\E j \in timers : Fire(j)) \/ (\E j \in due : PutAgain(j)) \/ Shutdown
  PROVE  PlaceInv'
<1>1. UNCHANGED <<worker, entering, order>>
  BY DEF Fire, PutAgain, Shutdown
<1>2. /\ Pool' \subseteq Pool
      /\ queue' \cap due' = {} /\ (queue' \cup due') \cap timers' = {}
  <2>1. CASE \E j \in timers : Fire(j)
    BY <2>1 DEF Fire, Pool, PlaceInv, Apart
  <2>2. CASE \E j \in due : PutAgain(j)
    BY <2>2 DEF PutAgain, Pool, PlaceInv, Apart
  <2>3. CASE Shutdown
    BY <2>3 DEF Shutdown, Pool, PlaceInv, Apart
  <2>4. QED
    BY <2>1, <2>2, <2>3
<1> HIDE DEF Active, Pool
<1>3. Apart'
  BY <1>1, <1>2 DEF PlaceInv, Apart
<1>4. Numbered'
  BY <1>1, <1>2 DEF PlaceInv, Numbered
<1>5. QED
  BY <1>3, <1>4 DEF PlaceInv

(* submit puts the first of its jobs into the queue.                        *)
LEMMA PlaceOfPut ==
  ASSUME JobsTyped, PlaceInv, NEW o \in Ops, Put(o)
  PROVE  PlaceInv'
<1> DEFINE j == Head(entering[o])
<1>1. /\ entering[o] # <<>> /\ queue' = queue \cup {j}
      /\ entering' = [entering EXCEPT ![o] = Tail(entering[o])]
      /\ UNCHANGED <<worker, due, timers, order>>
  BY DEF Put
<1>2. entering[o] \in Seq(Job) /\ entering \in [Ops -> Seq(Job)]
  BY DEF JobsTyped
<1>3. j = entering[o][1] /\ 1 \in 1..Len(entering[o])
  BY <1>1, <1>2
<1>4. /\ Len(entering'[o]) = Len(entering[o]) - 1
      /\ \A n \in 1..Len(entering'[o]) :
           n + 1 \in 1..Len(entering[o]) /\ entering'[o][n] = entering[o][n + 1]
  BY <1>1, <1>2
<1>5. \A p \in Ops \ {o} : entering'[p] = entering[p]
  BY <1>1, <1>2
<1>6. Pool' = Pool \cup {j} /\ j \notin Pool /\ j.op = o
  BY <1>1, <1>3 DEF Pool, PlaceInv, Apart
<1>7. \A p \in Ops \ {o} : \A n \in 1..Len(entering[p]) : entering[p][n] # j
  BY <1>6 DEF PlaceInv, Apart
<1>8. \A n \in 1..Len(entering'[o]) : entering'[o][n] # j
  <2> SUFFICES ASSUME NEW n \in 1..Len(entering'[o]) PROVE entering[o][n + 1] # entering[o][1]
    BY <1>3, <1>4
  <2>1. n + 1 # 1
    OBVIOUS
  <2>2. QED
    BY <1>3, <1>4, <2>1 DEF PlaceInv, Apart
<1> HIDE DEF Active, j
<1>9. Apart'
  <2>1. queue' \cap due' = {} /\ (queue' \cup due') \cap timers' = {}
    BY <1>1, <1>6 DEF PlaceInv, Apart, Pool
  <2>2. \A w \in Workers : worker[w].pc \in Active => worker[w].job # j
    BY <1>3 DEF PlaceInv, Apart
  <2>3. \A p \in Ops : \A n \in 1..Len(entering'[p]) :
          /\ entering'[p][n].op = p
          /\ entering'[p][n] \notin Pool'
          /\ \A w \in Workers : worker[w].pc \in Active => worker[w].job # entering'[p][n]
    <3> SUFFICES ASSUME NEW p \in Ops, NEW n \in 1..Len(entering'[p])
                 PROVE  /\ entering'[p][n].op = p
                        /\ entering'[p][n] \notin Pool'
                        /\ \A w \in Workers : worker[w].pc \in Active
                                               => worker[w].job # entering'[p][n]
      OBVIOUS
    <3>1. CASE p = o
      BY <1>4, <1>6, <1>8, <3>1 DEF PlaceInv, Apart
    <3>2. CASE p # o
      BY <1>5, <1>6, <1>7, <3>2 DEF PlaceInv, Apart
    <3>3. QED
      BY <3>1, <3>2
  <2>4. ASSUME NEW p \in Ops, NEW n \in 1..Len(entering'[p]),
               NEW m \in 1..Len(entering'[p]), m # n
        PROVE  entering'[p][m] # entering'[p][n]
    <3>1. CASE p = o
      <4>1. /\ m + 1 # n + 1
            /\ m + 1 \in 1..Len(entering[o]) /\ entering'[o][m] = entering[o][m + 1]
            /\ n + 1 \in 1..Len(entering[o]) /\ entering'[o][n] = entering[o][n + 1]
        BY <1>4, <2>4, <3>1
      <4>2. entering[o][m + 1] # entering[o][n + 1]
        BY <4>1 DEF PlaceInv, Apart
      <4>3. QED
        BY <3>1, <4>1, <4>2
    <3>2. CASE p # o
      BY <1>5, <2>4, <3>2 DEF PlaceInv, Apart
    <3>3. QED
      BY <3>1, <3>2
  <2>5. \A w \in Workers : worker[w].pc \in Active => worker[w].job \notin Pool'
    BY <1>6, <2>2 DEF PlaceInv, Apart
  <2>6. QED
    BY <1>1, <2>1, <2>3, <2>4, <2>5 DEF PlaceInv, Apart
<1>10. Numbered'
  <2>1. \A p \in Ops : \A n \in 1..Len(entering'[p]) : entering'[p][n].order <= order
    BY <1>4, <1>5 DEF PlaceInv, Numbered
  <2>2. j.order <= order
    BY <1>3 DEF PlaceInv, Numbered
  <2>3. QED
    BY <1>1, <1>6, <2>1, <2>2 DEF PlaceInv, Numbered
<1>11. QED
  BY <1>9, <1>10 DEF PlaceInv

(* The jobs of a new operation get numbers that nothing has.                *)
LEMMA PlaceOfSubmitted ==
  ASSUME JobsTyped, JobsTyped', PlaceInv, NEW o \in Ops, Submit(o)
  PROVE  PlaceInv'
<1>1. UNCHANGED <<worker, queue, due, timers>> /\ Pool' = Pool
  BY DEF Submit, pool, Pool
<1>2. CASE UNCHANGED <<entering, order>>
  <2> HIDE DEF Active, Pool
  <2>1. QED
    BY <1>1, <1>2 DEF PlaceInv, Apart, Numbered
<1>3. CASE /\ entering' = [entering EXCEPT ![o] =
                             [n \in 1..Len(Wanted(o)) |->
                                [op |-> o, item |-> Wanted(o)[n], attempt |-> 1,
                                 order |-> order + n]]]
           /\ order' = order + Len(Wanted(o))
  <2>1. Wanted(o) \in Seq(Items)
    BY WantedItems DEF Submit
  <2>2. Len(Wanted(o)) \in Nat /\ order \in Nat /\ order' \in Nat
    BY <1>3, <2>1 DEF JobsTyped
  <2>3. /\ entering'[o] = [n \in 1..Len(Wanted(o)) |->
                             [op |-> o, item |-> Wanted(o)[n], attempt |-> 1,
                              order |-> order + n]]
        /\ \A p \in Ops \ {o} : entering'[p] = entering[p]
    BY <1>3 DEF JobsTyped
  <2>4. Len(entering'[o]) = Len(Wanted(o))
    BY <2>2, <2>3
  <2>5. \A n \in 1..Len(entering'[o]) : /\ entering'[o][n].op = o
                                        /\ entering'[o][n].order = order + n
    BY <2>2, <2>3, <2>4
  <2>6. \A j \in Pool : j.order \in Nat
    BY DEF JobsTyped, Pool, Job
  <2>7. \A v \in Workers : worker[v].pc \in Active => worker[v].job.order \in Nat
    BY DEF JobsTyped, Job, Active, Working
  <2>8. ASSUME NEW p \in Ops, NEW n \in 1..Len(entering[p]) PROVE entering[p][n].order \in Nat
    <3>1. entering[p] \in Seq(Job)
      BY DEF JobsTyped
    <3>2. entering[p][n] \in Job
      BY <3>1
    <3>3. QED
      BY <3>2 DEF Job
  <2>9. Len(Wanted(o)) = Len(entering'[o])
    BY <2>4
  <2> HIDE DEF Active, Pool
  <2>10. Apart'
    <3>1. ASSUME NEW p \in Ops, NEW n \in 1..Len(entering'[p])
          PROVE  /\ entering'[p][n].op = p
                 /\ entering'[p][n] \notin Pool
                 /\ \A w \in Workers : worker[w].pc \in Active
                                        => worker[w].job # entering'[p][n]
                 /\ \A m \in 1..Len(entering'[p]) : m # n => entering'[p][m] # entering'[p][n]
      <4>1. CASE p = o
        <5>1. n \in Nat \ {0} /\ entering'[o][n].order = order + n
          BY <2>2, <2>4, <2>5, <4>1
        <5>2. \A m \in 1..Len(entering'[o]) : m # n => entering'[o][m].order # order + n
          BY <2>2, <2>4, <2>5, <5>1
        <5>3. QED
          BY <2>2, <2>5, <2>6, <2>7, <4>1, <5>1, <5>2 DEF PlaceInv, Numbered
      <4>2. CASE p # o
        BY <2>3, <4>2 DEF PlaceInv, Apart
      <4>3. QED
        BY <4>1, <4>2
    <3>2. QED
      BY <1>1, <3>1 DEF PlaceInv, Apart
  <2>11. Numbered'
    <3>1. ASSUME NEW p \in Ops, NEW n \in 1..Len(entering'[p])
          PROVE  entering'[p][n].order <= order'
      <4>1. CASE p = o
        <5>1. n \in 1..Len(Wanted(o)) /\ entering'[o][n].order = order + n
          BY <2>4, <2>5, <4>1
        <5>2. order + n <= order + Len(Wanted(o))
          BY <2>2, <5>1
        <5>3. QED
          BY <1>3, <4>1, <5>1, <5>2
      <4>2. CASE p # o
        BY <1>3, <2>2, <2>3, <2>8, <4>2 DEF PlaceInv, Numbered
      <4>3. QED
        BY <4>1, <4>2
    <3>2. \A k \in Nat : k <= order => k <= order'
      BY <1>3, <2>2
    <3>3. \A j \in Pool' : j.order <= order'
      BY <1>1, <2>6, <3>2 DEF PlaceInv, Numbered
    <3>4. \A w \in Workers : worker'[w].pc \in Active => worker'[w].job.order <= order'
      BY <1>1, <2>7, <3>2 DEF PlaceInv, Numbered
    <3>5. QED
      BY <3>1, <3>3, <3>4 DEF Numbered
  <2>12. QED
    BY <2>10, <2>11 DEF PlaceInv
<1>4. QED
  BY <1>2, <1>3 DEF Submit

(* What a worker goes from and to, with the same job.                       *)
Changes(w, from, to) ==
  /\ worker[w].pc \in from
  /\ worker'[w].pc \in to
  /\ worker'[w].pc \in Active \cup {"report"} => worker'[w].job = worker[w].job
  /\ worker' = [worker EXCEPT ![w] = worker'[w]]

(* The steps of a worker that leave the queue and the timers alone.         *)
LEMMA Strides ==
  ASSUME JobsTyped, NEW w \in Workers
  PROVE  /\ Quit(w) => Changes(w, {"idle"}, {"stopped"})
         /\ Start(w) /\ group[Op(w)] = None => Changes(w, {"got"}, {"idle"})
         /\ Start(w) /\ group[Op(w)] # None => Changes(w, {"got"}, Working)
         /\ Execute(w) /\ UNCHANGED order => Changes(w, {"copy"}, {"settle"})
         /\ Own(w) => Changes(w, {"chain"}, {"make"})
         /\ Make(w) => Changes(w, {"make"}, {"chain", "settle"})
         /\ Follow(w) => Changes(w, {"chain"}, {"chain", "settle"})
         /\ Settle(w) => Changes(w, {"settle"}, {"idle", "arm", "report"})
         /\ Refresh(w) => Changes(w, {"report"}, {"report"})
         /\ Report(w) => Changes(w, {"report"}, {"idle"})
<1> USE DEF JobsTyped, Changes, At, Moves, Idle, Working, Active
<1>1. Quit(w) => Changes(w, {"idle"}, {"stopped"})
  BY DEF Quit
<1>2. Start(w) /\ group[Op(w)] = None => Changes(w, {"got"}, {"idle"})
  BY DEF Start
<1>3. Start(w) /\ group[Op(w)] # None => Changes(w, {"got"}, Working)
  BY DEF Start, SourceFound, Settling
<1>4. Execute(w) /\ UNCHANGED order => Changes(w, {"copy"}, {"settle"})
  BY DEF Execute, Settling
<1>5. Own(w) => Changes(w, {"chain"}, {"make"})
  BY DEF Own
<1>6. Make(w) => Changes(w, {"make"}, {"chain", "settle"})
  BY DEF Make, Settling, Onward
<1>7. Follow(w) => Changes(w, {"chain"}, {"chain", "settle"})
  BY DEF Follow, Settling, Onward
<1>8. Settle(w) => Changes(w, {"settle"}, {"idle", "arm", "report"})
  BY DEF Settle
<1>9. Refresh(w) => Changes(w, {"report"}, {"report"})
  BY DEF Refresh
<1>10. Report(w) => Changes(w, {"report"}, {"idle"})
  BY DEF Report
<1>11. QED
  BY <1>1, <1>2, <1>3, <1>4, <1>5, <1>6, <1>7, <1>8, <1>9, <1>10

(* Every step keeps the jobs apart.                                         *)
LEMMA NextPlace == ASSUME MkdirInv, MkdirInv', PlaceInv, [Next]_vars PROVE PlaceInv'
<1>1. JobsTyped /\ JobsTyped'
  BY DEF MkdirInv
<1>2. CASE UNCHANGED <<queue, due, timers, entering, order, worker>>
  <2>1. Pool' = Pool
    BY <1>2 DEF Pool
  <2> HIDE DEF Active, Pool
  <2>2. QED
    BY <1>2, <2>1 DEF PlaceInv, Apart, Numbered
<1>3. CASE \E w \in Workers : Run(w)
  <2>1. PICK w \in Workers : Run(w)
    BY <1>3
  <2>2. CASE Take(w) \/ Arm(w)
    BY <1>1, <2>2, PlaceOfTaken, PlaceOfArmed
  <2>3. CASE Execute(w) /\ ~ UNCHANGED order
    <3> DEFINE rec == [pc |-> "settle", job |-> Again(worker[w].job), outcome |-> "retry"]
    <3>1. /\ Moves(w, rec) /\ order' = order + 1
          /\ UNCHANGED <<queue, due, timers, entering>>
          /\ MayRetry(worker[w].job) /\ worker[w].pc = "copy"
      BY <2>3 DEF Execute, At, pool
    <3>2. worker[w].job \in Job /\ order \in Nat
      BY <1>1, <3>1 DEF JobsTyped
    <3>3. rec.job \in Job /\ rec.job.order = order + 1
      BY <3>1, <3>2, RetryIsJob DEF Again, Job
    <3> HIDE DEF rec
    <3>4. QED
      BY <1>1, <3>1, <3>3, PlaceOfClone
  <2>4. CASE /\ ~ (Take(w) \/ Arm(w))
             /\ Execute(w) => UNCHANGED order
    <3>1. UNCHANGED <<queue, due, timers, entering, order>>
      BY <2>1, <2>4 DEF Run, Quit, Refresh, Report, Start, Execute, Own, Make, Follow, Settle, pool
    <3>2. /\ Moves(w, worker'[w])
          /\ worker'[w].pc \in Active => worker[w].pc \in Active /\ worker'[w].job = worker[w].job
      BY <1>1, <2>1, <2>4, Strides DEF Run, Changes, Moves, Active, Working
    <3>3. QED
      BY <1>1, <3>1, <3>2, PlaceOfWorker
  <2>5. QED
    BY <2>1, <2>2, <2>3, <2>4
<1>4. CASE \E o \in Ops : Submit(o) \/ Put(o)
  BY <1>1, <1>4, PlaceOfSubmitted, PlaceOfPut
<1>5. CASE (\E j \in timers : Fire(j)) \/ (\E j \in due : PutAgain(j)) \/ Shutdown
  BY <1>1, <1>5, PlaceInPool
<1>6. CASE \/ TreeChanges
           \/ \E p \in Plans : StartPlan(p) \/ EndPlan(p)
           \/ \E o \in Batches, p \in Plans : Confirm(o, p)
  <2>1. UNCHANGED <<queue, due, timers, entering, order, worker>>
    BY <1>6 DEF TreeChanges, StartPlan, EndPlan, Confirm, pool
  <2>2. QED
    BY <1>2, <2>1
<1>7. QED
  BY <1>2, <1>3, <1>4, <1>5, <1>6 DEF Next, vars, pool

-----------------------------------------------------------------------------
(* Counting                                                                 *)

(* One worker moves into a set of workers, or out of it, or neither.        *)
LEMMA HeldCount ==
  ASSUME NEW w \in Workers, \A v \in Workers \ {w} : worker'[v] = worker[v],
         NEW o, NEW pcs
  PROVE  /\ Cardinality(Held(o, pcs)) \in Nat /\ Cardinality(Held(o, pcs))' \in Nat
         /\ (w \in Held(o, pcs))' <=> w \in Held(o, pcs) => Held(o, pcs)' = Held(o, pcs)
         /\ (w \in Held(o, pcs))' /\ w \notin Held(o, pcs)
              => Cardinality(Held(o, pcs))' = Cardinality(Held(o, pcs)) + 1
         /\ ~ (w \in Held(o, pcs))' /\ w \in Held(o, pcs)
              => Cardinality(Held(o, pcs))' = Cardinality(Held(o, pcs)) - 1
<1> DEFINE A == Held(o, pcs)
           B == Held(o, pcs)'
<1>1. IsFiniteSet(A) /\ IsFiniteSet(B)
  <2>1. A \in SUBSET Workers /\ B \in SUBSET Workers
    BY DEF Held
  <2>2. QED
    BY <2>1, FiniteWorkers, FS_Subset
<1>2. B \ {w} = A \ {w}
  BY DEF Held, Op
<1> HIDE DEF A, B
<1>3. (w \in B <=> w \in A) => B = A
  BY <1>2
<1>4. w \in B /\ w \notin A => B = A \cup {w}
  BY <1>2
<1>5. w \notin B /\ w \in A => B = A \ {w}
  BY <1>2
<1>6. Cardinality(A) \in Nat /\ Cardinality(B) \in Nat
  BY <1>1, FS_CardinalityType
<1>7. w \in B /\ w \notin A => Cardinality(B) = Cardinality(A) + 1
  BY <1>1, <1>4, FS_AddElement
<1>8. w \notin B /\ w \in A => Cardinality(B) = Cardinality(A) - 1
  BY <1>1, <1>5, FS_RemoveElement
<1>9. QED
  BY <1>3, <1>6, <1>7, <1>8 DEF A, B

(* A job enters a set of jobs.                                              *)
JobsOf(S, o) == {k \in S : k.op = o}
LEMMA OpCount ==
  ASSUME NEW S, IsFiniteSet(S), NEW j, j \notin S, NEW o
  PROVE  /\ IsFiniteSet(S \cup {j})
         /\ Cardinality(JobsOf(S, o)) \in Nat
         /\ Cardinality(JobsOf(S \cup {j}, o))
              = Cardinality(JobsOf(S, o)) + (IF j.op = o THEN 1 ELSE 0)
<1> DEFINE A == JobsOf(S, o)
           B == JobsOf(S \cup {j}, o)
<1>1. IsFiniteSet(A) /\ j \notin A
  <2>1. A \in SUBSET S
    BY DEF JobsOf
  <2>2. QED
    BY <2>1, FS_Subset
<1>2. B = IF j.op = o THEN A \cup {j} ELSE A
  BY DEF JobsOf
<1>3. IsFiniteSet(S \cup {j})
  BY FS_AddElement
<1> HIDE DEF A, B
<1>4. Cardinality(A) \in Nat /\ Cardinality(A \cup {j}) = Cardinality(A) + 1
  BY <1>1, FS_AddElement, FS_CardinalityType
<1>5. Cardinality(B) = Cardinality(A) + (IF j.op = o THEN 1 ELSE 0)
  BY <1>2, <1>4
<1>6. QED
  BY <1>3, <1>4, <1>5 DEF A, B

(* The other operations: nothing of theirs moves.                           *)
Ledger(o) == <<entering[o], Queued(o), Ticking(o), Held(o, Working), Held(o, {"got"}),
               Held(o, {"arm"}), group[o]>>
LEMMA KeptElsewhere ==
  ASSUME NEW o \in Ops, Kept(o), UNCHANGED Ledger(o), UNCHANGED shutdown
  PROVE  Kept(o)'
  BY DEF Kept, NoJob, Balanced, Ledger, Retrying, Unstarted

(* The counts are numbers.                                                  *)
LEMMA CountsAreNumbers ==
  ASSUME JobsTyped, CountInv, NEW o \in Ops
  PROVE  /\ Cardinality(Queued(o)) \in Nat /\ Cardinality(Ticking(o)) \in Nat
         /\ \A pcs : Cardinality(Held(o, pcs)) \in Nat
         /\ Len(entering[o]) \in Nat
         /\ Unstarted(o) \in Nat /\ Retrying(o) \in Nat
<1>1. Cardinality(Queued(o)) \in Nat /\ Cardinality(Ticking(o)) \in Nat
  <2>1. IsFiniteSet(queue \cup due) /\ IsFiniteSet(timers)
    BY FS_Union DEF CountInv, GroupsTyped
  <2>2. Queued(o) \in SUBSET (queue \cup due) /\ Ticking(o) \in SUBSET timers
    BY DEF Queued, Ticking
  <2>3. QED
    BY <2>1, <2>2, FS_Subset, FS_CardinalityType
<1>2. ASSUME NEW pcs PROVE Cardinality(Held(o, pcs)) \in Nat
  <2>1. Held(o, pcs) \in SUBSET Workers
    BY DEF Held
  <2>2. QED
    BY <2>1, FiniteWorkers, FS_Subset, FS_CardinalityType
<1>3. Len(entering[o]) \in Nat
  BY DEF JobsTyped
<1>4. Unstarted(o) \in Nat /\ Retrying(o) \in Nat
  BY <1>1, <1>2, <1>3 DEF Unstarted, Retrying
<1>5. QED
  BY <1>1, <1>2, <1>3, <1>4

(* A step that changes the counts and the group alike.                      *)
LEMMA Rebalanced ==
  ASSUME JobsTyped, CountInv, NEW o \in Ops, NEW g \in Group, NEW h \in Group,
         Balanced(o, g), UNCHANGED shutdown,
         NEW done \in Int, NEW out \in Int, NEW again \in Int, NEW wait \in Int,
         h.total = g.total, h.completed = g.completed + done,
         h.running = g.running + out, h.retries = g.retries + again,
         Cardinality(Held(o, Working))' = Cardinality(Held(o, Working)) + out,
         Retrying(o)' = Retrying(o) + again, Unstarted(o)' = Unstarted(o) + wait,
         done + out + again + wait = 0
  PROVE  Balanced(o, h)'
<1>1. /\ g.total \in Nat /\ g.completed \in Nat /\ g.running \in Nat /\ g.retries \in Nat
      /\ Unstarted(o) \in Nat /\ Retrying(o) \in Nat
  BY CountsAreNumbers DEF Group
<1>2. h.running = Cardinality(Held(o, Working))'
  BY DEF Balanced
<1>3. IF shutdown' = "all" THEN h.retries >= Retrying(o)' ELSE h.retries = Retrying(o)'
  BY <1>1 DEF Balanced
<1>4. h.total = h.completed + h.running + h.retries + Unstarted(o)'
  BY <1>1 DEF Balanced
<1>5. QED
  BY <1>2, <1>3, <1>4 DEF Balanced

(* An operation that is open after the step.                                *)
LEMMA KeptOpen ==
  ASSUME NEW o \in Ops, NEW h \in Group, group'[o] = h, Balanced(o, h)'
  PROVE  Kept(o)'
  BY NoGroup DEF Kept, Balanced

(* An operation that after a step has counted everything and waits for      *)
(* nothing has no job anywhere.                                             *)
LEMMA OverMeansNoJob ==
  ASSUME JobsTyped', IsFiniteSet(queue'), IsFiniteSet(due'), IsFiniteSet(timers'),
         NEW o \in Ops, NEW g \in Group, Balanced(o, g)', IsOver(g)
  PROVE  NoJob(o)'
<1> DEFINE A == Held(o, Working)'
           B == Held(o, {"got"})'
           C == Held(o, {"arm"})'
           Q == Queued(o)'
           T == Ticking(o)'
<1>1. IsFiniteSet(A) /\ IsFiniteSet(B) /\ IsFiniteSet(C)
  <2>1. A \in SUBSET Workers /\ B \in SUBSET Workers /\ C \in SUBSET Workers
    BY DEF Held
  <2>2. QED
    BY <2>1, FiniteWorkers, FS_Subset
<1>2. IsFiniteSet(Q) /\ IsFiniteSet(T)
  <2>1. IsFiniteSet(queue' \cup due') /\ IsFiniteSet(timers')
    BY FS_Union
  <2>2. Q \in SUBSET (queue' \cup due') /\ T \in SUBSET timers'
    BY DEF Queued, Ticking
  <2>3. QED
    BY <2>1, <2>2, FS_Subset
<1>3. entering'[o] \in Seq(Job) /\ Len(entering'[o]) \in Nat
  BY DEF JobsTyped
<1>4. Cardinality(T) \in Nat /\ Cardinality(C) \in Nat
  BY <1>1, <1>2, FS_CardinalityType
<1>5. /\ g.running = Cardinality(A)
      /\ g.retries >= Cardinality(T) + Cardinality(C)
      /\ g.total = g.completed + g.running + g.retries
                   + (Cardinality(Q) + Len(entering'[o]) + Cardinality(B))
  BY <1>3, <1>4 DEF Balanced, Retrying, Unstarted, Group
<1> HIDE DEF A, B, C, Q, T
<1>6. /\ Cardinality(A) \in Nat /\ Cardinality(B) \in Nat /\ Cardinality(Q) \in Nat
  BY <1>1, <1>2, FS_CardinalityType
<1>7. g.total \in Nat /\ g.completed \in Nat /\ g.running = 0 /\ g.retries = 0
      /\ g.completed >= g.total
  BY DEF IsOver, Group
<1>8. /\ Cardinality(A) = 0 /\ Cardinality(B) = 0 /\ Cardinality(C) = 0
      /\ Cardinality(Q) = 0 /\ Cardinality(T) = 0 /\ Len(entering'[o]) = 0
  BY <1>3, <1>4, <1>5, <1>6, <1>7
<1>9. A = {} /\ B = {} /\ C = {} /\ Q = {} /\ T = {}
  BY <1>1, <1>2, <1>8, FS_EmptySet
<1>10. entering'[o] = <<>>
  BY <1>3, <1>8
<1>11. QED
  BY <1>9, <1>10 DEF NoJob, A, B, C, Q, T

(* What is in one of the sets is a job of an open operation.                *)
LEMMA JobMeansOpen ==
  ASSUME CountInv, JobsTyped
  PROVE  /\ \A w \in Workers : worker[w].pc \in Active => Op(w) \in Ops /\ group[Op(w)] # None
         /\ \A j \in Pool : j.op \in Ops /\ group[j.op] # None
         /\ \A o \in Ops : entering[o] # <<>> => group[o] # None
<1>1. ASSUME NEW w \in Workers, worker[w].pc \in Active
      PROVE  Op(w) \in Ops /\ group[Op(w)] # None
  <2>1. Op(w) \in Ops
    BY <1>1 DEF JobsTyped, Job, Op, Active, Working
  <2>2. \/ w \in Held(Op(w), Working) \/ w \in Held(Op(w), {"got"}) \/ w \in Held(Op(w), {"arm"})
    BY <1>1 DEF Held, Active
  <2>3. QED
    BY <2>1, <2>2 DEF CountInv, Kept, NoJob
<1>2. ASSUME NEW j \in Pool
      PROVE  j.op \in Ops /\ group[j.op] # None
  <2>1. j.op \in Ops
    BY <1>2 DEF JobsTyped, Job, Pool
  <2>2. j \in Queued(j.op) \/ j \in Ticking(j.op)
    BY <1>2 DEF Pool, Queued, Ticking
  <2>3. QED
    BY <2>1, <2>2 DEF CountInv, Kept, NoJob
<1>3. \A o \in Ops : entering[o] # <<>> => group[o] # None
  BY DEF CountInv, Kept, NoJob
<1>4. QED
  BY <1>1, <1>2, <1>3

-----------------------------------------------------------------------------
(* The books: every step leaves every operation with its jobs counted.      *)
Books == \A o \in Ops : Kept(o)

(* A worker that does not change its part in the counts.                    *)
LEMMA BooksOfWork ==
  ASSUME JobsTyped, CountInv, UNCHANGED <<queue, due, timers, entering, group, shutdown>>,
         NEW w \in Workers, \A v \in Workers \ {w} : worker'[v] = worker[v],
         \/ /\ worker[w].pc \in Working /\ worker'[w].pc \in Working
            /\ worker'[w].job.op = worker[w].job.op
         \/ worker[w].pc \notin Active /\ worker'[w].pc \notin Active
  PROVE  Books'
<1> SUFFICES ASSUME NEW o \in Ops PROVE Kept(o)'
  BY DEF Books
<1>1. Held(o, Working)' = Held(o, Working)
  BY DEF Held, Op, Active
<1>2. Held(o, {"got"})' = Held(o, {"got"}) /\ Held(o, {"arm"})' = Held(o, {"arm"})
  BY DEF Held, Op, Active, Working
<1>3. Queued(o)' = Queued(o) /\ Ticking(o)' = Ticking(o)
  BY DEF Queued, Ticking
<1>4. QED
  BY <1>1, <1>2, <1>3, KeptElsewhere DEF CountInv, Ledger

(* From the queue to a worker.                                              *)
LEMMA BooksOfTake ==
  ASSUME JobsTyped, PlaceInv, CountInv, NEW w \in Workers, Take(w)
  PROVE  Books' /\ IsFiniteSet(queue)'
<1>1. PICK j \in queue : /\ queue' = queue \ {j} /\ worker[w].pc = "idle"
                         /\ Moves(w, [pc |-> "got", job |-> j])
                         /\ UNCHANGED <<due, timers, entering, group, shutdown>>
  BY DEF Take, At
<1>2. /\ worker'[w].pc = "got" /\ worker'[w].job = j
      /\ \A v \in Workers \ {w} : worker'[v] = worker[v]
  BY <1>1, OthersStay
<1>3. j \notin due /\ IsFiniteSet(queue \cup due) /\ IsFiniteSet(queue')
  BY <1>1, FS_Union, FS_RemoveElement DEF PlaceInv, Apart, CountInv, GroupsTyped
<1> DEFINE S == (queue \cup due) \ {j}
<1>4. IsFiniteSet(S) /\ j \notin S /\ queue' \cup due' = S /\ queue \cup due = S \cup {j}
  BY <1>1, <1>3, FS_RemoveElement
<1> HIDE DEF S
<1>5. ASSUME NEW o \in Ops PROVE Kept(o)'
  <2>1. /\ Held(o, Working)' = Held(o, Working) /\ Held(o, {"arm"})' = Held(o, {"arm"})
        /\ Ticking(o)' = Ticking(o)
    BY <1>1, <1>2 DEF Held, Op, Working, Ticking
  <2>2. CASE j.op # o
    <3>1. Held(o, {"got"})' = Held(o, {"got"}) /\ Queued(o)' = Queued(o)
      BY <1>1, <1>2, <2>2 DEF Held, Op, Queued
    <3>2. QED
      BY <1>1, <2>1, <3>1, KeptElsewhere DEF CountInv, Ledger
  <2>3. CASE j.op = o
    <3>1. group[o] # None /\ group[o] \in Group
      BY <1>1, <2>3, JobMeansOpen DEF Pool, CountInv, GroupsTyped
    <3>2. w \notin Held(o, {"got"}) /\ (w \in Held(o, {"got"}))'
      BY <1>1, <1>2, <2>3 DEF Held, Op
    <3>3. Cardinality(Held(o, {"got"}))' = Cardinality(Held(o, {"got"})) + 1
      BY <1>2, <3>2, HeldCount
    <3>4. Cardinality(Queued(o)) = Cardinality(Queued(o))' + 1 /\ Cardinality(Queued(o))' \in Nat
      <4>1. Queued(o)' = JobsOf(S, o) /\ Queued(o) = JobsOf(S \cup {j}, o)
        BY <1>4 DEF Queued, JobsOf
      <4>2. /\ Cardinality(JobsOf(S, o)) \in Nat
            /\ Cardinality(JobsOf(S \cup {j}, o))
                 = Cardinality(JobsOf(S, o)) + (IF j.op = o THEN 1 ELSE 0)
        <5>1. IsFiniteSet(S) /\ j \notin S
          BY <1>4
        <5>2. QED
          BY <5>1, OpCount
      <4>3. QED
        BY <2>3, <4>1, <4>2
    <3>5. Unstarted(o)' = Unstarted(o) + 0 /\ Retrying(o)' = Retrying(o) + 0
          /\ Cardinality(Held(o, Working))' = Cardinality(Held(o, Working)) + 0
      <4>1. /\ Cardinality(Held(o, {"got"})) \in Nat /\ Cardinality(Held(o, {"arm"})) \in Nat
            /\ Cardinality(Held(o, Working)) \in Nat /\ Cardinality(Ticking(o)) \in Nat
            /\ Len(entering[o]) \in Nat /\ entering'[o] = entering[o]
        BY <1>1, CountsAreNumbers
      <4>2. Unstarted(o)' = Unstarted(o) + 0
        <5>1. Unstarted(o) = (Cardinality(Queued(o))' + 1) + Len(entering[o])
                             + Cardinality(Held(o, {"got"}))
          BY <3>4 DEF Unstarted
        <5>2. Unstarted(o)' = Cardinality(Queued(o))' + Len(entering[o])
                              + (Cardinality(Held(o, {"got"})) + 1)
          BY <3>3, <4>1 DEF Unstarted
        <5>3. QED
          BY <3>4, <4>1, <5>1, <5>2
      <4>3. Retrying(o)' = Retrying(o) + 0
        BY <2>1, <4>1 DEF Retrying
      <4>4. QED
        BY <2>1, <4>1, <4>2, <4>3
    <3>6. Balanced(o, group[o])'
      <4>1. Balanced(o, group[o])
        BY <3>1 DEF CountInv, Kept
      <4>2. PICK g \in Group : g = group[o]
        BY <3>1
      <4>3. /\ g.completed = g.completed + 0 /\ g.running = g.running + 0
            /\ g.retries = g.retries + 0
        BY DEF Group
      <4>4. Balanced(o, g)'
        BY <1>1, <3>5, <4>1, <4>2, <4>3, Rebalanced
      <4>5. QED
        BY <1>1, <4>2, <4>4 DEF Balanced
    <3>7. QED
      BY <1>1, <3>1, <3>6 DEF Kept
  <2>4. QED
    BY <2>2, <2>3
<1>6. QED
  BY <1>3, <1>5 DEF Books

(* A worker starts its job.                                                 *)
LEMMA BooksOfStart ==
  ASSUME JobsTyped, CountInv, NEW w \in Workers, Start(w)
  PROVE  Books' /\ group' \in [Ops -> Group \cup {None}]
         /\ \A o \in Ops : group'[o] = None <=> group[o] = None
<1> DEFINE p == Op(w)
<1>1. worker[w].pc = "got" /\ p \in Ops /\ group[p] # None /\ group[p] \in Group
  BY JobMeansOpen DEF Start, At, Active, CountInv, GroupsTyped
<1>2. /\ group' = [group EXCEPT ![p].running = @ + 1]
      /\ UNCHANGED <<queue, due, timers, entering, shutdown>>
  BY <1>1 DEF Start, pool
<1>3. Changes(w, {"got"}, Working)
  BY <1>1, Strides
<1>4. /\ worker'[w].pc \in Working /\ worker'[w].job = worker[w].job
      /\ \A v \in Workers \ {w} : worker'[v] = worker[v]
  BY <1>3 DEF Changes, Active, JobsTyped
<1>5. group \in [Ops -> Group \cup {None}]
  BY DEF CountInv, GroupsTyped
<1>6. /\ group'[p] = [group[p] EXCEPT !.running = @ + 1]
      /\ \A o \in Ops \ {p} : group'[o] = group[o]
      /\ DOMAIN group' = Ops
  BY <1>1, <1>2, <1>5
<1>7. group'[p] \in Group
  BY <1>1, <1>6 DEF Group
<1> HIDE DEF p
<1>8. ASSUME NEW o \in Ops PROVE Kept(o)'
  <2>1. /\ Held(o, {"arm"})' = Held(o, {"arm"})
        /\ Ticking(o)' = Ticking(o) /\ Queued(o)' = Queued(o)
    BY <1>1, <1>2, <1>4 DEF Held, Op, Working, Ticking, Queued
  <2>2. CASE p # o
    <3>1. Held(o, {"got"})' = Held(o, {"got"}) /\ Held(o, Working)' = Held(o, Working)
      BY <1>1, <1>4, <2>2 DEF Held, Op, p
    <3>2. QED
      BY <1>2, <1>6, <2>1, <2>2, <3>1, KeptElsewhere DEF CountInv, Ledger
  <2>3. CASE p = o
    <3>1. w \in Held(o, {"got"}) /\ ~ (w \in Held(o, {"got"}))'
      BY <1>1, <1>4, <2>3 DEF Held, Op, p, Working
    <3>2. w \notin Held(o, Working) /\ (w \in Held(o, Working))'
      BY <1>1, <1>4, <2>3 DEF Held, Op, p, Working
    <3>3. /\ Cardinality(Held(o, {"got"}))' = Cardinality(Held(o, {"got"})) - 1
          /\ Cardinality(Held(o, {"got"})) \in Nat
      BY <1>4, <3>1, HeldCount
    <3>4. /\ Cardinality(Held(o, Working))' = Cardinality(Held(o, Working)) + 1
          /\ Cardinality(Held(o, Working)) \in Nat
      BY <1>4, <3>2, HeldCount
    <3>5. Balanced(o, group[o])
      BY <1>1, <2>3 DEF CountInv, Kept
    <3>6. /\ group'[o].total = group[o].total
          /\ group'[o].completed = group[o].completed + 0
          /\ group'[o].running = group[o].running + 1
          /\ group'[o].retries = group[o].retries + 0
      BY <1>1, <1>6, <2>3 DEF Group
    <3>7. Unstarted(o)' = Unstarted(o) + (-1) /\ Retrying(o)' = Retrying(o) + 0
      <4>1. /\ Cardinality(Held(o, {"arm"})) \in Nat /\ Cardinality(Queued(o)) \in Nat
            /\ Cardinality(Ticking(o)) \in Nat
            /\ Len(entering[o]) \in Nat /\ entering'[o] = entering[o]
        BY <1>2, CountsAreNumbers
      <4>2. Unstarted(o)' = Unstarted(o) + (-1)
        <5>1. Cardinality(Queued(o))' = Cardinality(Queued(o)) /\ Len(entering[o])' = Len(entering[o])
          BY <2>1, <4>1
        <5>2. Unstarted(o) = Cardinality(Queued(o)) + Len(entering[o]) + Cardinality(Held(o, {"got"}))
          BY DEF Unstarted
        <5>3. Unstarted(o)' = Cardinality(Queued(o))' + Len(entering[o])' + Cardinality(Held(o, {"got"}))'
          BY DEF Unstarted
        <5>4. QED
          BY <3>3, <4>1, <5>1, <5>2, <5>3
      <4>3. Retrying(o)' = Retrying(o) + 0
        BY <2>1, <4>1 DEF Retrying
      <4>4. QED
        BY <4>2, <4>3
    <3>8. PICK g \in Group, h \in Group : g = group[o] /\ h = group'[o]
      BY <1>1, <1>7, <2>3
    <3>9. Balanced(o, h)'
      <4>1. /\ h.total = g.total /\ h.completed = g.completed + 0
            /\ h.running = g.running + 1 /\ h.retries = g.retries + 0
            /\ Balanced(o, g) /\ UNCHANGED shutdown
        BY <1>2, <3>5, <3>6, <3>8
      <4>2. Cardinality(Held(o, Working))' = Cardinality(Held(o, Working)) + 1
        BY <3>4
      <4>3. QED
        BY <3>7, <4>1, <4>2, Rebalanced
    <3>10. QED
      BY <3>8, <3>9, KeptOpen
  <2>4. QED
    BY <2>2, <2>3
<1>9. \A o \in Ops : group'[o] = None <=> group[o] = None
  BY <1>1, <1>6, <1>7, NoGroup
<1>10. group' \in [Ops -> Group \cup {None}]
  BY <1>2, <1>5, <1>6, <1>7
<1>11. QED
  BY <1>8, <1>9, <1>10 DEF Books

(* The folders that a job touches are paths.                                *)
LEMMA TouchesPaths ==
  ASSUME NEW i \in Items
  PROVE  Touches(i) \subseteq Seq(STRING)
<1>1. i \in Seq(STRING) /\ Len(i) \in Nat
  BY ItemsArePaths DEF Items
<1>2. Parent(i) \in Seq(STRING)
  <2>1. CASE Len(i) = 0
    <3>1. Parent(i) = <<>>
      BY <1>1, <2>1 DEF Parent
    <3>2. QED
      BY <3>1
  <2>2. CASE Len(i) # 0
    <3>1. Len(i) - 1 \in 0..Len(i)
      BY <1>1, <2>2
    <3>2. QED
      BY <1>1, <3>1 DEF Parent
  <2>3. QED
    BY <2>1, <2>2
<1>3. QED
  BY <1>1, <1>2 DEF Touches

(* What a settled job makes of its group.                                   *)
LEMMA SettledGroup ==
  ASSUME NEW g \in Group, NEW i \in Items, NEW outcome, g.running # 0
  PROVE  LET h == Settled(g, i, outcome)
         IN  /\ h \in Group /\ h.total = g.total /\ h.running = g.running - 1
             /\ IF outcome = "retry"
                  THEN h.completed = g.completed /\ h.retries = g.retries + 1
                       /\ h.touched = g.touched
                  ELSE h.completed = g.completed + 1 /\ h.retries = g.retries
                       /\ h.touched = g.touched \cup Touches(i)
             /\ h.errors = IF outcome = "error" THEN g.errors + 1 ELSE g.errors
             /\ IsOver(h) => outcome # "retry"
<1>1. Touches(i) \in SUBSET Seq(STRING)
  BY TouchesPaths
<1>2. g.running - 1 \in Nat
  BY DEF Group
<1>3. CASE outcome = "retry"
  <2>1. Settled(g, i, outcome)
          = [g EXCEPT !.running = g.running - 1, !.retries = g.retries + 1]
    BY <1>3 DEF Settled, Group
  <2> DEFINE h == [g EXCEPT !.running = g.running - 1, !.retries = g.retries + 1]
  <2>2. /\ h \in Group /\ h.total = g.total /\ h.running = g.running - 1
        /\ h.completed = g.completed /\ h.retries = g.retries + 1 /\ h.touched = g.touched
        /\ h.errors = g.errors
    <3> DEFINE k == [g EXCEPT !.running = g.running - 1]
    <3>1. /\ k \in Group /\ k.total = g.total /\ k.running = g.running - 1
          /\ k.completed = g.completed /\ k.retries = g.retries /\ k.touched = g.touched
          /\ k.errors = g.errors
      BY <1>2 DEF Group
    <3>2. h = [k EXCEPT !.retries = g.retries + 1] /\ g.retries + 1 \in Nat
      BY DEF Group
    <3> HIDE DEF k, h
    <3>3. QED
      BY <3>1, <3>2 DEF Group
  <2>3. ~ IsOver(h)
    BY <2>2 DEF IsOver, Group
  <2>4. QED
    BY <1>3, <2>1, <2>2, <2>3
<1>4. CASE outcome # "retry"
  <2>1. PICK e \in Nat : e = IF outcome = "error" THEN g.errors + 1 ELSE g.errors
    BY DEF Group
  <2> DEFINE h == [g EXCEPT !.running = g.running - 1, !.completed = g.completed + 1,
                            !.touched = g.touched \cup Touches(i), !.errors = e]
  <2>2. Settled(g, i, outcome) = h
    BY <1>4, <2>1 DEF Settled, Group
  <2>3. g.touched \cup Touches(i) \in SUBSET Seq(STRING)
    BY <1>1 DEF Group
  <2>4. /\ h \in Group /\ h.total = g.total /\ h.running = g.running - 1
        /\ h.completed = g.completed + 1 /\ h.retries = g.retries
        /\ h.touched = g.touched \cup Touches(i) /\ h.errors = e
    <3> DEFINE k == [g EXCEPT !.running = g.running - 1, !.completed = g.completed + 1]
               m == [k EXCEPT !.touched = g.touched \cup Touches(i)]
    <3>1. /\ k \in Group /\ k.total = g.total /\ k.running = g.running - 1
          /\ k.completed = g.completed + 1 /\ k.retries = g.retries /\ k.touched = g.touched
      <4> DEFINE l == [g EXCEPT !.running = g.running - 1]
      <4>1. /\ l \in Group /\ l.total = g.total /\ l.running = g.running - 1
            /\ l.completed = g.completed /\ l.retries = g.retries /\ l.touched = g.touched
            /\ l.errors = g.errors
        BY <1>2 DEF Group
      <4>2. k = [l EXCEPT !.completed = g.completed + 1] /\ g.completed + 1 \in Nat
        BY DEF Group
      <4> HIDE DEF l, k
      <4>3. QED
        BY <4>1, <4>2 DEF Group
    <3> HIDE DEF k
    <3>2. /\ m \in Group /\ m.total = g.total /\ m.running = g.running - 1
          /\ m.completed = g.completed + 1 /\ m.retries = g.retries
          /\ m.touched = g.touched \cup Touches(i)
      BY <2>3, <3>1 DEF Group
    <3>3. h = [m EXCEPT !.errors = e]
      BY DEF k
    <3> HIDE DEF m, h
    <3>4. QED
      BY <2>1, <3>2, <3>3 DEF Group
  <2> HIDE DEF h
  <2>5. QED
    BY <1>4, <2>1, <2>2, <2>4
<1>5. QED
  BY <1>3, <1>4

(* A worker settles its job, and closes the operation if it was the last.   *)
LEMMA BooksOfSettle ==
  ASSUME JobsTyped, JobsTyped', CountInv, NEW w \in Workers, Settle(w)
  PROVE  /\ Books' /\ group' \in [Ops -> Group \cup {None}]
         /\ \A o \in Ops : Lost(o) => Lost(o)'
<1>0. /\ worker[w].pc = "settle" /\ Op(w) \in Ops /\ Item(w) \in Items
      /\ group[Op(w)] # None /\ group[Op(w)] \in Group
  BY JobMeansOpen DEF Settle, At, Active, Working, CountInv, GroupsTyped, JobsTyped, Job, Item
<1>p. PICK p \in Ops : p = Op(w)
  BY <1>0
<1>o. PICK outcome : outcome = worker[w].outcome
  OBVIOUS
<1>1. /\ worker[w].pc = "settle" /\ p \in Ops /\ group[p] # None /\ group[p] \in Group
      /\ Item(w) \in Items /\ p = worker[w].job.op
  BY <1>0, <1>p DEF Op
<1>2. Changes(w, {"settle"}, {"idle", "arm", "report"})
  BY Strides
<1>3. /\ \A v \in Workers \ {w} : worker'[v] = worker[v]
      /\ worker'[w].pc \in {"idle", "arm", "report"}
      /\ worker'[w].pc = "arm" => worker'[w].job = worker[w].job
  BY <1>2 DEF Changes, JobsTyped, Active
<1>4. PICK g \in Group : g = group[p]
  BY <1>1
<1>5. Balanced(p, g)
  BY <1>1, <1>4 DEF CountInv, Kept
<1>6. w \in Held(p, Working) /\ ~ (w \in Held(p, Working))'
  BY <1>1, <1>3 DEF Held, Working, Op
<1>7. /\ Cardinality(Held(p, Working))' = Cardinality(Held(p, Working)) + (-1)
      /\ Cardinality(Held(p, Working)) \in Nat /\ Cardinality(Held(p, Working))' \in Nat
  BY <1>3, <1>6, HeldCount
<1>8. g.running # 0 /\ g.running \in Nat
  BY <1>5, <1>7 DEF Balanced
<1>9. PICK h : h = Settled(g, Item(w), outcome)
  OBVIOUS
<1>10. /\ h \in Group /\ h.total = g.total /\ h.running = g.running - 1
       /\ IF outcome = "retry"
            THEN h.completed = g.completed /\ h.retries = g.retries + 1
            ELSE h.completed = g.completed + 1 /\ h.retries = g.retries
       /\ IsOver(h) => outcome # "retry"
  BY <1>1, <1>8, <1>9, SettledGroup
<1>11. /\ group' = [group EXCEPT ![p] = IF IsOver(h) THEN None ELSE h]
       /\ worker'[w].pc = IF IsOver(h) THEN "report" ELSE IF outcome = "retry" THEN "arm" ELSE "idle"
       /\ UNCHANGED <<queue, due, timers, entering, shutdown>>
  BY <1>p, <1>o, <1>1, <1>4, <1>9 DEF Settle, Moves, JobsTyped, Idle, pool
<1>12. /\ group'[p] = IF IsOver(h) THEN None ELSE h
       /\ \A o \in Ops \ {p} : group'[o] = group[o]
       /\ group' \in [Ops -> Group \cup {None}]
  BY <1>1, <1>10, <1>11 DEF CountInv, GroupsTyped
<1>13. ASSUME NEW o \in Ops, o # p PROVE Kept(o)' /\ (Lost(o) => Lost(o)')
  <2>1. /\ Held(o, {"got"})' = Held(o, {"got"}) /\ Held(o, Working)' = Held(o, Working)
        /\ Held(o, {"arm"})' = Held(o, {"arm"})
    BY <1>1, <1>3, <1>13 DEF Held, Op, Working
  <2>2. Queued(o)' = Queued(o) /\ Ticking(o)' = Ticking(o)
    BY <1>11 DEF Queued, Ticking
  <2>3. Kept(o)'
    BY <1>11, <1>12, <1>13, <2>1, <2>2, KeptElsewhere DEF CountInv, Ledger
  <2>4. Retrying(o)' = Retrying(o)
    BY <2>1, <2>2 DEF Retrying
  <2>5. QED
    BY <1>12, <1>13, <2>3, <2>4 DEF Lost
<1>14. Balanced(p, h)' /\ (g.retries > Retrying(p) => h.retries > Retrying(p)')
  <2>1. Held(p, {"got"})' = Held(p, {"got"})
    BY <1>1, <1>3 DEF Held, Op
  <2>2. Queued(p)' = Queued(p) /\ Ticking(p)' = Ticking(p) /\ entering' = entering
    BY <1>11 DEF Queued, Ticking
  <2>3. Unstarted(p)' = Unstarted(p) /\ Unstarted(p) \in Nat /\ Retrying(p) \in Nat
    BY <1>1, <2>1, <2>2, CountsAreNumbers DEF Unstarted
  <2>4. w \notin Held(p, {"arm"})
    BY <1>1 DEF Held
  <2>5. /\ Cardinality(Held(p, {"arm"})) \in Nat /\ Cardinality(Ticking(p)) \in Nat
        /\ h.completed \in Nat /\ h.retries \in Nat
    BY <1>1, <1>10, CountsAreNumbers DEF Group
  <2>6. g.running - 1 = g.running + (-1) /\ g.completed \in Nat /\ g.retries \in Nat
    BY <1>8 DEF Group
  <2>7. CASE outcome = "retry"
    <3>1. worker'[w].pc = "arm" /\ worker'[w].job = worker[w].job
      BY <1>3, <1>10, <1>11, <2>7
    <3>2. (w \in Held(p, {"arm"}))'
      BY <1>1, <3>1 DEF Held, Op
    <3>3. Cardinality(Held(p, {"arm"}))' = Cardinality(Held(p, {"arm"})) + 1
      BY <1>3, <2>4, <3>2, HeldCount
    <3>4. Retrying(p)' = Retrying(p) + 1
      BY <2>2, <2>5, <3>3 DEF Retrying
    <3>5. h.completed = g.completed + 0 /\ h.running = g.running + (-1)
          /\ h.retries = g.retries + 1 /\ Unstarted(p)' = Unstarted(p) + 0
      BY <1>10, <2>3, <2>6, <2>7
    <3>6. Balanced(p, h)'
      BY <1>1, <1>5, <1>7, <1>10, <1>11, <3>4, <3>5, Rebalanced
    <3>7. g.retries > Retrying(p) => h.retries > Retrying(p)'
      BY <2>3, <2>5, <2>6, <3>4, <3>5
    <3>8. QED
      BY <3>6, <3>7
  <2>8. CASE outcome # "retry"
    <3>1. ~ (w \in Held(p, {"arm"}))'
      BY <1>3, <1>10, <1>11, <2>8 DEF Held
    <3>2. Held(p, {"arm"})' = Held(p, {"arm"})
      BY <1>3, <2>4, <3>1, HeldCount
    <3>3. Retrying(p)' = Retrying(p) + 0
      BY <2>2, <2>3, <3>2 DEF Retrying
    <3>4. h.completed = g.completed + 1 /\ h.running = g.running + (-1)
          /\ h.retries = g.retries + 0 /\ Unstarted(p)' = Unstarted(p) + 0
      BY <1>10, <2>3, <2>6, <2>8
    <3>5. Balanced(p, h)'
      BY <1>1, <1>5, <1>7, <1>10, <1>11, <3>3, <3>4, Rebalanced
    <3>6. g.retries > Retrying(p) => h.retries > Retrying(p)'
      BY <2>3, <2>5, <2>6, <3>3, <3>4
    <3>7. QED
      BY <3>5, <3>6
  <2>9. QED
    BY <2>7, <2>8
<1>15. Kept(p)'
  <2>1. CASE IsOver(h)
    <3>1. IsFiniteSet(queue') /\ IsFiniteSet(due') /\ IsFiniteSet(timers')
      BY <1>11 DEF CountInv, GroupsTyped
    <3>2. NoJob(p)'
      BY <1>1, <1>10, <1>14, <2>1, <3>1, OverMeansNoJob
    <3>3. QED
      BY <1>12, <2>1, <3>2 DEF Kept
  <2>2. CASE ~ IsOver(h)
    BY <1>1, <1>10, <1>12, <1>14, <2>2, KeptOpen
  <2>3. QED
    BY <2>1, <2>2
<1>16. Lost(p) => Lost(p)'
  <2> SUFFICES ASSUME Lost(p) PROVE Lost(p)'
    OBVIOUS
  <2>1. h.retries > Retrying(p)' /\ g.retries > Retrying(p)
    BY <1>4, <1>14 DEF Lost
  <2>2. Retrying(p) \in Nat /\ g.retries \in Nat
    BY CountsAreNumbers DEF Group
  <2>3. ~ IsOver(h)
    BY <1>10, <2>1, <2>2 DEF IsOver
  <2>4. QED
    BY <1>10, <1>12, <2>1, <2>3, NoGroup DEF Lost
<1>17. QED
  BY <1>12, <1>13, <1>15, <1>16 DEF Books

(* A worker hands a retry to its timer, or loses it in the shutdown.        *)
LEMMA BooksOfArm ==
  ASSUME JobsTyped, PlaceInv, CountInv, NEW w \in Workers, Arm(w)
  PROVE  /\ Books' /\ IsFiniteSet(timers')
         /\ \A o \in Ops : Lost(o) \/ (Op(w) = o /\ shutdown = "all") => Lost(o)'
<1>1. /\ worker[w].pc = "arm" /\ Op(w) \in Ops
      /\ group[Op(w)] # None /\ group[Op(w)] \in Group
  BY JobMeansOpen DEF Arm, At, Active, CountInv, GroupsTyped
<1>2. PICK p \in Ops, j \in Job : p = Op(w) /\ j = worker[w].job /\ j.op = p
  BY <1>1 DEF Op, JobsTyped
<1>3. /\ worker'[w].pc = "idle" /\ \A v \in Workers \ {w} : worker'[v] = worker[v]
  BY OthersStay DEF Arm, Idle
<1>4. /\ timers' = IF shutdown = "all" THEN timers ELSE timers \cup {j}
      /\ UNCHANGED <<queue, due, entering, group, shutdown>>
  BY <1>2 DEF Arm
<1>5. j \notin timers /\ IsFiniteSet(timers)
  BY <1>1, <1>2 DEF PlaceInv, Apart, Active, Pool, CountInv, GroupsTyped
<1>6. IsFiniteSet(timers')
  BY <1>4, <1>5, FS_AddElement
<1>7. ASSUME NEW o \in Ops
      PROVE  Kept(o)' /\ (Lost(o) \/ (p = o /\ shutdown = "all") => Lost(o)')
  <2>1. /\ Held(o, Working)' = Held(o, Working) /\ Held(o, {"got"})' = Held(o, {"got"})
        /\ Queued(o)' = Queued(o)
    BY <1>1, <1>3, <1>4 DEF Held, Op, Working, Queued
  <2>2. CASE p # o
    <3>1. Held(o, {"arm"})' = Held(o, {"arm"}) /\ Ticking(o)' = Ticking(o)
      BY <1>2, <1>3, <1>4, <2>2 DEF Held, Op, Ticking
    <3>2. Kept(o)'
      BY <1>4, <2>1, <3>1, KeptElsewhere DEF CountInv, Ledger
    <3>3. Retrying(o)' = Retrying(o)
      BY <3>1 DEF Retrying
    <3>4. QED
      BY <1>4, <2>2, <3>2, <3>3 DEF Lost
  <2>3. CASE p = o
    <3>1. PICK g \in Group : g = group[o] /\ g # None
      BY <1>1, <1>2, <2>3
    <3>2. Balanced(o, g)
      BY <3>1 DEF CountInv, Kept
    <3>3. w \in Held(o, {"arm"}) /\ ~ (w \in Held(o, {"arm"}))'
      BY <1>1, <1>2, <1>3, <2>3 DEF Held
    <3>4. /\ Cardinality(Held(o, {"arm"}))' = Cardinality(Held(o, {"arm"})) - 1
          /\ Cardinality(Held(o, {"arm"})) \in Nat
      BY <1>3, <3>3, HeldCount
    <3>5. Unstarted(o)' = Unstarted(o) + 0 /\ Unstarted(o) \in Nat
          /\ Cardinality(Held(o, Working))' = Cardinality(Held(o, Working)) + 0
          /\ Retrying(o) \in Nat /\ Cardinality(Ticking(o)) \in Nat
      <4>1. Unstarted(o)' = Unstarted(o)
        BY <1>4, <2>1 DEF Unstarted
      <4>2. QED
        BY <2>1, <4>1, CountsAreNumbers
    <3>6. CASE shutdown = "all"
      <4>1. Ticking(o)' = Ticking(o)
        BY <1>4, <3>6 DEF Ticking
      <4>2. Retrying(o)' = Retrying(o) - 1
        BY <3>4, <3>5, <4>1 DEF Retrying
      <4>3. g.retries >= Retrying(o)'
        BY <3>2, <3>5, <3>6, <4>2 DEF Balanced, Group
      <4>4. Balanced(o, g)'
        BY <1>4, <2>1, <3>2, <3>5, <3>6, <4>3 DEF Balanced
      <4>5. g.retries > Retrying(o)'
        BY <3>2, <3>5, <3>6, <4>2 DEF Balanced, Group
      <4>6. Lost(o)'
        BY <1>4, <3>1, <4>5 DEF Lost
      <4>7. QED
        BY <1>4, <3>1, <4>4, <4>6, KeptOpen
    <3>7. CASE shutdown # "all"
      <4>1. Ticking(o)' = JobsOf(timers \cup {j}, o) /\ Ticking(o) = JobsOf(timers, o)
        BY <1>4, <3>7 DEF Ticking, JobsOf
      <4>2. Cardinality(JobsOf(timers \cup {j}, o))
              = Cardinality(JobsOf(timers, o)) + (IF j.op = o THEN 1 ELSE 0)
        BY <1>5, OpCount
      <4>3. Cardinality(Ticking(o))' = Cardinality(Ticking(o)) + 1
        BY <1>2, <2>3, <4>1, <4>2
      <4>4. Retrying(o)' = Retrying(o) + 0
        BY <3>4, <3>5, <4>3 DEF Retrying
      <4>5. g.completed = g.completed + 0 /\ g.running = g.running + 0
            /\ g.retries = g.retries + 0
        BY DEF Group
      <4>6. Balanced(o, g)'
        BY <1>4, <3>2, <3>5, <4>4, <4>5, Rebalanced
      <4>7. Lost(o) => Lost(o)'
        BY <1>4, <3>5, <4>4 DEF Lost
      <4>8. QED
        BY <1>4, <3>1, <3>7, <4>6, <4>7, KeptOpen
    <3>8. QED
      BY <3>6, <3>7
  <2>4. QED
    BY <2>2, <2>3
<1>8. QED
  BY <1>2, <1>6, <1>7 DEF Books

(* submit puts the next job into the queue.                                 *)
LEMMA BooksOfPut ==
  ASSUME JobsTyped, PlaceInv, CountInv, NEW p \in Ops, Put(p)
  PROVE  Books' /\ IsFiniteSet(queue')
<1>1. /\ entering[p] # <<>> /\ entering[p] \in Seq(Job)
      /\ queue' = queue \cup {Head(entering[p])}
      /\ entering' = [entering EXCEPT ![p] = Tail(entering[p])]
      /\ UNCHANGED <<group, timers, due, shutdown, worker>>
  BY DEF Put, JobsTyped
<1>2. PICK j : j = Head(entering[p])
  OBVIOUS
<1>3. j = entering[p][1] /\ 1 \in 1..Len(entering[p])
  BY <1>1, <1>2
<1>4. j.op = p /\ j \notin queue \cup due
  BY <1>3 DEF PlaceInv, Apart, Pool
<1>5. Len(entering'[p]) = Len(entering[p]) - 1 /\ \A o \in Ops \ {p} : entering'[o] = entering[o]
  BY <1>1 DEF JobsTyped
<1>6. IsFiniteSet(queue') /\ IsFiniteSet(queue \cup due)
  BY <1>1, <1>2, FS_AddElement, FS_Union DEF CountInv, GroupsTyped
<1>7. ASSUME NEW o \in Ops PROVE Kept(o)'
  <2>1. /\ Held(o, Working)' = Held(o, Working) /\ Held(o, {"got"})' = Held(o, {"got"})
        /\ Held(o, {"arm"})' = Held(o, {"arm"}) /\ Ticking(o)' = Ticking(o)
    BY <1>1 DEF Held, Op, Ticking
  <2>2. CASE p # o
    <3>1. Queued(o)' = Queued(o)
      BY <1>1, <1>2, <1>4, <2>2 DEF Queued
    <3>2. QED
      BY <1>1, <1>5, <2>1, <2>2, <3>1, KeptElsewhere DEF CountInv, Ledger
  <2>3. CASE p = o
    <3>1. PICK g \in Group : g = group[o] /\ g # None
      BY <1>1, <2>3, JobMeansOpen DEF CountInv, GroupsTyped
    <3>2. Balanced(o, g)
      BY <3>1 DEF CountInv, Kept
    <3>3. Queued(o)' = JobsOf((queue \cup due) \cup {j}, o) /\ Queued(o) = JobsOf(queue \cup due, o)
      BY <1>1, <1>2 DEF Queued, JobsOf
    <3>4. Cardinality(JobsOf((queue \cup due) \cup {j}, o))
            = Cardinality(JobsOf(queue \cup due, o)) + (IF j.op = o THEN 1 ELSE 0)
      BY <1>4, <1>6, OpCount
    <3>5. Cardinality(Queued(o))' = Cardinality(Queued(o)) + 1
      BY <1>4, <2>3, <3>3, <3>4
    <3>6. /\ Cardinality(Queued(o)) \in Nat /\ Len(entering[o]) \in Nat
          /\ Cardinality(Held(o, {"got"})) \in Nat /\ Retrying(o) \in Nat
          /\ Cardinality(Held(o, Working)) \in Nat
      BY CountsAreNumbers
    <3>7. Unstarted(o)' = Unstarted(o) + 0
      <4>1. Len(entering[o])' = Len(entering[o]) - 1
        BY <1>5, <2>3
      <4>2. QED
        BY <2>1, <3>5, <3>6, <4>1 DEF Unstarted
    <3>8. Retrying(o)' = Retrying(o) + 0
          /\ Cardinality(Held(o, Working))' = Cardinality(Held(o, Working)) + 0
      <4>1. Retrying(o)' = Retrying(o)
        BY <2>1 DEF Retrying
      <4>2. QED
        BY <2>1, <3>6, <4>1
    <3>9. g.completed = g.completed + 0 /\ g.running = g.running + 0 /\ g.retries = g.retries + 0
      BY DEF Group
    <3>10. Balanced(o, g)'
      BY <1>1, <3>2, <3>7, <3>8, <3>9, Rebalanced
    <3>11. QED
      BY <1>1, <3>1, <3>10, KeptOpen
  <2>4. QED
    BY <2>2, <2>3
<1>8. QED
  BY <1>6, <1>7 DEF Books

(* A timer fires: its job is no pending retry any more.                     *)
LEMMA BooksOfFire ==
  ASSUME JobsTyped, PlaceInv, CountInv, NEW j \in timers, Fire(j)
  PROVE  /\ Books' /\ IsFiniteSet(due') /\ IsFiniteSet(timers')
         /\ group' \in [Ops -> Group \cup {None}]
         /\ \A o \in Ops : group'[o] = None <=> group[o] = None
         /\ \A o \in Ops : Lost(o) => Lost(o)'
<1>1. j.op \in Ops /\ group[j.op] # None /\ group[j.op] \in Group
  BY JobMeansOpen DEF Pool, CountInv, GroupsTyped
<1>2. PICK p \in Ops, g \in Group : p = j.op /\ g = group[p]
  BY <1>1
<1>3. /\ timers' = timers \ {j} /\ due' = due \cup {j}
      /\ group' = [group EXCEPT ![p].retries = @ - 1]
      /\ UNCHANGED <<queue, entering, shutdown, worker>>
  BY <1>1, <1>2 DEF Fire
<1>4. /\ j \notin queue \cup due /\ IsFiniteSet(queue \cup due) /\ IsFiniteSet(due')
      /\ IsFiniteSet(timers')
  BY <1>3, FS_Union, FS_AddElement, FS_RemoveElement DEF PlaceInv, Apart, CountInv, GroupsTyped
<1>5. PICK S : S = timers \ {j} /\ j \notin S /\ timers = S \cup {j} /\ IsFiniteSet(S)
  BY <1>3, <1>4
<1>6. /\ Cardinality(JobsOf(S, p)) \in Nat
      /\ Cardinality(JobsOf(S \cup {j}, p)) = Cardinality(JobsOf(S, p)) + (IF j.op = p THEN 1 ELSE 0)
  BY <1>5, OpCount
<1>7. Ticking(p)' = JobsOf(S, p) /\ Ticking(p) = JobsOf(S \cup {j}, p)
  BY <1>3, <1>5 DEF Ticking, JobsOf
<1>8. Cardinality(Ticking(p)) = Cardinality(Ticking(p))' + 1 /\ Cardinality(Ticking(p))' \in Nat
  BY <1>2, <1>6, <1>7
<1>9. Balanced(p, g)
  BY <1>1, <1>2 DEF CountInv, Kept
<1>10. /\ Cardinality(Queued(p)) \in Nat /\ Len(entering[p]) \in Nat
       /\ Cardinality(Held(p, {"got"})) \in Nat /\ Cardinality(Held(p, {"arm"})) \in Nat
       /\ Cardinality(Held(p, Working)) \in Nat
       /\ g.retries \in Nat /\ g.running \in Nat /\ g.completed \in Nat
  BY CountsAreNumbers DEF Group
<1>11. g.retries - 1 \in Nat
  BY <1>8, <1>9, <1>10 DEF Balanced, Retrying
<1>12. PICK h \in Group : /\ h = [g EXCEPT !.retries = g.retries - 1]
                           /\ h.total = g.total /\ h.completed = g.completed
                           /\ h.running = g.running /\ h.retries = g.retries - 1
  <2> DEFINE k == [g EXCEPT !.retries = g.retries - 1]
  <2>1. /\ k \in Group /\ k.total = g.total /\ k.completed = g.completed
        /\ k.running = g.running /\ k.retries = g.retries - 1
    BY <1>11 DEF Group
  <2>2. QED
    BY <2>1
<1>13. /\ group'[p] = h /\ \A o \in Ops \ {p} : group'[o] = group[o]
       /\ group' \in [Ops -> Group \cup {None}]
  BY <1>2, <1>3, <1>12 DEF CountInv, GroupsTyped
<1>14. ASSUME NEW o \in Ops PROVE Kept(o)' /\ (Lost(o) => Lost(o)')
  <2>1. /\ Held(o, Working)' = Held(o, Working) /\ Held(o, {"got"})' = Held(o, {"got"})
        /\ Held(o, {"arm"})' = Held(o, {"arm"})
    BY <1>3 DEF Held, Op
  <2>2. CASE p # o
    <3>1. Queued(o)' = Queued(o) /\ Ticking(o)' = Ticking(o)
      BY <1>2, <1>3, <2>2 DEF Queued, Ticking
    <3>2. Kept(o)'
      BY <1>3, <1>13, <2>1, <2>2, <3>1, KeptElsewhere DEF CountInv, Ledger
    <3>3. Retrying(o)' = Retrying(o)
      BY <2>1, <3>1 DEF Retrying
    <3>4. QED
      BY <1>13, <2>2, <3>2, <3>3 DEF Lost
  <2>3. CASE p = o
    <3>1. Queued(p)' = JobsOf((queue \cup due) \cup {j}, p) /\ Queued(p) = JobsOf(queue \cup due, p)
      BY <1>3 DEF Queued, JobsOf
    <3>2. Cardinality(JobsOf((queue \cup due) \cup {j}, p))
            = Cardinality(JobsOf(queue \cup due, p)) + (IF j.op = p THEN 1 ELSE 0)
      BY <1>4, OpCount
    <3>3. Cardinality(Queued(p))' = Cardinality(Queued(p)) + 1
      BY <1>2, <3>1, <3>2
    <3>4. entering'[p] = entering[p] /\ UNCHANGED shutdown
      BY <1>3
    <3>5. Unstarted(p)' = Unstarted(p) + 1
      <4>1. Cardinality(Held(p, {"got"}))' = Cardinality(Held(p, {"got"}))
        BY <2>1, <2>3
      <4>2. Unstarted(p)' = (Cardinality(Queued(p)) + 1) + Len(entering[p])
                            + Cardinality(Held(p, {"got"}))
        BY <3>3, <3>4, <4>1 DEF Unstarted
      <4>3. Unstarted(p) = Cardinality(Queued(p)) + Len(entering[p]) + Cardinality(Held(p, {"got"}))
        BY DEF Unstarted
      <4>4. PICK q \in Nat, l \in Nat, t \in Nat :
              /\ q = Cardinality(Queued(p)) /\ l = Len(entering[p])
              /\ t = Cardinality(Held(p, {"got"}))
        BY <1>10
      <4>5. Unstarted(p)' = (q + 1) + l + t /\ Unstarted(p) = q + l + t
        BY <4>2, <4>3, <4>4
      <4>6. QED
        BY <4>5
    <3>6. Retrying(p)' = Retrying(p) + (-1)
      BY <1>8, <1>10, <2>1, <2>3 DEF Retrying
    <3>7. /\ Cardinality(Held(p, Working))' = Cardinality(Held(p, Working)) + 0
          /\ h.completed = g.completed + 0 /\ h.running = g.running + 0
          /\ h.retries = g.retries + (-1)
      BY <1>10, <1>12, <2>1, <2>3
    <3>8. Balanced(p, h)'
      <4>1. h.total = g.total /\ UNCHANGED shutdown
        BY <1>12, <3>4
      <4>2. 0 + 0 + (-1) + 1 = 0
        OBVIOUS
      <4>3. QED
        BY <1>9, <3>5, <3>6, <3>7, <4>1, <4>2, Rebalanced
    <3>9. Kept(p)'
      BY <1>13, <3>8, KeptOpen
    <3>10. Retrying(p) \in Nat
      BY CountsAreNumbers
    <3>11. Lost(p) => Lost(p)'
      <4>1. g.retries > Retrying(p) => h.retries > Retrying(p)'
        BY <1>10, <1>12, <3>6, <3>10
      <4>2. QED
        BY <1>2, <1>13, <4>1, NoGroup DEF Lost
    <3>12. QED
      BY <2>3, <3>9, <3>11
  <2>4. QED
    BY <2>2, <2>3
<1>15. \A o \in Ops : group'[o] = None <=> group[o] = None
  BY <1>1, <1>2, <1>12, <1>13, NoGroup
<1>16. QED
  BY <1>4, <1>13, <1>14, <1>15 DEF Books

(* A retry goes back into the queue, where it counted before.               *)
LEMMA BooksOfPutAgain ==
  ASSUME JobsTyped, CountInv, NEW j \in due, PutAgain(j)
  PROVE  Books' /\ IsFiniteSet(queue') /\ IsFiniteSet(due')
<1>1. /\ queue' \cup due' = queue \cup due /\ queue' = queue \cup {j} /\ due' = due \ {j}
      /\ UNCHANGED <<timers, entering, group, shutdown, worker>>
  BY DEF PutAgain
<1>2. ASSUME NEW o \in Ops PROVE Kept(o)'
  <2>1. /\ Held(o, Working)' = Held(o, Working) /\ Held(o, {"got"})' = Held(o, {"got"})
        /\ Held(o, {"arm"})' = Held(o, {"arm"}) /\ Ticking(o)' = Ticking(o)
        /\ Queued(o)' = Queued(o)
    BY <1>1 DEF Held, Op, Ticking, Queued
  <2>2. QED
    BY <1>1, <2>1, KeptElsewhere DEF CountInv, Ledger
<1>3. IsFiniteSet(queue') /\ IsFiniteSet(due')
  BY <1>1, FS_AddElement, FS_RemoveElement DEF CountInv, GroupsTyped
<1>4. QED
  BY <1>2, <1>3 DEF Books

(* The shutdown cancels the timers: their retries stay counted.             *)
LEMMA BooksOfShutdown ==
  ASSUME JobsTyped, CountInv, Shutdown
  PROVE  /\ Books' /\ IsFiniteSet(timers')
         /\ \A o \in Ops : Lost(o) \/ Ticking(o)' # Ticking(o) => Lost(o)'
<1>1. UNCHANGED <<queue, due, entering, group, worker>>
  BY DEF Shutdown
<1>2. \/ shutdown = "no" /\ shutdown' = "rclone" /\ timers' = timers
      \/ shutdown = "rclone" /\ shutdown' = "all" /\ timers' = {}
  BY DEF Shutdown
<1>3. ASSUME NEW o \in Ops
      PROVE  Kept(o)' /\ (Lost(o) \/ Ticking(o)' # Ticking(o) => Lost(o)')
  <2>1. /\ Held(o, Working)' = Held(o, Working) /\ Held(o, {"got"})' = Held(o, {"got"})
        /\ Held(o, {"arm"})' = Held(o, {"arm"}) /\ Queued(o)' = Queued(o)
    BY <1>1 DEF Held, Op, Queued
  <2>2. Unstarted(o)' = Unstarted(o)
    BY <1>1, <2>1 DEF Unstarted
  <2>3. /\ Cardinality(Held(o, {"arm"})) \in Nat /\ Cardinality(Ticking(o)) \in Nat
    BY CountsAreNumbers
  <2>4. CASE group[o] = None
    <3>1. NoJob(o) /\ Ticking(o)' \subseteq Ticking(o)
      BY <1>2, <2>4 DEF CountInv, Kept, Ticking
    <3>2. NoJob(o)'
      BY <1>1, <2>1, <3>1 DEF NoJob
    <3>3. Ticking(o)' = Ticking(o)
      BY <3>1 DEF NoJob
    <3>4. QED
      BY <1>1, <2>4, <3>2, <3>3 DEF Kept, Lost
  <2>5. CASE group[o] # None
    <3>1. PICK g \in Group : g = group[o]
      BY <2>5 DEF CountInv, GroupsTyped
    <3>2. Balanced(o, g)
      BY <2>5, <3>1 DEF CountInv, Kept
    <3>3. CASE shutdown' = "rclone" /\ shutdown = "no" /\ timers' = timers
      <4>1. Ticking(o)' = Ticking(o)
        BY <3>3 DEF Ticking
      <4>2. Retrying(o)' = Retrying(o)
        BY <2>1, <4>1 DEF Retrying
      <4>3. Balanced(o, g)'
        BY <2>1, <2>2, <3>2, <3>3, <4>2 DEF Balanced
      <4>4. QED
        BY <1>1, <3>1, <4>1, <4>2, <4>3, KeptOpen DEF Lost
    <3>4. CASE shutdown' = "all" /\ shutdown = "rclone" /\ timers' = {}
      <4>1. Ticking(o)' = {}
        BY <3>4 DEF Ticking
      <4>2. Retrying(o)' = Cardinality(Held(o, {"arm"}))
        BY <2>1, <2>3, <4>1, FS_EmptySet DEF Retrying
      <4>3. g.retries >= Retrying(o)'
        BY <2>3, <3>2, <3>4, <4>2 DEF Balanced, Retrying
      <4>4. Balanced(o, g)'
        BY <2>1, <2>2, <3>2, <3>4, <4>3 DEF Balanced
      <4>5. Ticking(o) # {} => Cardinality(Ticking(o)) # 0
        <5>1. Ticking(o) \in SUBSET timers /\ IsFiniteSet(timers)
          BY DEF Ticking, CountInv, GroupsTyped
        <5>2. IsFiniteSet(Ticking(o))
          BY <5>1, FS_Subset
        <5>3. QED
          BY <5>2, FS_EmptySet
      <4>6. Lost(o) \/ Ticking(o)' # Ticking(o) => g.retries > Retrying(o)'
        <5>1. g.retries = Cardinality(Ticking(o)) + Cardinality(Held(o, {"arm"}))
          BY <3>2, <3>4 DEF Balanced, Retrying
        <5>2. ~ Lost(o)
          BY <2>3, <3>1, <5>1 DEF Lost, Retrying
        <5>3. QED
          BY <2>3, <4>1, <4>2, <4>5, <5>1, <5>2
      <4>7. QED
        BY <1>1, <2>5, <3>1, <4>4, <4>6, KeptOpen DEF Lost
    <3>5. QED
      BY <1>2, <3>3, <3>4
  <2>6. QED
    BY <2>4, <2>5
<1>4. IsFiniteSet(timers')
  BY <1>2, FS_EmptySet DEF CountInv, GroupsTyped
<1>5. QED
  BY <1>3, <1>4 DEF Books

(* A new operation counts all its jobs.                                     *)
LEMMA BooksOfSubmit ==
  ASSUME JobsTyped, CountInv, NEW p \in Ops, Submit(p)
  PROVE  /\ Books' /\ group' \in [Ops -> Group \cup {None}]
         /\ group[p] = None /\ \A o \in Ops \ {p} : group'[o] = group[o]
         /\ group'[p] # None => status'[p] = "running"
<1>1. group[p] = None /\ NoJob(p)
  BY DEF Submit, CountInv, OneReporter, Kept
<1>2. UNCHANGED <<queue, due, timers, shutdown, worker>>
  BY DEF Submit, pool
<1>3. ASSUME NEW o \in Ops
      PROVE  /\ Held(o, Working)' = Held(o, Working) /\ Held(o, {"got"})' = Held(o, {"got"})
             /\ Held(o, {"arm"})' = Held(o, {"arm"}) /\ Ticking(o)' = Ticking(o)
             /\ Queued(o)' = Queued(o)
  BY <1>2 DEF Held, Op, Ticking, Queued
<1>4. CASE UNCHANGED <<group, entering>>
  <2>1. ASSUME NEW o \in Ops PROVE Kept(o)'
    BY <1>2, <1>3, <1>4, KeptElsewhere DEF CountInv, Ledger
  <2>2. QED
    BY <1>1, <1>4, <2>1 DEF Books, CountInv, GroupsTyped
<1>5. CASE /\ status' = [status EXCEPT ![p] = "running"]
           /\ group' = [group EXCEPT ![p] = NewGroup(p)]
           /\ entering' = [entering EXCEPT ![p] =
                             [n \in 1..Len(Wanted(p)) |->
                                [op |-> p, item |-> Wanted(p)[n], attempt |-> 1,
                                 order |-> order + n]]]
  <2>1. Len(Wanted(p)) \in Nat
    <3>1. Wanted(p) \in Seq(Items)
      BY WantedItems DEF Submit
    <3>2. QED
      BY <3>1
  <2>2. PICK g \in Group : /\ g = NewGroup(p) /\ g.total = Len(Wanted(p)) /\ g.completed = 0
                            /\ g.running = 0 /\ g.retries = 0
    <3>1. NewGroup(p) \in Group
      BY <2>1 DEF NewGroup, Group
    <3>2. QED
      BY <3>1 DEF NewGroup
  <2>3. /\ group'[p] = g /\ \A o \in Ops \ {p} : group'[o] = group[o] /\ entering'[o] = entering[o]
        /\ group' \in [Ops -> Group \cup {None}] /\ status'[p] = "running"
        /\ Len(entering'[p]) = Len(Wanted(p))
    BY <1>5, <2>1, <2>2 DEF CountInv, GroupsTyped, JobsTyped
  <2>4. ASSUME NEW o \in Ops \ {p} PROVE Kept(o)'
    BY <1>2, <1>3, <2>3, KeptElsewhere DEF CountInv, Ledger
  <2>5. /\ Cardinality(Queued(p))' = 0 /\ Cardinality(Ticking(p))' = 0
        /\ Cardinality(Held(p, Working))' = 0 /\ Cardinality(Held(p, {"got"}))' = 0
        /\ Cardinality(Held(p, {"arm"}))' = 0
    BY <1>1, <1>3, FS_EmptySet DEF NoJob
  <2>6. Unstarted(p)' = Len(Wanted(p)) /\ Retrying(p)' = 0
    BY <2>1, <2>3, <2>5 DEF Unstarted, Retrying
  <2>7. Balanced(p, g)'
    BY <2>1, <2>2, <2>5, <2>6 DEF Balanced
  <2>8. Kept(p)'
    BY <2>3, <2>7, KeptOpen
  <2>9. QED
    BY <1>1, <2>3, <2>4, <2>8 DEF Books
<1>6. QED
  BY <1>4, <1>5 DEF Submit

-----------------------------------------------------------------------------
(* Closing an operation                                                     *)

(* Steps after which the same operations are open and the same workers      *)
(* report.                                                                  *)
LEMMA ReportersStay ==
  ASSUME JobsTyped, OneReporter, UNCHANGED status,
         \A o \in Ops : group'[o] = None <=> group[o] = None,
         \A v \in Workers : worker'[v].pc = "report" =>
           worker[v].pc = "report" /\ worker'[v].job = worker[v].job
  PROVE  OneReporter'
<1>1. \A v \in Workers : At(v, "report") => Op(v) \in Ops
  BY DEF JobsTyped, Job, At, Op
<1>2. QED
  BY <1>1 DEF OneReporter, At, Op

(* The worker that closes an operation is the only one that reports it.     *)
LEMMA ReporterOfSettle ==
  ASSUME JobsTyped, CountInv, NEW w \in Workers, Settle(w)
  PROVE  OneReporter'
<1>1. /\ worker[w].pc = "settle" /\ Op(w) \in Ops /\ group[Op(w)] # None
  BY JobMeansOpen DEF Settle, At, Active, Working
<1>2. PICK p \in Ops : p = worker[w].job.op
  BY <1>1 DEF Op
<1>3. status[p] = "running" /\ group[p] # None
  BY <1>1, <1>2 DEF CountInv, OneReporter, Op
<1>4. /\ \A v \in Workers \ {w} : worker'[v] = worker[v]
      /\ worker'[w].pc = "report" => worker'[w].job = worker[w].job /\ group'[p] = None
      /\ \A o \in Ops \ {p} : group'[o] = group[o]
      /\ UNCHANGED status
  BY <1>1, <1>2 DEF Settle, Op, Moves, JobsTyped, CountInv, GroupsTyped, Idle
<1>5. \A v \in Workers : worker[v].pc = "report" => worker[v].job.op \in Ops
                                                 /\ worker[v].job.op # p
  BY <1>3 DEF JobsTyped, Job, CountInv, OneReporter, At, Op
<1>6. \A o \in Ops : group'[o] # None => status'[o] = "running"
  BY <1>3, <1>4 DEF CountInv, OneReporter
<1>7. \A v \in Workers : At(v, "report")' => (group[Op(v)] = None /\ status[Op(v)] = "running")'
  BY <1>2, <1>3, <1>4, <1>5 DEF CountInv, OneReporter, At, Op
<1>8. \A v, u \in Workers : v # u /\ At(v, "report")' /\ At(u, "report")' => Op(v)' # Op(u)'
  BY <1>2, <1>4, <1>5 DEF CountInv, OneReporter, At, Op
<1>9. QED
  BY <1>6, <1>7, <1>8 DEF OneReporter

(* It reports, and nobody else has anything to do with the operation.       *)
LEMMA ReporterOfReport ==
  ASSUME JobsTyped, CountInv, NEW w \in Workers, Report(w)
  PROVE  OneReporter' /\ DOMAIN status' = Ops
<1>1. worker[w].pc = "report" /\ Op(w) \in Ops /\ group[Op(w)] = None
  BY DEF Report, At, JobsTyped, Job, Op, CountInv, OneReporter
<1>2. PICK p \in Ops : p = worker[w].job.op /\ group[p] = None
  BY <1>1 DEF Op
<1>3. /\ \A v \in Workers \ {w} : worker'[v] = worker[v] /\ worker'[w].pc = "idle"
      /\ \A o \in Ops \ {p} : status'[o] = status[o]
      /\ UNCHANGED group /\ DOMAIN status' = Ops
  BY <1>1, <1>2 DEF Report, Op, Moves, JobsTyped, CountInv, GroupsTyped, Idle
<1>4. \A v \in Workers \ {w} : worker[v].pc = "report" => worker[v].job.op \in Ops \ {p}
  BY <1>1, <1>2 DEF JobsTyped, Job, CountInv, OneReporter, At, Op
<1>5. worker'[w].pc = "idle"
  BY DEF Report, Moves, JobsTyped, Idle
<1>6. QED
  BY <1>2, <1>3, <1>4, <1>5 DEF CountInv, OneReporter, At, Op

(* A submitted operation was new: nobody reports it.                        *)
LEMMA ReporterOfSubmit ==
  ASSUME JobsTyped, CountInv, NEW p \in Ops, Submit(p)
  PROVE  OneReporter' /\ DOMAIN status' = Ops
<1>1. status[p] = "new" /\ UNCHANGED worker
      /\ (\A o \in Ops \ {p} : status'[o] = status[o]) /\ DOMAIN status' = Ops
  BY DEF Submit, CountInv, GroupsTyped
<1>2. /\ \A o \in Ops \ {p} : group'[o] = group[o]
      /\ group'[p] # None => status'[p] = "running"
  BY BooksOfSubmit
<1>3. \A v \in Workers : worker[v].pc = "report" => worker[v].job.op \in Ops \ {p}
  BY <1>1 DEF JobsTyped, Job, CountInv, OneReporter, At, Op
<1>4. QED
  BY <1>1, <1>2, <1>3 DEF CountInv, OneReporter, At, Op

(* Every step keeps the counts and the reporters.                           *)
LEMMA NextCount ==
  ASSUME MkdirInv, MkdirInv', PlaceInv, CountInv, [Next]_vars
  PROVE  CountInv'
<1>1. JobsTyped /\ JobsTyped' /\ OneReporter
  BY DEF MkdirInv, CountInv
<1>2. CASE \E w \in Workers : Run(w)
  <2>1. PICK w \in Workers : Run(w)
    BY <1>2
  <2>2. CASE Take(w)
    <3>1. /\ UNCHANGED <<due, timers, group, status>>
          /\ worker'[w].pc = "got" /\ \A v \in Workers \ {w} : worker'[v] = worker[v]
      BY <1>1, <2>2 DEF Take, Moves, JobsTyped
    <3>2. OneReporter'
      BY <1>1, <3>1, ReportersStay
    <3>3. Books' /\ IsFiniteSet(queue')
      BY <1>1, <2>2, BooksOfTake
    <3>4. QED
      BY <3>1, <3>2, <3>3 DEF CountInv, GroupsTyped, Books
  <2>3. CASE Arm(w)
    <3>1. /\ UNCHANGED <<queue, due, group, status>>
          /\ worker'[w].pc = "idle" /\ \A v \in Workers \ {w} : worker'[v] = worker[v]
      BY <1>1, <2>3 DEF Arm, Moves, JobsTyped, Idle
    <3>2. OneReporter'
      BY <1>1, <3>1, ReportersStay
    <3>3. Books' /\ IsFiniteSet(timers')
      BY <1>1, <2>3, BooksOfArm
    <3>4. QED
      BY <3>1, <3>2, <3>3 DEF CountInv, GroupsTyped, Books
  <2>4. CASE Start(w)
    <3>1. /\ UNCHANGED <<queue, due, timers, status>>
          /\ \A v \in Workers \ {w} : worker'[v] = worker[v]
          /\ worker'[w].pc # "report"
      BY <1>1, <2>4 DEF Start, Moves, JobsTyped, Idle, SourceFound, Settling, pool
    <3>2. Books' /\ group' \in [Ops -> Group \cup {None}]
          /\ \A o \in Ops : group'[o] = None <=> group[o] = None
      BY <1>1, <2>4, BooksOfStart
    <3>3. OneReporter'
      BY <1>1, <3>1, <3>2, ReportersStay
    <3>4. QED
      BY <3>1, <3>2, <3>3 DEF CountInv, GroupsTyped, Books
  <2>5. CASE Settle(w)
    <3>1. UNCHANGED <<queue, due, timers, status>>
      BY <2>5 DEF Settle, pool
    <3>2. QED
      BY <1>1, <2>5, <3>1, BooksOfSettle, ReporterOfSettle DEF CountInv, GroupsTyped, Books
  <2>6. CASE Execute(w) \/ Own(w) \/ Make(w) \/ Follow(w) \/ Quit(w) \/ Refresh(w)
    <3>1. UNCHANGED <<queue, due, timers, entering, group, shutdown, status>>
      BY <2>6 DEF Execute, Own, Make, Follow, Quit, Refresh, pool
    <3>2. /\ \A v \in Workers \ {w} : worker'[v] = worker[v]
          /\ worker'[w].pc = "report" => worker[w].pc = "report" /\ worker'[w].job = worker[w].job
          /\ \/ /\ worker[w].pc \in Working /\ worker'[w].pc \in Working
                /\ worker'[w].job.op = worker[w].job.op
             \/ worker[w].pc \notin Active /\ worker'[w].pc \notin Active
      <4>1. CASE Execute(w) /\ ~ UNCHANGED order
        <5>1. /\ worker[w].pc = "copy" /\ worker[w].job \in Job
              /\ Moves(w, [pc |-> "settle", job |-> Again(worker[w].job), outcome |-> "retry"])
          BY <1>1, <4>1 DEF Execute, At, JobsTyped
        <5>2. Again(worker[w].job).op = worker[w].job.op
          BY <5>1 DEF Again, Job
        <5>3. QED
          BY <1>1, <5>1, <5>2 DEF Moves, JobsTyped, Working
      <4>2. CASE Execute(w) => UNCHANGED order
        BY <1>1, <2>6, <4>2, Strides DEF Changes, JobsTyped, Active, Working
      <4>3. QED
        BY <4>1, <4>2
    <3>3. OneReporter'
      BY <1>1, <3>1, <3>2, ReportersStay
    <3>4. Books'
      BY <1>1, <3>1, <3>2, BooksOfWork
    <3>5. QED
      BY <3>1, <3>3, <3>4 DEF CountInv, GroupsTyped, Books
  <2>7. CASE Report(w)
    <3>1. UNCHANGED <<queue, due, timers, entering, group, shutdown>>
      BY <2>7 DEF Report, pool
    <3>2. /\ \A v \in Workers \ {w} : worker'[v] = worker[v]
          /\ worker[w].pc \notin Active /\ worker'[w].pc \notin Active
      BY <1>1, <2>7 DEF Report, Moves, JobsTyped, Idle, At, Active, Working
    <3>3. Books'
      BY <1>1, <3>1, <3>2, BooksOfWork
    <3>4. QED
      BY <1>1, <2>7, <3>1, <3>3, ReporterOfReport DEF CountInv, GroupsTyped, Books
  <2>8. QED
    BY <2>1, <2>2, <2>3, <2>4, <2>5, <2>6, <2>7 DEF Run
<1>3. CASE \E o \in Ops : Submit(o)
  <2>1. PICK o \in Ops : Submit(o)
    BY <1>3
  <2>2. UNCHANGED <<queue, due, timers>>
    BY <2>1 DEF Submit, pool
  <2>3. QED
    BY <1>1, <2>1, <2>2, BooksOfSubmit, ReporterOfSubmit DEF CountInv, GroupsTyped, Books
<1>4. CASE \E o \in Ops : Put(o)
  <2>1. PICK o \in Ops : Put(o)
    BY <1>4
  <2>2. UNCHANGED <<worker, status, group, due, timers>>
    BY <2>1 DEF Put
  <2>3. OneReporter'
    BY <1>1, <2>2, ReportersStay
  <2>4. Books' /\ IsFiniteSet(queue')
    BY <1>1, <2>1, BooksOfPut
  <2>5. QED
    BY <2>2, <2>3, <2>4 DEF CountInv, GroupsTyped, Books
<1>5. CASE \E j \in timers : Fire(j)
  <2>1. PICK j \in timers : Fire(j)
    BY <1>5
  <2>2. UNCHANGED <<worker, status, queue>>
    BY <2>1 DEF Fire
  <2>3. /\ Books' /\ IsFiniteSet(due') /\ IsFiniteSet(timers')
        /\ group' \in [Ops -> Group \cup {None}]
        /\ \A o \in Ops : group'[o] = None <=> group[o] = None
    BY <1>1, <2>1, BooksOfFire
  <2>4. OneReporter'
    BY <1>1, <2>2, <2>3, ReportersStay
  <2>5. QED
    BY <2>2, <2>3, <2>4 DEF CountInv, GroupsTyped, Books
<1>6. CASE \E j \in due : PutAgain(j)
  <2>1. PICK j \in due : PutAgain(j)
    BY <1>6
  <2>2. UNCHANGED <<worker, status, group, timers>>
    BY <2>1 DEF PutAgain
  <2>3. OneReporter'
    BY <1>1, <2>2, ReportersStay
  <2>4. Books' /\ IsFiniteSet(queue') /\ IsFiniteSet(due')
    BY <1>1, <2>1, BooksOfPutAgain
  <2>5. QED
    BY <2>2, <2>3, <2>4 DEF CountInv, GroupsTyped, Books
<1>7. CASE Shutdown
  <2>1. UNCHANGED <<worker, status, group, queue, due>>
    BY <1>7 DEF Shutdown
  <2>2. OneReporter'
    BY <1>1, <2>1, ReportersStay
  <2>3. Books' /\ IsFiniteSet(timers')
    BY <1>1, <1>7, BooksOfShutdown
  <2>4. QED
    BY <2>1, <2>2, <2>3 DEF CountInv, GroupsTyped, Books
<1>8. CASE UNCHANGED <<queue, due, timers, entering, group, shutdown, status, worker>>
  <2>1. ASSUME NEW o \in Ops PROVE Kept(o)'
    <3>1. /\ Held(o, Working)' = Held(o, Working) /\ Held(o, {"got"})' = Held(o, {"got"})
          /\ Held(o, {"arm"})' = Held(o, {"arm"}) /\ Ticking(o)' = Ticking(o)
          /\ Queued(o)' = Queued(o)
      BY <1>8 DEF Held, Op, Ticking, Queued
    <3>2. QED
      BY <1>8, <3>1, KeptElsewhere DEF CountInv, Ledger
  <2>2. OneReporter'
    BY <1>1, <1>8, ReportersStay
  <2>3. QED
    BY <1>8, <2>1, <2>2 DEF CountInv, GroupsTyped
<1>9. CASE \/ TreeChanges
           \/ \E p \in Plans : StartPlan(p) \/ EndPlan(p)
           \/ \E o \in Batches, p \in Plans : Confirm(o, p)
  <2>1. UNCHANGED <<queue, due, timers, entering, group, shutdown, status, worker>>
    BY <1>9 DEF TreeChanges, StartPlan, EndPlan, Confirm, pool
  <2>2. QED
    BY <1>8, <2>1
<1>10. QED
  BY <1>2, <1>3, <1>4, <1>5, <1>6, <1>7, <1>8, <1>9 DEF Next, vars, pool

(* Nothing is anywhere in the beginning.                                    *)
LEMMA InitSettle == Init => PlaceInv /\ CountInv
<1> SUFFICES ASSUME Init PROVE PlaceInv /\ CountInv
  OBVIOUS
<1>1. PlaceInv
  BY DEF Init, PlaceInv, Apart, Numbered, Pool, Active, Working, Idle
<1>2. GroupsTyped /\ OneReporter
  BY FS_EmptySet DEF Init, GroupsTyped, OneReporter, At, Idle
<1>3. \A o \in Ops : Kept(o)
  BY DEF Init, Kept, NoJob, Queued, Ticking, Held, Working, Idle
<1>4. QED
  BY <1>1, <1>2, <1>3 DEF CountInv

(* The invariant of the counts, for any number of workers.                  *)
THEOREM CountsHold == Spec => [](MkdirInv /\ PlaceInv /\ CountInv)
<1> DEFINE I == MkdirInv /\ PlaceInv /\ CountInv
<1>1. Init => I
  BY InitMkdir, InitSettle
<1>2. I /\ [Next]_vars => I'
  <2> SUFFICES ASSUME MkdirInv, PlaceInv, CountInv, [Next]_vars PROVE I'
    OBVIOUS
  <2>1. MkdirInv'
    BY NextMkdir
  <2>2. QED
    BY <2>1, NextPlace, NextCount
<1>3. QED
  BY <1>1, <1>2, PTL DEF Spec

(* Every job of an open operation is counted exactly once, whatever the      *)
(* workers, the timers and the request threads interleave.                  *)
THEOREM JobsAreAccounted == Spec => []Accounted
<1>1. CountInv => Accounted
  BY DEF CountInv, Kept, Accounted
<1>2. QED
  BY <1>1, CountsHold, PTL

(* An operation is reported after the last of its jobs.                     *)
THEOREM ReportIsLast == Spec => []ReportedLast
<1>1. MkdirInv /\ CountInv => ReportedLast
  <2> SUFFICES ASSUME MkdirInv, CountInv, NEW o \in Ops, status[o] \in Final
               PROVE  /\ group[o] = None /\ entering[o] = <<>> /\ Queued(o) = {}
                      /\ Ticking(o) = {}
                      /\ Held(o, Working \cup {"got", "arm", "report"}) = {}
    BY DEF ReportedLast
  <2>1. status[o] # "running"
    BY DEF Final
  <2>2. group[o] = None
    BY <2>1 DEF CountInv, OneReporter
  <2>3. NoJob(o)
    BY <2>2 DEF CountInv, Kept
  <2>4. Held(o, {"report"}) = {}
    BY <2>1 DEF CountInv, OneReporter, Held, At
  <2>5. Held(o, Working \cup {"got", "arm", "report"}) = {}
    BY <2>3, <2>4 DEF NoJob, Held
  <2>6. QED
    BY <2>2, <2>3, <2>5 DEF NoJob
<1>2. QED
  BY <1>1, CountsHold, PTL

-----------------------------------------------------------------------------
(* What a job changes                                                       *)

(* A copy changes folders above its item, which it touches.                 *)
LEMMA ParentCovered ==
  ASSUME NEW i, NEW f \in Prefixes(Parent(i))
  PROVE  Covers(Touches(i), f)
  BY DEF Covers, Touches

(* Making a folder on the way to the item changes folders above the item.   *)
LEMMA TargetCovered ==
  ASSUME NEW i \in Items, Kind[i] = "mkdir", NEW d \in 1..Len(i), NEW f \in Prefixes(SubSeq(i, 1, d))
  PROVE  Covers(Touches(i), f)
<1>1. i \in Seq(STRING) /\ Len(i) \in Nat
  BY ItemsArePaths DEF Items
<1> DEFINE t == SubSeq(i, 1, d)
<1>2. t \in Seq(STRING) /\ Len(t) = d /\ \A n \in 1..d : t[n] = i[n]
  BY <1>1
<1> HIDE DEF t
<1>3. PICK l \in 0..d : f = SubSeq(t, 1, l)
  BY <1>2 DEF Prefixes, t
<1>4. l \in 0..Len(i)
  BY <1>1, <1>3
<1>5. f = [n \in 1..l |-> t[n]] /\ SubSeq(i, 1, l) = [n \in 1..l |-> i[n]]
  BY <1>1, <1>2, <1>3, <1>4
<1>6. f = SubSeq(i, 1, l)
  BY <1>2, <1>3, <1>5
<1>7. f \in Prefixes(i)
  BY <1>4, <1>6 DEF Prefixes
<1>8. QED
  BY <1>7 DEF Covers, Touches, IsFolder

(* A worker moves: what it leaves behind is in the group, or it takes it    *)
(* along.                                                                   *)
LEMMA StaleOfWorker ==
  ASSUME StaleInv, NEW w \in Workers, \A v \in Workers \ {w} : worker'[v] = worker[v],
         \A o \in Ops, f \in Folders : <<o, f>> \in stale' =>
           \/ <<o, f>> \in stale /\ ~ (Op(w) = o /\ Remembers(w, f))
           \/ (Op(w) = o /\ Remembers(w, f))'
           \/ group'[o] # None /\ Covers(group'[o].touched, f),
         \A o \in Ops, f \in Folders : <<o, f>> \in stale' =>
           (group[o] # None /\ Covers(group[o].touched, f) =>
             \/ (Op(w) = o /\ Remembers(w, f))'
             \/ group'[o] # None /\ Covers(group'[o].touched, f))
  PROVE  StaleInv'
<1> SUFFICES ASSUME NEW o \in Ops, NEW f \in Folders, <<o, f>> \in stale'
             PROVE  \/ \E v \in Workers : (Op(v) = o /\ Remembers(v, f))'
                    \/ group'[o] # None /\ Covers(group'[o].touched, f)
  BY DEF StaleInv
<1>1. CASE (Op(w) = o /\ Remembers(w, f))' \/ (group'[o] # None /\ Covers(group'[o].touched, f))
  BY <1>1
<1>2. CASE <<o, f>> \in stale /\ ~ (Op(w) = o /\ Remembers(w, f))
  <2>1. CASE \E v \in Workers : Op(v) = o /\ Remembers(v, f)
    <3>1. PICK v \in Workers \ {w} : Op(v) = o /\ Remembers(v, f)
      BY <1>2, <2>1
    <3>2. (Op(v) = o /\ Remembers(v, f))'
      BY <3>1 DEF Op, Remembers, At, Item
    <3>3. QED
      BY <3>2
  <2>2. CASE group[o] # None /\ Covers(group[o].touched, f)
    BY <2>2
  <2>3. QED
    BY <1>2, <2>1, <2>2 DEF StaleInv
<1>3. QED
  BY <1>1, <1>2

(* A worker copies, and has the folders that this changes in mind.          *)
LEMMA StaleOfExecute ==
  ASSUME MkdirInv, StaleInv, NEW w \in Workers, Execute(w)
  PROVE  StaleInv'
<1>1. /\ JobsTyped /\ worker[w].pc = "copy" /\ UNCHANGED group
  BY DEF Execute, At, MkdirInv
<1>2. \A f : ~ Remembers(w, f)
  BY <1>1 DEF Remembers, At, Folding
<1>3. \A v \in Workers \ {w} : worker'[v] = worker[v]
  BY <1>1 DEF Execute, Moves, JobsTyped
<1>4. \/ stale' = stale
      \/ /\ stale' = Changed(Op(w), Parent(Item(w)))
         /\ worker'[w].pc = "settle" /\ worker'[w].job = worker[w].job
         /\ worker'[w].outcome # "retry"
  <2> DEFINE sound(r) == r.pc = "settle" /\ r.job = worker[w].job /\ r.outcome # "retry"
  <2>1. sound(Settling(w, "ok")) /\ sound(Settling(w, "error"))
    BY DEF Settling
  <2>2. \A rec : Moves(w, rec) => worker'[w] = rec
    BY <1>1 DEF Moves, JobsTyped
  <2> HIDE DEF sound
  <2>3. UNCHANGED stale \/ (stale' = Changed(Op(w), Parent(Item(w))) /\ sound(worker'[w]))
    BY <2>1, <2>2 DEF Execute, history
  <2>4. QED
    BY <2>3 DEF sound
<1>5. ASSUME NEW o \in Ops, NEW f \in Folders, <<o, f>> \in stale', <<o, f>> \notin stale
      PROVE  (Op(w) = o /\ Remembers(w, f))'
  <2>1. o = Op(w) /\ f \in Prefixes(Parent(Item(w)))
    BY <1>4, <1>5 DEF Changed
  <2>2. Covers(Touches(Item(w)), f)
    BY <2>1, ParentCovered
  <2>3. QED
    BY <1>4, <1>5, <2>1, <2>2 DEF Remembers, At, Op, Item
<1>6. QED
  BY <1>1, <1>2, <1>3, <1>5, StaleOfWorker

(* A worker on its way down, which may make a folder of its item.           *)
LEMMA StaleOfFolding ==
  ASSUME MkdirInv, StaleInv, NEW w \in Workers, Own(w) \/ Make(w) \/ Follow(w)
  PROVE  StaleInv'
<1>1. /\ JobsTyped /\ worker[w].pc \in Folding /\ UNCHANGED group
  BY DEF Own, Make, Follow, At, MkdirInv, Folding
<1>2. \A v \in Workers \ {w} : worker'[v] = worker[v]
  BY <1>1 DEF Own, Make, Follow, Moves, JobsTyped
<1>3. worker'[w].job = worker[w].job /\ (worker'[w].pc \in Folding
        \/ (worker'[w].pc = "settle" /\ worker'[w].outcome # "retry"))
  <2> DEFINE sound(r) == r.job = worker[w].job /\ (r.pc \in Folding
                           \/ (r.pc = "settle" /\ r.outcome # "retry"))
  <2>1. sound(Settling(w, "error")) /\ sound(Onward(w))
    BY DEF Settling, Onward, Folding
  <2>2. sound([worker[w] EXCEPT !.pc = "make"])
    BY DEF Folding
  <2>3. \A rec : Moves(w, rec) => worker'[w] = rec
    BY <1>1 DEF Moves, JobsTyped
  <2> HIDE DEF sound
  <2>4. sound(worker'[w])
    BY <2>1, <2>2, <2>3 DEF Own, Make, Follow
  <2>5. QED
    BY <2>4 DEF sound
<1>4. \A f : Remembers(w, f) => Remembers(w, f)'
  BY <1>1, <1>3 DEF Remembers, At, Item, Folding
<1>5. stale' = stale \/ stale' = Changed(Op(w), Target(w))
  BY DEF Own, Make, Follow, history
<1>6. ASSUME NEW o \in Ops, NEW f \in Folders, <<o, f>> \in stale', <<o, f>> \notin stale
      PROVE  (Op(w) = o /\ Remembers(w, f))'
  <2>1. o = Op(w) /\ f \in Prefixes(Target(w))
    BY <1>5, <1>6 DEF Changed
  <2>2. /\ Item(w) \in Items /\ Kind[Item(w)] = "mkdir" /\ worker[w].depth \in 1..Len(Item(w))
    BY <1>1, ChainFolders DEF MkdirInv, ChainTyped
  <2>3. Covers(Touches(Item(w)), f)
    BY <2>1, <2>2, TargetCovered DEF Target
  <2>4. QED
    BY <1>3, <2>1, <2>3 DEF Remembers, At, Op, Item
<1>7. Op(w)' = Op(w)
  BY <1>3 DEF Op
<1>8. QED
  BY <1>1, <1>2, <1>4, <1>6, <1>7, StaleOfWorker

(* A worker settles: what its job touched is in the group, or with the      *)
(* group's folders in its own hands.                                        *)
LEMMA StaleOfSettle ==
  ASSUME MkdirInv, CountInv, StaleInv, NEW w \in Workers, Settle(w)
  PROVE  StaleInv'
<1>1. /\ JobsTyped /\ worker[w].pc = "settle" /\ Op(w) \in Ops /\ Item(w) \in Items
      /\ group[Op(w)] # None /\ group[Op(w)] \in Group
  BY JobMeansOpen DEF Settle, At, Active, Working, CountInv, GroupsTyped, JobsTyped, Job, Item,
     MkdirInv
<1>o. PICK outcome : outcome = worker[w].outcome
  OBVIOUS
<1>2. PICK p \in Ops, g \in Group, i \in Items :
        /\ p = Op(w) /\ g = group[p] /\ i = Item(w) /\ outcome = worker[w].outcome
  BY <1>1, <1>o
<1>3. g.running # 0
  <2>1. Balanced(p, g)
    BY <1>1, <1>2 DEF CountInv, Kept
  <2>2. w \in Held(p, Working)
    BY <1>1, <1>2 DEF Held, Working
  <2>3. Held(p, Working) \in SUBSET Workers
    BY DEF Held
  <2>4. IsFiniteSet(Held(p, Working))
    BY <2>3, FiniteWorkers, FS_Subset
  <2>5. Cardinality(Held(p, Working)) # 0
    BY <2>2, <2>4, FS_EmptySet
  <2>6. QED
    BY <2>1, <2>5 DEF Balanced
<1>s. PICK h : h = Settled(g, i, outcome)
  OBVIOUS
<1>4. /\ h \in Group
      /\ IF outcome = "retry" THEN h.touched = g.touched
                              ELSE h.touched = g.touched \cup Touches(i)
      /\ IsOver(h) => outcome # "retry"
  BY <1>3, <1>s, SettledGroup
<1>5. /\ \A v \in Workers \ {w} : worker'[v] = worker[v]
      /\ \A o \in Ops \ {p} : group'[o] = group[o]
      /\ group'[p] = IF IsOver(h) THEN None ELSE h
      /\ IsOver(h) => /\ worker'[w].pc = "report" /\ worker'[w].job = worker[w].job
                      /\ worker'[w].parents = h.touched
      /\ UNCHANGED stale
  BY <1>1, <1>2, <1>s, <1>4 DEF Settle, Moves, JobsTyped, CountInv, GroupsTyped, history
<1>6. \A f : Covers(h.touched, f) =>
              \/ (Op(w) = p /\ Remembers(w, f))'
              \/ group'[p] # None /\ Covers(group'[p].touched, f)
  BY <1>2, <1>4, <1>5, NoGroup DEF Op, Remembers, At
<1>7. \A f : Covers(g.touched, f) => Covers(h.touched, f)
  <2>1. h.touched = g.touched \/ h.touched = g.touched \cup Touches(i)
    BY <1>4
  <2>2. QED
    BY <2>1 DEF Covers
<1>8. \A f : Remembers(w, f) => Covers(h.touched, f)
  <2> SUFFICES ASSUME NEW f, Remembers(w, f) PROVE Covers(h.touched, f)
    OBVIOUS
  <2>1. outcome # "retry" /\ Covers(Touches(i), f)
    BY <1>1, <1>2 DEF Remembers, At, Folding
  <2>2. h.touched = g.touched \cup Touches(i)
    BY <1>4, <2>1
  <2>3. QED
    BY <2>1, <2>2 DEF Covers
<1>9. ASSUME NEW o \in Ops, NEW f \in Folders, <<o, f>> \in stale'
      PROVE  \/ <<o, f>> \in stale /\ ~ (Op(w) = o /\ Remembers(w, f))
             \/ (Op(w) = o /\ Remembers(w, f))'
             \/ group'[o] # None /\ Covers(group'[o].touched, f)
  BY <1>2, <1>5, <1>6, <1>8, <1>9
<1>10. ASSUME NEW o \in Ops, NEW f \in Folders, group[o] # None, Covers(group[o].touched, f)
       PROVE  \/ (Op(w) = o /\ Remembers(w, f))'
              \/ group'[o] # None /\ Covers(group'[o].touched, f)
  BY <1>2, <1>5, <1>6, <1>7, <1>10
<1>11. QED
  BY <1>5, <1>9, <1>10, StaleOfWorker

(* The closing worker invalidates its folders one by one.                   *)
LEMMA StaleOfReport ==
  ASSUME MkdirInv, StaleInv, NEW w \in Workers, Refresh(w) \/ Report(w)
  PROVE  StaleInv'
<1>1. JobsTyped /\ worker[w].pc = "report" /\ UNCHANGED group
  BY DEF Refresh, Report, At, MkdirInv
<1>2. \A v \in Workers \ {w} : worker'[v] = worker[v]
  BY <1>1 DEF Refresh, Report, Moves, JobsTyped
<1>3. CASE Report(w)
  <2>1. \A f : ~ Remembers(w, f)
    BY <1>1, <1>3 DEF Report, Remembers, At, Folding, Covers
  <2>2. UNCHANGED stale
    BY <1>3 DEF Report, history
  <2>3. QED
    BY <1>1, <1>2, <2>1, <2>2, StaleOfWorker
<1>4. CASE Refresh(w)
  <2>1. PICK d \in worker[w].parents :
          /\ stale' = {x \in stale : x[2] \notin Prefixes(d)}
          /\ Moves(w, [worker[w] EXCEPT !.parents = @ \ {d}])
    BY <1>4 DEF Refresh
  <2>2. worker'[w] = [worker[w] EXCEPT !.parents = @ \ {d}]
    BY <1>1, <2>1, OthersStay
  <2>3. Op(w)' = Op(w) /\ At(w, "report")'
    <3>1. worker'[w].job = worker[w].job /\ worker'[w].pc = worker[w].pc
      BY <2>2
    <3>2. QED
      BY <1>1, <3>1 DEF Op, At
  <2>4. ASSUME NEW o \in Ops, NEW f \in Folders, <<o, f>> \in stale', Remembers(w, f)
        PROVE  Remembers(w, f)'
    <3>1. f \notin Prefixes(d)
      BY <2>1, <2>4
    <3>2. Covers(worker[w].parents, f)
      BY <1>1, <2>4 DEF Remembers, At, Folding
    <3>3. PICK e \in worker[w].parents : f \in Prefixes(e)
      BY <3>2 DEF Covers
    <3>4. e \in worker[w].parents \ {d}
      BY <3>1, <3>3
    <3>5. e \in worker'[w].parents
      BY <1>1, <2>2, <3>4
    <3>6. QED
      BY <2>3, <3>3, <3>5 DEF Remembers, Covers
  <2>5. \A x \in stale' : x \in stale
    BY <2>1
  <2>6. QED
    BY <1>1, <1>2, <2>3, <2>4, <2>5, StaleOfWorker
<1>5. QED
  BY <1>3, <1>4

(* Steps that leave the folders alone: of workers that have none in mind,    *)
(* and of request threads and timers.                                       *)
LEMMA StaleElsewhere ==
  ASSUME JobsTyped, StaleInv, UNCHANGED stale,
         \A o \in Ops : group[o] # None =>
           group'[o] # None /\ group'[o].touched = group[o].touched,
         \A w \in Workers : \/ worker'[w] = worker[w]
                           \/ worker[w].pc \in {"idle", "got", "arm"}
  PROVE  StaleInv'
<1> SUFFICES ASSUME NEW o \in Ops, NEW f \in Folders, <<o, f>> \in stale
             PROVE  \/ \E v \in Workers : (Op(v) = o /\ Remembers(v, f))'
                    \/ group'[o] # None /\ Covers(group'[o].touched, f)
  BY DEF StaleInv
<1>1. CASE \E v \in Workers : Op(v) = o /\ Remembers(v, f)
  <2>1. PICK v \in Workers : Op(v) = o /\ Remembers(v, f)
    BY <1>1
  <2>2. worker'[v] = worker[v]
    BY <2>1 DEF Remembers, At, Folding
  <2>3. QED
    BY <2>1, <2>2 DEF Op, Remembers, At, Item
<1>2. CASE group[o] # None /\ Covers(group[o].touched, f)
  BY <1>2
<1>3. QED
  BY <1>1, <1>2 DEF StaleInv

(* Every step keeps what is stale in mind.                                  *)
LEMMA NextStale ==
  ASSUME MkdirInv, PlaceInv, CountInv, StaleInv, [Next]_vars
  PROVE  StaleInv'
<1>1. JobsTyped /\ group \in [Ops -> Group \cup {None}]
  BY DEF MkdirInv, CountInv, GroupsTyped
<1>2. CASE \E w \in Workers : Run(w)
  <2>1. PICK w \in Workers : Run(w)
    BY <1>2
  <2>2. CASE Take(w) \/ Quit(w) \/ Arm(w)
    <3>1. UNCHANGED <<stale, group>> /\ worker[w].pc \in {"idle", "got", "arm"}
      BY <2>2 DEF Take, Quit, Arm, At, history
    <3>2. \A v \in Workers \ {w} : worker'[v] = worker[v]
      BY <1>1, <2>2 DEF Take, Quit, Arm, Moves, JobsTyped
    <3>3. QED
      BY <1>1, <3>1, <3>2, StaleElsewhere
  <2>3. CASE Start(w)
    <3>1. /\ worker[w].pc = "got" /\ Op(w) \in Ops /\ group[Op(w)] # None
          /\ group[Op(w)] \in Group /\ UNCHANGED stale
      BY <1>1, <2>3, JobMeansOpen DEF Start, At, Active, history
    <3>2. \A v \in Workers \ {w} : worker'[v] = worker[v]
      BY <1>1, <2>3 DEF Start, Moves, JobsTyped
    <3>3. \A o \in Ops : group'[o] = None <=> group[o] = None
      BY <1>1, <2>3, BooksOfStart
    <3>4. group' = [group EXCEPT ![Op(w)].running = @ + 1]
      BY <2>3, <3>1 DEF Start
    <3>5. \A o \in Ops : group[o] # None => group'[o].touched = group[o].touched
      BY <1>1, <3>1, <3>4 DEF Group
    <3>6. QED
      BY <1>1, <3>1, <3>2, <3>3, <3>5, StaleElsewhere
  <2>4. QED
    BY <2>1, <2>2, <2>3, StaleOfExecute, StaleOfFolding, StaleOfSettle, StaleOfReport DEF Run
<1>3. CASE \E o \in Ops : Submit(o)
  <2>1. PICK p \in Ops : Submit(p)
    BY <1>3
  <2>2. group[p] = None /\ \A o \in Ops \ {p} : group'[o] = group[o]
    BY <1>1, <2>1, BooksOfSubmit
  <2>3. UNCHANGED <<stale, worker>>
    BY <2>1 DEF Submit, history
  <2>4. \A o \in Ops : group[o] # None => group'[o] = group[o]
    BY <2>2
  <2>5. QED
    BY <1>1, <2>3, <2>4, StaleElsewhere
<1>4. CASE \E j \in timers : Fire(j)
  <2>1. PICK j \in timers : Fire(j)
    BY <1>4
  <2>2. j.op \in Ops /\ group[j.op] \in Group /\ group[j.op] # None
    BY <1>1, JobMeansOpen DEF Pool
  <2>3. group' = [group EXCEPT ![j.op].retries = @ - 1] /\ UNCHANGED <<stale, worker>>
    BY <2>1, <2>2 DEF Fire, history
  <2>4. \A o \in Ops : group[o] # None => group'[o].touched = group[o].touched
    BY <1>1, <2>2, <2>3 DEF Group
  <2>5. \A o \in Ops : group'[o] = None <=> group[o] = None
    BY <1>1, <2>1, BooksOfFire
  <2>6. QED
    BY <1>1, <2>3, <2>4, <2>5, StaleElsewhere
<1>5. CASE UNCHANGED <<stale, group, worker>>
  BY <1>1, <1>5, StaleElsewhere
<1>6. CASE \/ TreeChanges
           \/ \E p \in Plans : StartPlan(p) \/ EndPlan(p)
           \/ \E o \in Batches, p \in Plans : Confirm(o, p)
           \/ \E o \in Ops : Put(o)
           \/ \E j \in due : PutAgain(j)
           \/ Shutdown
  <2>1. UNCHANGED <<stale, group, worker>>
    BY <1>6 DEF TreeChanges, StartPlan, EndPlan, Confirm, Put, PutAgain, Shutdown, history
  <2>2. QED
    BY <1>5, <2>1
<1>7. QED
  BY <1>2, <1>3, <1>4, <1>5, <1>6 DEF Next, vars, history

(* The whole invariant, for any number of workers.                          *)
THEOREM SettleInvHolds == Spec => []SettleInv
<1>1. Init => SettleInv
  <2>1. Init => StaleInv
    BY DEF Init, StaleInv
  <2>2. QED
    BY <2>1, InitMkdir, InitSettle DEF SettleInv
<1>2. SettleInv /\ [Next]_vars => SettleInv'
  <2> SUFFICES ASSUME MkdirInv, PlaceInv, CountInv, StaleInv, [Next]_vars PROVE SettleInv'
    BY DEF SettleInv
  <2>1. MkdirInv'
    BY NextMkdir
  <2>2. QED
    BY <2>1, NextPlace, NextCount, NextStale DEF SettleInv
<1>3. QED
  BY <1>1, <1>2, PTL DEF Spec

(* A job that has yet to remember a change keeps its operation open.        *)
LEMMA SettledIsFresh == SettleInv => ReportedFresh
<1> SUFFICES ASSUME SettleInv, NEW o \in Ops, status[o] \in Final, NEW f \in Folders,
                    <<o, f>> \in stale
             PROVE  FALSE
  BY DEF ReportedFresh
<1>1. status[o] # "running"
  BY DEF Final
<1>2. group[o] = None
  BY <1>1 DEF SettleInv, CountInv, OneReporter
<1>3. NoJob(o)
  BY <1>2 DEF SettleInv, CountInv, Kept
<1>4. PICK w \in Workers : Op(w) = o /\ Remembers(w, f)
  BY <1>2 DEF SettleInv, StaleInv
<1>5. ~ At(w, "report")
  BY <1>1, <1>4 DEF SettleInv, CountInv, OneReporter
<1>6. worker[w].pc \in Working
  BY <1>4, <1>5 DEF Remembers, At, Folding, Working
<1>7. w \in Held(o, Working)
  BY <1>4, <1>6 DEF Held
<1>8. QED
  BY <1>3, <1>7 DEF NoJob

(* When an operation is reported, every folder that it changed has been      *)
(* invalidated since, also those of jobs that failed.                       *)
THEOREM ReportIsFresh == Spec => []ReportedFresh
<1>1. QED
  BY SettledIsFresh, SettleInvHolds, PTL

-----------------------------------------------------------------------------
(* What is still to be done for item i of operation o: a job of it is on     *)
(* its way.                                                                 *)
Ahead(o, i) ==
  \/ \E n \in 1..Len(entering[o]) : entering[o][n].item = i
  \/ \E j \in Pool : j.op = o /\ j.item = i
  \/ \E w \in Workers : worker[w].pc \in Active /\ Op(w) = o /\ Item(w) = i

(* Operation o will not be complete.                                        *)
Failing(o) ==
  \/ group[o] # None /\ group[o].errors > 0
  \/ Lost(o)
  \/ \E w \in Workers : At(w, "report") /\ Op(w) = o /\ worker[w].errors > 0

(* A job is settled as what has become of its item.                         *)
OutcomeInv ==
  \A w \in Workers :
    /\ At(w, "copy") => Kind[Item(w)] # "mkdir"
    /\ At(w, "settle") => /\ worker[w].outcome \in {"ok", "error", "retry"}
                         /\ (worker[w].outcome = "ok" => Achieved(Op(w), Item(w)))

(* A submitted batch has its plan, whose items do not change any more.      *)
HasPlan == \A o \in Batches : status[o] # "new" => origin[o] # None

(* Every item of a running operation is done, or a job of it is on its way,  *)
(* or the operation will not be complete.                                   *)
Pursued ==
  \A o \in Ops : status[o] = "running" =>
    \A i \in ToSet(Wanted(o)) : Achieved(o, i) \/ Ahead(o, i) \/ Failing(o)

DoneInv == OutcomeInv /\ HasPlan /\ Pursued /\ CompleteIsDone

(* The item of a "mkdir" job is one of Folders.                             *)
LEMMA ItemIsFolder == ASSUME NEW i \in Items, Kind[i] = "mkdir" PROVE i \in Folders
<1>1. i \in Seq(STRING) /\ i # <<>>
  BY ItemsArePaths DEF Items
<1>2. Len(i) \in 1..Len(i) /\ SubSeq(i, 1, Len(i)) = i
  BY <1>1
<1>3. QED
  BY <1>2, TargetIsFolder

(* What is copied or made stays so: a folder is begun when nobody has, and   *)
(* ended when it is being made.                                             *)
LEMMA AchievedStays ==
  ASSUME MkdirInv, [Next]_vars, NEW o \in Ops, NEW i \in Items, Achieved(o, i)
  PROVE  Achieved(o, i)'
<1>1. performed \subseteq performed'
  BY DEF Next, vars, history, TreeChanges, StartPlan, EndPlan, Confirm, Submit, Put, Run, Take,
     Quit, Start, Execute, Own, Make, Follow, Settle, Arm, Refresh, Report, Fire, PutAgain,
     Shutdown
<1>2. UNCHANGED mkdirs \/ \E w \in Workers : Own(w) \/ Make(w)
  BY DEF Next, vars, TreeChanges, StartPlan, EndPlan, Confirm, Submit, Put, Run, Take,
     Quit, Start, Execute, Follow, Settle, Arm, Refresh, Report, Fire, PutAgain, Shutdown
<1>3. CASE Kind[i] = "mkdir" /\ \E w \in Workers : Own(w) \/ Make(w)
  <2>1. PICK w \in Workers : Own(w) \/ Make(w)
    BY <1>3
  <2>2. mkdirs[o][i] = "made" /\ i \in Folders
    BY <1>3, ItemIsFolder DEF Achieved
  <2>3. /\ Op(w) \in Ops /\ Target(w) \in Folders
        /\ mkdirs \in [Ops -> [Folders -> {"none", "doing", "made", "failed"}]]
    BY <2>1, ChainFolders DEF MkdirInv, ChainTyped, Own, Make, At, Folding
  <2>4. mkdirs[Op(w)][Target(w)] \in {"none", "doing"}
    BY <2>1 DEF MkdirInv, MakingMarked, Own, Make, MkdirState
  <2>5. PICK state : mkdirs' = [mkdirs EXCEPT ![Op(w)][Target(w)] = state]
    BY <2>1 DEF Own, Make
  <2>6. mkdirs'[o][i] = "made"
    BY <2>2, <2>3, <2>4, <2>5
  <2>7. QED
    BY <1>3, <2>6 DEF Achieved
<1>4. QED
  BY <1>1, <1>2, <1>3 DEF Achieved

(* A submitted batch has consumed a plan, which is not scanned any more.    *)
LEMMA WantedStays ==
  ASSUME PlanInv, HasPlan, [Next]_vars, NEW o \in Ops, status[o] # "new"
  PROVE  Wanted(o)' = Wanted(o) /\ (o \in Batches => origin'[o] = origin[o])
<1>1. CASE UNCHANGED <<planned, origin>>
  BY <1>1 DEF Wanted
<1>2. CASE \E p \in Plans : StartPlan(p)
  <2>1. PICK p \in Plans, found \in Finds :
          /\ plan[p] = "none" /\ UNCHANGED origin
          /\ planned' = [planned EXCEPT ![p] = [tree |-> tree, items |-> found]]
    BY <1>2 DEF StartPlan
  <2>2. o \notin Singles => o \in Batches /\ origin[o] \in Plans /\ origin[o] # p
    BY <2>1 DEF Ops, HasPlan, PlanInv
  <2>3. o \notin Singles => planned'[origin[o]] = planned[origin[o]]
    BY <2>1, <2>2
  <2>4. QED
    BY <2>1, <2>3 DEF Wanted
<1>3. CASE \E b \in Batches, p \in Plans : Confirm(b, p)
  <2>1. PICK b \in Batches, p \in Plans : /\ origin[b] = None /\ UNCHANGED planned
                                          /\ origin' = [origin EXCEPT ![b] = p]
    BY <1>3 DEF Confirm
  <2>2. o \in Batches => origin[o] # None
    BY DEF HasPlan
  <2>3. o \in Batches => origin'[o] = origin[o]
    BY <2>1, <2>2
  <2>4. QED
    BY <2>1, <2>3 DEF Wanted, Ops
<1>4. QED
  BY <1>1, <1>2, <1>3 DEF Next, vars, planning, TreeChanges, EndPlan, Submit, Put, Run, Take,
     Quit, Start, Execute, Own, Make, Follow, Settle, Arm, Refresh, Report, Fire, PutAgain,
     Shutdown

(* A batch keeps its plan.                                                  *)
LEMMA PlanStays == ASSUME PlanInv, HasPlan, CountInv, [Next]_vars PROVE HasPlan'
<1> SUFFICES ASSUME NEW o \in Batches, status'[o] # "new" PROVE origin'[o] # None
  BY DEF HasPlan
<1>1. CASE status[o] # "new"
  BY <1>1, WantedStays DEF HasPlan, Ops
<1>2. CASE status[o] = "new"
  <2>1. CASE \E p \in Ops : Submit(p)
    <3>1. PICK p \in Ops : Submit(p)
      BY <2>1
    <3>2. p = o
      BY <1>2, <3>1 DEF Submit, Ops, CountInv, GroupsTyped
    <3>3. QED
      BY <3>1, <3>2 DEF Submit, planning
  <2>2. CASE \E w \in Workers : Report(w)
    <3>1. PICK w \in Workers : Report(w)
      BY <2>2
    <3>2. status[Op(w)] = "running"
      BY <3>1 DEF CountInv, OneReporter, Report
    <3>3. QED
      BY <1>2, <3>1, <3>2 DEF Report, planning, Ops, CountInv, GroupsTyped
  <2>3. CASE UNCHANGED status
    BY <1>2, <2>3
  <2>4. QED
    BY <2>1, <2>2, <2>3 DEF Next, vars, TreeChanges, StartPlan, EndPlan, Confirm, Put, Run,
       Take, Quit, Start, Execute, Own, Make, Follow, Settle, Arm, Refresh, Fire, PutAgain,
       Shutdown
<1>3. QED
  BY <1>1, <1>2

-----------------------------------------------------------------------------
(* The step of a worker keeps every other worker's job, and its own as long  *)
(* as it holds it.                                                          *)
LEMMA AheadOfWorker ==
  ASSUME NEW w \in Workers, \A v \in Workers \ {w} : worker'[v] = worker[v],
         UNCHANGED entering, Pool \subseteq Pool', NEW o \in Ops, NEW i, Ahead(o, i)
  PROVE  Ahead(o, i)' \/ (worker[w].pc \in Active /\ Op(w) = o /\ Item(w) = i)
<1>1. CASE \E v \in Workers \ {w} : worker[v].pc \in Active /\ Op(v) = o /\ Item(v) = i
  BY <1>1 DEF Ahead, Op, Item
<1> HIDE DEF Active, Pool
<1>2. QED
  BY <1>1 DEF Ahead

(* A worker goes on with its job, or had none.                              *)
LEMMA AheadOfWork ==
  ASSUME NEW w \in Workers, \A v \in Workers \ {w} : worker'[v] = worker[v],
         UNCHANGED entering, UNCHANGED Pool,
         worker[w].pc \in Active => /\ worker'[w].pc \in Active
                                   /\ worker'[w].job.op = worker[w].job.op
                                   /\ worker'[w].job.item = worker[w].job.item,
         NEW o \in Ops, NEW i, Ahead(o, i)
  PROVE  Ahead(o, i)'
<1>1. CASE worker[w].pc \in Active /\ Op(w) = o /\ Item(w) = i
  <2>1. (worker[w].pc \in Active /\ Op(w) = o /\ Item(w) = i)'
    BY <1>1 DEF Op, Item
  <2> HIDE DEF Active
  <2>2. QED
    BY <2>1 DEF Ahead
<1>2. QED
  BY <1>1, AheadOfWorker

(* An operation goes on failing: its group keeps its errors and what it has  *)
(* lost, and so does the worker that has closed it.                         *)
LEMMA FailingStays ==
  ASSUME NEW o \in Ops, Failing(o), Lost(o) => Lost(o)',
         group[o] # None /\ group[o].errors > 0 =>
           \/ group'[o] # None /\ group'[o].errors > 0
           \/ \E v \in Workers : worker'[v].pc = "report" /\ worker'[v].job.op = o
                                   /\ worker'[v].errors > 0,
         \A v \in Workers : worker[v].pc = "report" /\ worker[v].job.op = o =>
           worker'[v].pc = "report" /\ worker'[v].job.op = o
             /\ worker'[v].errors = worker[v].errors
  PROVE  Failing(o)'
  BY DEF Failing, At, Op

(* No retry is lost or found when workers move that hold none.              *)
LEMMA LostStays ==
  ASSUME NEW o \in Ops, Lost(o), UNCHANGED timers,
         group[o] # None => group'[o] # None /\ group'[o].retries = group[o].retries,
         \A v \in Workers : worker'[v] = worker[v]
                           \/ (worker[v].pc # "arm" /\ worker'[v].pc # "arm")
  PROVE  Lost(o)'
<1>1. Held(o, {"arm"})' = Held(o, {"arm"}) /\ Ticking(o)' = Ticking(o)
  BY DEF Held, Ticking, Op
<1>2. QED
  BY <1>1 DEF Lost, Retrying

(* What becomes of an item that is pursued, and of an operation that fails.  *)
Tended(o) ==
  /\ \A i \in Items : Ahead(o, i) => (Achieved(o, i) \/ Ahead(o, i) \/ Failing(o))'
  /\ Failing(o) => Failing(o)'

(* A worker that works on, stops, begins, or reports another operation.     *)
LEMMA TendedWork ==
  ASSUME JobsTyped, NEW w \in Workers, \A v \in Workers \ {w} : worker'[v] = worker[v],
         UNCHANGED <<entering, queue, due, timers>>,
         worker[w].pc # "arm", worker'[w].pc # "arm",
         worker[w].pc \in Active => /\ worker'[w].pc \in Active
                                   /\ worker'[w].job.op = worker[w].job.op
                                   /\ worker'[w].job.item = worker[w].job.item,
         NEW o \in Ops,
         worker[w].pc = "report" /\ worker[w].job.op = o =>
           worker'[w].pc = "report" /\ worker'[w].job.op = o
             /\ worker'[w].errors = worker[w].errors,
         group[o] # None => /\ group'[o] # None /\ group'[o].retries = group[o].retries
                            /\ group'[o].errors = group[o].errors
  PROVE  Tended(o)
<1>1. Pool' = Pool
  BY DEF Pool
<1>2. \A i \in Items : Ahead(o, i) => Ahead(o, i)'
  BY <1>1, AheadOfWork
<1>3. Lost(o) => Lost(o)'
  BY LostStays
<1>4. Failing(o) => Failing(o)'
  BY <1>3, FailingStays
<1>5. QED
  BY <1>2, <1>4 DEF Tended

(* A worker takes a job from the queue.                                     *)
LEMMA TendedTake ==
  ASSUME JobsTyped, NEW w \in Workers, Take(w), NEW o \in Ops
  PROVE  Tended(o)
<1>1. PICK j \in queue : /\ queue' = queue \ {j}
                         /\ Moves(w, [pc |-> "got", job |-> j])
  BY DEF Take
<1>2. UNCHANGED <<due, timers, entering, group>> /\ worker[w].pc = "idle"
  BY DEF Take, At
<1>3. /\ worker'[w].pc = "got" /\ worker'[w].job = j
      /\ \A v \in Workers \ {w} : worker'[v] = worker[v]
  BY <1>1, OthersStay
<1>4. ASSUME NEW i \in Items, Ahead(o, i) PROVE Ahead(o, i)'
  <2>1. CASE j.op = o /\ j.item = i
    <3>1. worker'[w].pc \in Active /\ Op(w)' = o /\ Item(w)' = i
      BY <1>3, <2>1 DEF Active, Op, Item
    <3>2. QED
      BY <3>1 DEF Ahead, Active, Op, Item
  <2>2. CASE \E k \in Pool : k # j /\ k.op = o /\ k.item = i
    <3>1. PICK k \in Pool : k # j /\ k.op = o /\ k.item = i
      BY <2>2
    <3>2. k \in Pool'
      BY <1>1, <1>2, <3>1 DEF Pool
    <3>3. QED
      BY <3>1, <3>2 DEF Ahead
  <2>3. CASE \E n \in 1..Len(entering[o]) : entering[o][n].item = i
    BY <1>2, <2>3 DEF Ahead
  <2>4. CASE \E v \in Workers : worker[v].pc \in Active /\ Op(v) = o /\ Item(v) = i
    <3>1. PICK v \in Workers : worker[v].pc \in Active /\ Op(v) = o /\ Item(v) = i
      BY <2>4
    <3>2. v # w
      BY <1>2, <3>1 DEF Active, Working
    <3>3. (worker[v].pc \in Active /\ Op(v) = o /\ Item(v) = i)'
      BY <1>3, <3>1, <3>2 DEF Op, Item
    <3> HIDE DEF Active
    <3>4. QED
      BY <3>3 DEF Ahead
  <2>5. QED
    BY <1>4, <2>1, <2>2, <2>3, <2>4 DEF Ahead
<1>5. Lost(o) => Lost(o)'
  BY <1>2, <1>3, LostStays
<1>6. Failing(o) => Failing(o)'
  BY <1>2, <1>3, <1>5, FailingStays
<1>7. QED
  BY <1>4, <1>6 DEF Tended

(* A throttled job is with its timer, or lost in the shutdown.              *)
LEMMA TendedArm ==
  ASSUME JobsTyped, PlaceInv, CountInv, NEW w \in Workers, Arm(w), NEW o \in Ops
  PROVE  Tended(o)
<1>1. /\ worker[w].pc = "arm" /\ UNCHANGED <<queue, due, entering, group>>
      /\ timers' = IF shutdown = "all" THEN timers ELSE timers \cup {worker[w].job}
  BY DEF Arm, At
<1>2. \A v \in Workers \ {w} : worker'[v] = worker[v]
  BY OthersStay DEF Arm
<1>3. Lost(o) \/ (Op(w) = o /\ shutdown = "all") => Lost(o)'
  BY BooksOfArm
<1>4. ASSUME NEW i \in Items, Ahead(o, i) PROVE (Ahead(o, i) \/ Failing(o))'
  <2>1. Pool \subseteq Pool'
    BY <1>1 DEF Pool
  <2>2. CASE Op(w) = o /\ Item(w) = i
    <3>1. CASE shutdown = "all"
      BY <1>3, <2>2, <3>1 DEF Failing
    <3>2. CASE shutdown # "all"
      <4>1. worker[w].job \in Pool'
        BY <1>1, <3>2 DEF Pool
      <4>2. QED
        BY <2>2, <4>1 DEF Ahead, Op, Item
    <3>3. QED
      BY <3>1, <3>2
  <2>3. CASE ~ (Op(w) = o /\ Item(w) = i)
    BY <1>1, <1>2, <1>4, <2>1, <2>3, AheadOfWorker
  <2>4. QED
    BY <2>2, <2>3
<1>5. Failing(o) => Failing(o)'
  BY <1>1, <1>2, <1>3, FailingStays
<1>6. QED
  BY <1>4, <1>5 DEF Tended

(* A settled job has done its item, counts as an error, or is retried.      *)
LEMMA TendedSettle ==
  ASSUME MkdirInv, CountInv, OutcomeInv, NEW w \in Workers, Settle(w), NEW o \in Ops,
         \A v \in Workers : At(v, "report") => Op(v) # Op(w),
         JobsTyped', Lost(o) => Lost(o)'
  PROVE  Tended(o)
<1>1. /\ JobsTyped /\ worker[w].pc = "settle" /\ Op(w) \in Ops /\ Item(w) \in Items
      /\ group[Op(w)] # None /\ group[Op(w)] \in Group
      /\ UNCHANGED <<entering, queue, due, timers, mkdirs, performed>>
  BY JobMeansOpen DEF Settle, At, Active, Working, CountInv, GroupsTyped, JobsTyped, Job, Item,
     MkdirInv, pool, history
<1>o. PICK outcome : outcome = worker[w].outcome
  OBVIOUS
<1>2. PICK p \in Ops, g \in Group, x \in Items :
        /\ p = Op(w) /\ g = group[p] /\ x = Item(w) /\ outcome = worker[w].outcome
  BY <1>1, <1>o
<1>3. g.running # 0
  <2>1. Balanced(p, g)
    BY <1>1, <1>2 DEF CountInv, Kept
  <2>2. w \in Held(p, Working)
    BY <1>1, <1>2 DEF Held, Working
  <2>3. Held(p, Working) \in SUBSET Workers
    BY DEF Held
  <2>4. IsFiniteSet(Held(p, Working))
    BY <2>3, FiniteWorkers, FS_Subset
  <2>5. Cardinality(Held(p, Working)) # 0
    BY <2>2, <2>4, FS_EmptySet
  <2>6. QED
    BY <2>1, <2>5 DEF Balanced
<1>s. PICK h : h = Settled(g, x, outcome)
  OBVIOUS
<1>4. /\ h \in Group
      /\ h.errors = IF outcome = "error" THEN g.errors + 1 ELSE g.errors
      /\ IsOver(h) => outcome # "retry"
  BY <1>3, <1>s, SettledGroup
<1>5. /\ \A v \in Workers \ {w} : worker'[v] = worker[v]
      /\ \A q \in Ops \ {p} : group'[q] = group[q]
      /\ group'[p] = IF IsOver(h) THEN None ELSE h
      /\ IsOver(h) => /\ worker'[w].pc = "report" /\ worker'[w].job = worker[w].job
                      /\ worker'[w].errors = h.errors
      /\ ~ IsOver(h) /\ outcome = "retry" =>
           worker'[w].pc = "arm" /\ worker'[w].job = worker[w].job
  BY <1>1, <1>2, <1>s, <1>4 DEF Settle, Moves, JobsTyped, CountInv, GroupsTyped
<1>6. h.errors > 0 => Failing(p)'
  <2>1. CASE IsOver(h)
    BY <1>2, <1>5, <2>1 DEF Failing, At, Op
  <2>2. CASE ~ IsOver(h)
    BY <1>4, <1>5, <2>2, NoGroup DEF Failing
  <2>3. QED
    BY <2>1, <2>2
<1>7. g.errors \in Nat /\ (outcome = "error" \/ g.errors > 0 => h.errors > 0)
  BY <1>4 DEF Group
<1>8. Pool' = Pool
  BY <1>1 DEF Pool
<1>9. ASSUME NEW i \in Items, Ahead(o, i) PROVE (Achieved(o, i) \/ Ahead(o, i) \/ Failing(o))'
  <2>1. CASE o = p /\ i = x
    <3>1. CASE outcome = "ok"
      <4>1. Achieved(o, i)
        BY <1>1, <1>2, <2>1, <3>1 DEF OutcomeInv, At
      <4>2. QED
        BY <1>1, <4>1 DEF Achieved
    <3>2. CASE outcome = "error"
      BY <1>6, <1>7, <2>1, <3>2
    <3>3. CASE outcome = "retry"
      <4>1. worker'[w].pc \in Active /\ worker'[w].job.op = o /\ worker'[w].job.item = i
        BY <1>2, <1>4, <1>5, <2>1, <3>3 DEF Active, Op, Item
      <4> HIDE DEF Active
      <4>2. QED
        BY <4>1 DEF Ahead, Op, Item
    <3>4. QED
      BY <1>1, <1>2, <3>1, <3>2, <3>3 DEF OutcomeInv, At
  <2>2. CASE ~ (o = p /\ i = x)
    <3> HIDE DEF Active, Pool
    <3>1. QED
      BY <1>1, <1>2, <1>5, <1>8, <1>9, <2>2, AheadOfWorker
  <2>3. QED
    BY <2>1, <2>2
<1>10. ASSUME Failing(o) PROVE Failing(o)'
  <2>1. CASE o # p
    <3>1. \A v \in Workers : worker[v].pc = "report" => worker'[v] = worker[v]
      BY <1>1, <1>5
    <3>2. QED
      BY <1>5, <1>10, <2>1, <3>1, FailingStays
  <2>2. CASE o = p
    <3>1. ~ \E v \in Workers : At(v, "report") /\ Op(v) = o
      BY <1>2, <2>2
    <3>2. CASE Lost(o)
      BY <3>2 DEF Failing
    <3>3. CASE g.errors > 0
      BY <1>6, <1>7, <2>2, <3>3
    <3>4. QED
      BY <1>2, <1>10, <2>2, <3>1, <3>2, <3>3 DEF Failing
  <2>3. QED
    BY <2>1, <2>2
<1>11. QED
  BY <1>9, <1>10 DEF Tended

(* Jobs move between the queue and the timers, and no worker moves.         *)
LEMMA TendedAside ==
  ASSUME JobsTyped, UNCHANGED worker, NEW o \in Ops, Lost(o) => Lost(o)',
         group[o] # None => group'[o] # None /\ group'[o].errors = group[o].errors,
         \A i \in Items : Ahead(o, i) => (Ahead(o, i) \/ Lost(o))'
  PROVE  Tended(o)
<1>1. Failing(o) => Failing(o)'
  BY FailingStays
<1>2. Lost(o)' => Failing(o)'
  BY DEF Failing
<1>3. QED
  BY <1>1, <1>2 DEF Tended

(* submit puts a job into the queue.                                        *)
LEMMA TendedPut ==
  ASSUME JobsTyped, NEW p \in Ops, PlaceInv, Put(p), NEW o \in Ops
  PROVE  Tended(o)
<1>1. /\ entering[p] # <<>> /\ queue' = queue \cup {Head(entering[p])}
      /\ entering' = [entering EXCEPT ![p] = Tail(entering[p])]
      /\ UNCHANGED <<worker, due, timers, group>>
  BY DEF Put
<1>2. entering[p] \in Seq(Job) /\ entering \in [Ops -> Seq(Job)]
  BY DEF JobsTyped
<1>3. Pool \subseteq Pool' /\ Head(entering[p]) \in Pool'
  BY <1>1 DEF Pool
<1>4. ASSUME NEW i \in Items, Ahead(o, i) PROVE Ahead(o, i)'
  <2>1. CASE \E n \in 1..Len(entering[o]) : entering[o][n].item = i
    <3>1. CASE o # p
      <4>1. entering'[o] = entering[o]
        BY <1>1, <1>2, <3>1
      <4>2. QED
        BY <2>1, <4>1 DEF Ahead
    <3>2. CASE o = p
      <4>1. PICK n \in 1..Len(entering[p]) : entering[p][n].item = i
        BY <2>1, <3>2
      <4>2. CASE n = 1
        <5>1. Head(entering[p]).item = i /\ Head(entering[p]).op = p
          BY <1>1, <1>2, <4>1, <4>2 DEF PlaceInv, Apart
        <5>2. QED
          BY <1>3, <3>2, <5>1 DEF Ahead
      <4>3. CASE n # 1
        <5>1. n - 1 \in 1..Len(entering'[p]) /\ entering'[p][n - 1] = entering[p][n]
          BY <1>1, <1>2, <4>1, <4>3
        <5>2. QED
          BY <3>2, <4>1, <5>1 DEF Ahead
      <4>4. QED
        BY <4>2, <4>3
    <3>3. QED
      BY <3>1, <3>2
  <2>2. CASE \E j \in Pool : j.op = o /\ j.item = i
    BY <1>3, <2>2 DEF Ahead
  <2>3. CASE \E w \in Workers : worker[w].pc \in Active /\ Op(w) = o /\ Item(w) = i
    <3> HIDE DEF Active
    <3>1. QED
      BY <1>1, <2>3 DEF Ahead, Op, Item
  <2>4. QED
    BY <1>4, <2>1, <2>2, <2>3 DEF Ahead
<1>5. Lost(o) => Lost(o)'
  BY <1>1, LostStays
<1>6. QED
  BY <1>1, <1>4, <1>5, TendedAside

(* A timer fires, its job is put again, or the shutdown cancels it.         *)
LEMMA TendedTimers ==
  ASSUME JobsTyped, PlaceInv, CountInv, NEW o \in Ops,
         (\E j \in timers : Fire(j)) \/ (\E j \in due : PutAgain(j)) \/ Shutdown
  PROVE  Tended(o)
<1>1. UNCHANGED <<worker, entering>>
  BY DEF Fire, PutAgain, Shutdown
<1>2. ASSUME NEW i \in Items, Ahead(o, i), Pool \subseteq Pool' PROVE Ahead(o, i)'
  <2> HIDE DEF Pool, Active
  <2>1. QED
    BY <1>1, <1>2 DEF Ahead, Op, Item
<1>3. CASE \E j \in timers : Fire(j)
  <2>1. PICK j \in timers : Fire(j)
    BY <1>3
  <2>2. j.op \in Ops /\ group[j.op] # None /\ group[j.op] \in Group
    BY JobMeansOpen DEF Pool, CountInv, GroupsTyped
  <2>3. /\ UNCHANGED queue /\ timers' = timers \ {j} /\ due' = due \cup {j}
        /\ group' = [group EXCEPT ![j.op].retries = @ - 1]
    BY <2>1, <2>2 DEF Fire
  <2>4. Pool \subseteq Pool'
    BY <2>3 DEF Pool
  <2>5. group[o] # None => group'[o] # None /\ group'[o].errors = group[o].errors
    <3>1. group'[o] = None <=> group[o] = None
      BY <2>1, BooksOfFire
    <3>2. group[o] # None => group'[o].errors = group[o].errors
      BY <2>2, <2>3 DEF Group, CountInv, GroupsTyped
    <3>3. QED
      BY <3>1, <3>2
  <2>6. QED
    BY <1>1, <1>2, <2>1, <2>4, <2>5, BooksOfFire, TendedAside
<1>4. CASE \E j \in due : PutAgain(j)
  <2>1. UNCHANGED <<group, timers>> /\ Pool \subseteq Pool'
    BY <1>4 DEF PutAgain, Pool
  <2>2. Lost(o) => Lost(o)'
    BY <1>1, <2>1, LostStays
  <2>3. QED
    BY <1>1, <1>2, <2>1, <2>2, TendedAside
<1>5. CASE Shutdown
  <2>1. UNCHANGED <<group, queue, due>>
    BY <1>5 DEF Shutdown
  <2>2. Lost(o) \/ Ticking(o)' # Ticking(o) => Lost(o)'
    BY <1>5, BooksOfShutdown
  <2>3. ASSUME NEW i \in Items, Ahead(o, i), Ticking(o)' = Ticking(o) PROVE Ahead(o, i)'
    <3>1. \A j \in Pool : j.op = o => j \in Pool'
      BY <2>1, <2>3 DEF Pool, Ticking
    <3> HIDE DEF Pool, Active
    <3>2. QED
      BY <1>1, <2>3, <3>1 DEF Ahead, Op, Item
  <2>4. QED
    BY <1>1, <2>1, <2>2, <2>3, TendedAside
<1>6. QED
  BY <1>3, <1>4, <1>5

(* Nothing that matters moves.                                              *)
LEMMA TendedStill ==
  ASSUME JobsTyped, UNCHANGED <<worker, queue, due, timers>>, NEW o \in Ops,
         UNCHANGED entering[o], UNCHANGED group[o]
  PROVE  Tended(o)
<1>1. Pool' = Pool
  BY DEF Pool
<1>2. ASSUME NEW i \in Items, Ahead(o, i) PROVE Ahead(o, i)'
  <2> HIDE DEF Pool, Active
  <2>1. QED
    BY <1>1, <1>2 DEF Ahead, Op, Item
<1>3. Lost(o) => Lost(o)'
  BY LostStays
<1>4. QED
  BY <1>2, <1>3, TendedAside

(* Every step tends an operation that is running before and after it.       *)
LEMMA NextTended ==
  ASSUME MkdirInv, MkdirInv', PlaceInv, CountInv, OutcomeInv, [Next]_vars,
         NEW o \in Ops, status[o] = "running", status'[o] = "running"
  PROVE  Tended(o)
<1>1. JobsTyped /\ JobsTyped' /\ OneReporter
  BY DEF MkdirInv, CountInv
<1>2. CASE \E w \in Workers : Run(w)
  <2>1. PICK w \in Workers : Run(w)
    BY <1>2
  <2>2. CASE Take(w) \/ Arm(w)
    BY <1>1, <2>2, TendedTake, TendedArm
  <2>3. CASE Start(w)
    <3>1. /\ worker[w].pc = "got" /\ Op(w) \in Ops /\ group[Op(w)] # None
          /\ group[Op(w)] \in Group /\ UNCHANGED <<entering, queue, due, timers>>
      BY <1>1, <2>3, JobMeansOpen DEF Start, At, Active, CountInv, GroupsTyped, pool
    <3>2. Changes(w, {"got"}, Working)
      BY <1>1, <2>3, <3>1, Strides
    <3>3. group' = [group EXCEPT ![Op(w)].running = @ + 1]
      BY <2>3, <3>1 DEF Start
    <3>4. group[o] # None => group'[o] # None
      BY <1>1, <2>3, BooksOfStart
    <3>5. group[o] # None => /\ group'[o].retries = group[o].retries
                             /\ group'[o].errors = group[o].errors
      BY <3>1, <3>3 DEF Group, CountInv, GroupsTyped
    <3>6. /\ \A v \in Workers \ {w} : worker'[v] = worker[v]
          /\ worker'[w].job = worker[w].job
          /\ worker'[w].pc \in Active \ {"arm"}
      BY <1>1, <3>2 DEF Changes, JobsTyped, Active, Working
    <3>7. QED
      BY <1>1, <3>1, <3>4, <3>5, <3>6, TendedWork
  <2>4. CASE Settle(w)
    <3>1. Lost(o) => Lost(o)'
      BY <1>1, <2>4, BooksOfSettle
    <3>2. group[Op(w)] # None
      BY <1>1, <2>4, JobMeansOpen DEF Settle, At, Active, Working
    <3>3. \A v \in Workers : At(v, "report") => Op(v) # Op(w)
      BY <1>1, <3>2 DEF OneReporter
    <3>4. QED
      BY <1>1, <2>4, <3>1, <3>3, TendedSettle
  <2>5. CASE Execute(w) \/ Own(w) \/ Make(w) \/ Follow(w) \/ Quit(w) \/ Refresh(w) \/ Report(w)
    <3>1. UNCHANGED <<queue, due, timers, entering, group>>
      BY <2>5 DEF Execute, Own, Make, Follow, Quit, Refresh, Report, pool
    <3>2. /\ \A v \in Workers \ {w} : worker'[v] = worker[v]
          /\ worker[w].pc # "arm" /\ worker'[w].pc # "arm"
          /\ worker[w].pc \in Active => /\ worker'[w].pc \in Active
                                        /\ worker'[w].job.op = worker[w].job.op
                                        /\ worker'[w].job.item = worker[w].job.item
      <4>1. CASE Execute(w) /\ ~ UNCHANGED order
        <5>1. /\ worker[w].pc = "copy" /\ worker[w].job \in Job
              /\ Moves(w, [pc |-> "settle", job |-> Again(worker[w].job), outcome |-> "retry"])
          BY <1>1, <4>1 DEF Execute, At, JobsTyped
        <5>2. /\ Again(worker[w].job).op = worker[w].job.op
              /\ Again(worker[w].job).item = worker[w].job.item
          BY <5>1 DEF Again, Job
        <5>3. QED
          BY <1>1, <5>1, <5>2 DEF Moves, JobsTyped, Active, Working
      <4>2. CASE Execute(w) => UNCHANGED order
        BY <1>1, <2>5, <4>2, Strides DEF Changes, JobsTyped, Active, Working
      <4>3. QED
        BY <4>1, <4>2
    <3>3. worker[w].pc = "report" /\ worker[w].job.op = o =>
            worker'[w].pc = "report" /\ worker'[w].job.op = o
              /\ worker'[w].errors = worker[w].errors
      <4>1. CASE Refresh(w)
        <5>1. PICK d \in worker[w].parents : Moves(w, [worker[w] EXCEPT !.parents = @ \ {d}])
          BY <4>1 DEF Refresh
        <5>2. worker'[w] = [worker[w] EXCEPT !.parents = @ \ {d}]
          BY <1>1, <5>1, OthersStay
        <5>3. QED
          BY <5>2
      <4>2. CASE Report(w)
        <5>1. Op(w) = o => status'[o] # "running"
          BY <4>2 DEF Report, CountInv, GroupsTyped
        <5>2. QED
          BY <5>1 DEF Op
      <4>3. CASE ~ Refresh(w) /\ ~ Report(w)
        BY <2>5, <4>3 DEF Execute, Own, Make, Follow, Quit, At
      <4>4. QED
        BY <4>1, <4>2, <4>3
    <3>4. QED
      BY <1>1, <3>1, <3>2, <3>3, TendedWork
  <2>6. QED
    BY <2>1, <2>2, <2>3, <2>4, <2>5 DEF Run
<1>3. CASE \E p \in Ops : Submit(p)
  <2>1. PICK p \in Ops : Submit(p)
    BY <1>3
  <2>2. UNCHANGED <<worker, queue, due, timers>> /\ p # o
    BY <2>1 DEF Submit, pool
  <2>3. UNCHANGED entering[o]
    <3> DEFINE jobs == [n \in 1..Len(Wanted(p)) |->
                          [op |-> p, item |-> Wanted(p)[n], attempt |-> 1, order |-> order + n]]
    <3>1. entering' = entering \/ entering' = [entering EXCEPT ![p] = jobs]
      BY <2>1 DEF Submit
    <3> HIDE DEF jobs
    <3>2. QED
      BY <1>1, <2>2, <3>1 DEF JobsTyped
  <2>4. UNCHANGED group[o]
    BY <1>1, <2>1, <2>2, BooksOfSubmit
  <2>5. QED
    BY <1>1, <2>2, <2>3, <2>4, TendedStill
<1>4. CASE \E p \in Ops : Put(p)
  BY <1>1, <1>4, TendedPut
<1>5. CASE (\E j \in timers : Fire(j)) \/ (\E j \in due : PutAgain(j)) \/ Shutdown
  BY <1>1, <1>5, TendedTimers
<1>6. CASE UNCHANGED <<worker, entering, queue, due, timers, group>>
  BY <1>1, <1>6, TendedStill
<1>7. CASE \/ TreeChanges
           \/ \E p \in Plans : StartPlan(p) \/ EndPlan(p)
           \/ \E b \in Batches, p \in Plans : Confirm(b, p)
  <2>1. UNCHANGED <<worker, entering, queue, due, timers, group>>
    BY <1>7 DEF TreeChanges, StartPlan, EndPlan, Confirm, pool
  <2>2. QED
    BY <1>6, <2>1
<1>8. QED
  BY <1>2, <1>3, <1>4, <1>5, <1>6, <1>7 DEF Next, vars, pool

(* A worker that settles with success has done its item.                    *)
LEMMA NextOutcome ==
  ASSUME MkdirInv, OutcomeInv, [Next]_vars
  PROVE  OutcomeInv'
<1>1. JobsTyped
  BY DEF MkdirInv
<1>2. ASSUME NEW v \in Workers, worker'[v] = worker[v]
      PROVE  /\ At(v, "copy")' => Kind[Item(v)'] # "mkdir"
             /\ At(v, "settle")' =>
                  /\ worker'[v].outcome \in {"ok", "error", "retry"}
                  /\ (worker'[v].outcome = "ok" => Achieved(Op(v), Item(v))')
  <2>1. worker[v].pc = "settle" => Op(v) \in Ops /\ Item(v) \in Items
    BY <1>1 DEF JobsTyped, Job, Op, Item
  <2>2. worker[v].pc = "settle" /\ worker[v].outcome = "ok" => Achieved(Op(v), Item(v))'
    <3> SUFFICES ASSUME worker[v].pc = "settle", worker[v].outcome = "ok"
                 PROVE  Achieved(Op(v), Item(v))'
      OBVIOUS
    <3>1. PICK o \in Ops, i \in Items : o = Op(v) /\ i = Item(v)
      BY <2>1
    <3>2. Achieved(o, i)
      BY <3>1 DEF OutcomeInv, At
    <3>3. Achieved(o, i)'
      BY <3>2, AchievedStays
    <3>4. QED
      BY <1>2, <3>1, <3>3 DEF Op, Item, Achieved
  <2>3. QED
    BY <1>2, <2>2 DEF OutcomeInv, At, Op, Item
<1>3. CASE UNCHANGED worker
  BY <1>2, <1>3 DEF OutcomeInv
<1>4. CASE \E w \in Workers : Run(w)
  <2>1. PICK w \in Workers : Run(w)
    BY <1>4
  <2>2. \A v \in Workers \ {w} : worker'[v] = worker[v]
    BY <1>1, <2>1 DEF Run, Take, Quit, Start, Execute, Own, Make, Follow, Settle, Arm, Refresh,
       Report, Moves, JobsTyped
  <2>3. SUFFICES /\ worker'[w].pc = "copy" => Kind[worker'[w].job.item] # "mkdir"
                 /\ worker'[w].pc = "settle" =>
                      /\ worker'[w].outcome \in {"ok", "error", "retry"}
                      /\ (worker'[w].outcome = "ok" => Achieved(Op(w), Item(w))')
    BY <1>2, <2>2 DEF OutcomeInv, At, Item
  <2>4. CASE Start(w)
    BY <1>1, <2>4 DEF Start, Moves, JobsTyped, Settling, SourceFound, Idle, Item
  <2>5. CASE Execute(w)
    <3>1. CASE performed' = performed \cup {<<Op(w), Item(w)>>} /\ Moves(w, Settling(w, "ok"))
      <4>1. worker'[w] = Settling(w, "ok") /\ Kind[Item(w)] # "mkdir"
        BY <1>1, <2>5, <3>1, OthersStay DEF Execute, OutcomeInv
      <4>2. /\ worker'[w].pc = "settle" /\ worker'[w].outcome = "ok"
            /\ worker'[w].job = worker[w].job
        BY <4>1 DEF Settling
      <4>3. QED
        BY <3>1, <4>1, <4>2 DEF Achieved, Op, Item
    <3>2. CASE \E rec : Moves(w, rec) /\ rec.pc = "settle" /\ rec.outcome \in {"error", "retry"}
      BY <1>1, <3>2 DEF Moves, JobsTyped
    <3>3. CASE Moves(w, Settling(w, "error"))
      BY <1>1, <3>3 DEF Moves, JobsTyped, Settling
    <3>4. CASE Moves(w, [pc |-> "settle", job |-> Again(worker[w].job), outcome |-> "retry"])
      BY <1>1, <3>4 DEF Moves, JobsTyped
    <3>5. QED
      BY <2>5, <3>1, <3>3, <3>4 DEF Execute
  <2>6. CASE Make(w) \/ Follow(w)
    <3>1. /\ worker[w].pc \in Folding /\ Kind[Item(w)] = "mkdir" /\ Item(w) \in Seq(STRING)
          /\ Op(w) \in Ops /\ Target(w) \in Folders
          /\ mkdirs \in [Ops -> [Folders -> {"none", "doing", "made", "failed"}]]
      BY <2>6, ChainFolders, ItemsArePaths
         DEF Make, Follow, At, MkdirInv, ChainTyped, Folding, Items
    <3>2. CASE Moves(w, Settling(w, "error"))
      BY <1>1, <3>2 DEF Moves, JobsTyped, Settling
    <3>3. CASE Moves(w, Onward(w)) /\ mkdirs'[Op(w)][Target(w)] = "made"
      <4>1. worker'[w] = Onward(w)
        BY <1>1, <3>3, OthersStay
      <4>2. CASE worker[w].depth = Len(Item(w))
        <5>1. Target(w) = Item(w)
          BY <3>1, <4>2 DEF Target
        <5>2. /\ worker'[w].outcome = "ok" /\ worker'[w].pc = "settle"
              /\ worker'[w].job = worker[w].job
          BY <4>1, <4>2 DEF Onward, Settling
        <5>3. QED
          BY <3>1, <3>3, <5>1, <5>2 DEF Achieved, Op, Item
      <4>3. CASE worker[w].depth # Len(Item(w))
        BY <4>1, <4>3 DEF Onward
      <4>4. QED
        BY <4>2, <4>3
    <3>4. QED
      <4>1. CASE Follow(w)
        BY <3>2, <3>3, <4>1 DEF Follow, MkdirState
      <4>2. CASE Make(w) /\ mkdirs' = [mkdirs EXCEPT ![Op(w)][Target(w)] = "made"]
        <5>1. mkdirs'[Op(w)][Target(w)] = "made"
          BY <3>1, <4>2
        <5>2. QED
          BY <3>2, <3>3, <4>2, <5>1 DEF Make
      <4>3. QED
        BY <2>6, <3>2, <4>1, <4>2 DEF Make
  <2>7. CASE Take(w) \/ Quit(w) \/ Own(w) \/ Settle(w) \/ Arm(w) \/ Refresh(w) \/ Report(w)
    <3>1. worker'[w].pc \in {"got", "stopped", "make", "idle", "arm", "report"}
      BY <1>1, <2>7, Strides DEF Take, Arm, Changes, Moves, JobsTyped, Idle
    <3>2. QED
      BY <3>1
  <2>8. QED
    BY <2>1, <2>4, <2>5, <2>6, <2>7 DEF Run
<1>5. QED
  BY <1>3, <1>4 DEF Next, vars, TreeChanges, StartPlan, EndPlan, Confirm, Submit, Put, Fire,
     PutAgain, Shutdown

(* A new operation has a job on its way for every item it wants.            *)
LEMMA PursuedAtFirst ==
  ASSUME MkdirInv, CountInv, HasPlan, NEW o \in Ops, Submit(o), status'[o] = "running"
  PROVE  \A i \in ToSet(Wanted(o)) : Ahead(o, i)'
<1>1. status[o] # "running" /\ Wanted(o) \in Seq(Items)
  BY WantedItems DEF Submit, MkdirInv
<1>2. entering' = [entering EXCEPT ![o] =
                     [n \in 1..Len(Wanted(o)) |->
                        [op |-> o, item |-> Wanted(o)[n], attempt |-> 1, order |-> order + n]]]
  BY <1>1 DEF Submit, CountInv, GroupsTyped
<1>3. entering'[o] = [n \in 1..Len(Wanted(o)) |->
                        [op |-> o, item |-> Wanted(o)[n], attempt |-> 1, order |-> order + n]]
  BY <1>2 DEF MkdirInv, JobsTyped
<1>4. Len(entering'[o]) = Len(Wanted(o)) /\ Len(Wanted(o)) \in Nat
  BY <1>1, <1>3
<1>5. ASSUME NEW i \in ToSet(Wanted(o))
      PROVE  \E n \in 1..Len(entering'[o]) : entering'[o][n].item = i
  <2>1. PICK n \in 1..Len(Wanted(o)) : Wanted(o)[n] = i
    BY <1>1 DEF ToSet
  <2>2. entering'[o][n].item = i
    BY <1>3, <2>1
  <2>3. QED
    BY <1>4, <2>1, <2>2
<1>6. QED
  BY <1>5 DEF Ahead

(* Every step keeps the items of running operations pursued.                *)
LEMMA NextPursued ==
  ASSUME MkdirInv, MkdirInv', PlaceInv, CountInv, PlanInv, OutcomeInv, HasPlan, Pursued,
         [Next]_vars
  PROVE  Pursued'
<1> SUFFICES ASSUME NEW o \in Ops, status'[o] = "running", NEW i \in ToSet(Wanted(o)')
             PROVE  (Achieved(o, i) \/ Ahead(o, i) \/ Failing(o))'
  BY DEF Pursued
<1>1. CASE status[o] = "running"
  <2>1. Wanted(o)' = Wanted(o)
    BY <1>1, WantedStays
  <2>2. Wanted(o) \in Seq(Items)
    BY <1>1, WantedItems DEF MkdirInv, HasPlan
  <2>3. i \in Items
    BY <2>1, <2>2 DEF ToSet
  <2>4. Achieved(o, i) \/ Ahead(o, i) \/ Failing(o)
    BY <1>1, <2>1 DEF Pursued
  <2>5. Tended(o)
    BY <1>1, NextTended
  <2>6. Achieved(o, i) => Achieved(o, i)'
    BY <2>3, AchievedStays
  <2>7. QED
    BY <2>3, <2>4, <2>5, <2>6 DEF Tended
<1>2. CASE status[o] # "running"
  <2>1. CASE \E p \in Ops : Submit(p)
    <3>1. PICK p \in Ops : Submit(p)
      BY <2>1
    <3>2. p = o
      BY <1>2, <3>1 DEF Submit, CountInv, GroupsTyped
    <3>3. Wanted(o)' = Wanted(o)
      BY <3>1 DEF Submit, planning, Wanted
    <3>4. QED
      BY <3>1, <3>2, <3>3, PursuedAtFirst
  <2>2. CASE \E w \in Workers : Report(w)
    BY <1>2, <2>2 DEF Report, CountInv, GroupsTyped
  <2>3. CASE UNCHANGED status
    BY <1>2, <2>3
  <2>4. QED
    BY <2>1, <2>2, <2>3 DEF Next, vars, TreeChanges, StartPlan, EndPlan, Confirm, Put, Run,
       Take, Quit, Start, Execute, Own, Make, Follow, Settle, Arm, Refresh, Fire, PutAgain,
       Shutdown
<1>3. QED
  BY <1>1, <1>2

(* The worker that reports an operation without errors finds nothing on its  *)
(* way, and nothing failed: everything is done.                             *)
LEMMA ReportedIsDone ==
  ASSUME JobsTyped, CountInv, Pursued, NEW w \in Workers, Report(w), worker[w].errors = 0,
         NEW i \in ToSet(Wanted(Op(w)))
  PROVE  Achieved(Op(w), i)
<1>1. Op(w) \in Ops /\ group[Op(w)] = None /\ status[Op(w)] = "running" /\ At(w, "report")
  BY DEF Report, CountInv, OneReporter, At, JobsTyped, Job, Op
<1>2. PICK o \in Ops : o = Op(w)
  BY <1>1
<1>3. NoJob(o)
  BY <1>1, <1>2 DEF CountInv, Kept
<1>4. ~ Ahead(o, i)
  <2>1. \A j \in Pool : j.op # o
    BY <1>3 DEF NoJob, Queued, Ticking, Pool
  <2>2. \A v \in Workers : ~ (worker[v].pc \in Active /\ Op(v) = o)
    BY <1>3 DEF NoJob, Held, Active
  <2>3. entering[o] = <<>>
    BY <1>3 DEF NoJob
  <2> HIDE DEF Pool, Active
  <2>4. QED
    BY <2>1, <2>2, <2>3 DEF Ahead
<1>5. ~ Failing(o)
  <2>1. \A v \in Workers : At(v, "report") /\ Op(v) = o => v = w
    BY <1>1, <1>2 DEF CountInv, OneReporter
  <2>2. QED
    BY <1>1, <1>2, <2>1 DEF Failing, Lost
<1>6. QED
  BY <1>1, <1>2, <1>4, <1>5 DEF Pursued

(* Every step keeps what a complete operation says.                         *)
LEMMA NextComplete ==
  ASSUME MkdirInv, CountInv, PlanInv, HasPlan, Pursued, CompleteIsDone, [Next]_vars
  PROVE  CompleteIsDone'
<1> SUFFICES ASSUME NEW o \in Ops, status'[o] = "complete", NEW i \in ToSet(Wanted(o)')
             PROVE  Achieved(o, i)'
  BY DEF CompleteIsDone
<1>1. CASE status[o] # "new" /\ (i \in ToSet(Wanted(o)) => Achieved(o, i))
  <2>1. Wanted(o)' = Wanted(o) /\ Wanted(o) \in Seq(Items)
    BY <1>1, WantedStays, WantedItems DEF MkdirInv, HasPlan
  <2>2. i \in Items /\ Achieved(o, i)
    BY <1>1, <2>1 DEF ToSet
  <2>3. QED
    BY <2>2, AchievedStays
<1>2. CASE status[o] = "complete"
  BY <1>1, <1>2 DEF CompleteIsDone
<1>3. CASE status[o] # "complete"
  <2>1. CASE \E p \in Ops : Submit(p)
    <3>1. PICK p \in Ops : Submit(p)
      BY <2>1
    <3>2. p = o /\ Wanted(o) = <<>>
      BY <1>3, <3>1 DEF Submit, CountInv, GroupsTyped
    <3>3. Wanted(o)' = <<>>
      BY <3>1, <3>2 DEF Submit, planning, Wanted
    <3>4. QED
      BY <3>3 DEF ToSet
  <2>2. CASE \E w \in Workers : Report(w)
    <3>1. PICK w \in Workers : Report(w)
      BY <2>2
    <3>2. Op(w) = o /\ worker[w].errors = 0
      BY <1>3, <3>1 DEF Report, CountInv, GroupsTyped
    <3>3. status[o] = "running"
      BY <3>1, <3>2 DEF Report, CountInv, OneReporter
    <3>4. i \in ToSet(Wanted(o)) => Achieved(o, i)
      BY <3>1, <3>2, ReportedIsDone DEF MkdirInv
    <3>5. QED
      BY <1>1, <3>3, <3>4
  <2>3. CASE UNCHANGED status
    BY <1>3, <2>3
  <2>4. QED
    BY <2>1, <2>2, <2>3 DEF Next, vars, TreeChanges, StartPlan, EndPlan, Confirm, Put, Run,
       Take, Quit, Start, Execute, Own, Make, Follow, Settle, Arm, Refresh, Fire, PutAgain,
       Shutdown
<1>4. QED
  BY <1>2, <1>3

(* "Complete" means done: every item copied and every folder made, whatever  *)
(* was retried, whoever made the folder, and also when the server is being   *)
(* shut down.                                                               *)
THEOREM CompleteMeansDone == Spec => []CompleteIsDone
<1> DEFINE I == MkdirInv /\ PlaceInv /\ CountInv /\ PlanInv /\ DoneInv
<1>1. Init => I
  <2> SUFFICES ASSUME Init PROVE I
    OBVIOUS
  <2>1. PlanInv
    BY NoPlan DEF Init, PlanInv
  <2>2. DoneInv
    BY DEF Init, DoneInv, OutcomeInv, HasPlan, Pursued, CompleteIsDone, Idle, At, Ops
  <2>3. QED
    BY <2>1, <2>2, InitMkdir, InitSettle
<1>2. I /\ [Next]_vars => I'
  <2> SUFFICES ASSUME MkdirInv, PlaceInv, CountInv, PlanInv, DoneInv, [Next]_vars PROVE I'
    OBVIOUS
  <2>1. MkdirInv' /\ PlanInv'
    BY NextMkdir, NextPlan
  <2>2. PlaceInv' /\ CountInv'
    BY <2>1, NextPlace, NextCount
  <2>3. OutcomeInv' /\ HasPlan'
    BY NextOutcome, PlanStays DEF DoneInv
  <2>4. Pursued' /\ CompleteIsDone'
    BY <2>1, NextPursued, NextComplete DEF DoneInv
  <2>5. QED
    BY <2>1, <2>2, <2>3, <2>4 DEF DoneInv
<1>3. I => CompleteIsDone
  BY DEF DoneInv
<1>4. QED
  BY <1>1, <1>2, <1>3, PTL DEF Spec

-----------------------------------------------------------------------------
(* The page                                                                 *)

(* What MkdirInv and CountInv do not say about the types.                   *)
RestTyped ==
  /\ status \in [Ops -> {"new", "running"} \cup Final]
  /\ plan \in [Plans -> {"none", "scanning", "ready", "failed", "expired", "used"}]
  /\ planned \in [Plans -> [tree: Nat, items: Finds \cup {<<>>}]]
  /\ sentinels \in 0..Cardinality(Workers)
  /\ performed \subseteq Ops \X Items /\ stale \subseteq Ops \X Folders

ServerInv == SettleInv /\ RestTyped

(* Operations whose refresh is on its way or was answered are over; what a   *)
(* listing misses is not invalidated yet, or the listing was overtaken.     *)
Over == {o \in Ops : status[o] \in Final}
Missed == cached \cup InFlight
KeptInv ==
  /\ listing = None \/ listing \subseteq Ops
  /\ cached \subseteq Ops /\ overtaken \subseteq Ops
  /\ \A o \in Missed : o \in overtaken \/ <<o, Page>> \in stale
RefreshInv ==
  /\ refreshing \in Over \cup {None} /\ refreshed \subseteq Over
  /\ KeptInv
  /\ RowsAreFresh

-----------------------------------------------------------------------------
(* Types of the server                                                      *)

(* A prefix of a prefix is a prefix.                                        *)
LEMMA PrefixOfPrefix ==
  ASSUME NEW i \in Seq(STRING), NEW d \in 0..Len(i), NEW f \in Prefixes(SubSeq(i, 1, d))
  PROVE  f \in Prefixes(i)
<1> DEFINE t == SubSeq(i, 1, d)
<1>1. Len(i) \in Nat /\ t \in Seq(STRING) /\ Len(t) = d /\ \A n \in 1..d : t[n] = i[n]
  OBVIOUS
<1> HIDE DEF t
<1>2. PICK l \in 0..d : f = SubSeq(t, 1, l)
  BY <1>1 DEF Prefixes, t
<1>3. l \in 0..Len(i)
  BY <1>1, <1>2
<1>4. f = [n \in 1..l |-> t[n]] /\ SubSeq(i, 1, l) = [n \in 1..l |-> i[n]]
  BY <1>1, <1>2, <1>3
<1>5. f = SubSeq(i, 1, l)
  BY <1>1, <1>2, <1>4
<1>6. QED
  BY <1>3, <1>5 DEF Prefixes

(* The folder of an item and the folders above it are folders.              *)
LEMMA FoldersOfItem ==
  ASSUME NEW i \in Items
  PROVE  Prefixes(Parent(i)) \subseteq Folders
<1>1. i \in Seq(STRING) /\ Len(i) \in Nat
  BY ItemsArePaths DEF Items
<1>2. CASE IsFolder(i)
  <2>1. Prefixes(Parent(i)) \subseteq Prefixes(i)
    <3>1. CASE Len(i) = 0
      <4>1. Parent(i) = i
        BY <1>1, <3>1 DEF Parent
      <4>2. QED
        BY <4>1
    <3>2. CASE Len(i) # 0
      BY <1>1, <3>2, PrefixOfPrefix DEF Parent
    <3>3. QED
      BY <3>1, <3>2
  <2>2. QED
    BY <1>2, <2>1 DEF Folders
<1>3. CASE ~ IsFolder(i)
  BY <1>3 DEF Folders
<1>4. QED
  BY <1>2, <1>3

(* So are the folders on the way down to a folder that is to be made.       *)
LEMMA FoldersOfTarget ==
  ASSUME NEW i \in Items, Kind[i] = "mkdir", NEW d \in 1..Len(i)
  PROVE  Prefixes(SubSeq(i, 1, d)) \subseteq Folders
<1>1. i \in Seq(STRING) /\ d \in 0..Len(i)
  BY ItemsArePaths DEF Items
<1>2. Prefixes(SubSeq(i, 1, d)) \subseteq Prefixes(i)
  BY <1>1, PrefixOfPrefix
<1>3. QED
  BY <1>2 DEF Folders, IsFolder

(* A worker step keeps the types: only Execute and Make change folders.     *)
LEMMA RunTyped ==
  ASSUME JobsTyped, ChainTyped, RestTyped, NEW w \in Workers, Run(w)
  PROVE  RestTyped'
<1>1. CASE Execute(w)
  <2>1. Op(w) \in Ops /\ Item(w) \in Items
    BY <1>1 DEF JobsTyped, Execute, At, Op, Item, Job
  <2>2. Changed(Op(w), Parent(Item(w))) \subseteq Ops \X Folders
    BY <2>1, FoldersOfItem DEF Changed, RestTyped
  <2>3. performed' \subseteq Ops \X Items /\ stale' \subseteq Ops \X Folders
    BY <1>1, <2>1, <2>2 DEF Execute, RestTyped, history
  <2>4. QED
    BY <1>1, <2>3 DEF Execute, RestTyped, planning, pool
<1>2. CASE Make(w)
  <2>1. Op(w) \in Ops /\ Item(w) \in Items /\ Kind[Item(w)] = "mkdir"
        /\ worker[w].depth \in 1..Len(Item(w))
    BY <1>2 DEF JobsTyped, ChainTyped, Make, At, Op, Item, Job, Folding
  <2>2. Changed(Op(w), Target(w)) \subseteq Ops \X Folders
    BY <2>1, FoldersOfTarget DEF Changed, RestTyped, Target
  <2>3. stale' \subseteq Ops \X Folders
    BY <1>2, <2>2 DEF Make, RestTyped
  <2>4. QED
    BY <1>2, <2>3 DEF Make, RestTyped, planning, pool
<1>3. CASE Refresh(w)
  <2>1. stale' \subseteq stale
    BY <1>3 DEF Refresh
  <2>2. QED
    BY <1>3, <2>1 DEF Refresh, RestTyped, planning, pool
<1>4. CASE Report(w)
  BY <1>4 DEF Report, RestTyped, planning, pool, history, Final
<1>5. CASE Quit(w)
  <2>1. sentinels' \in 0..Cardinality(Workers)
    <3>1. Cardinality(Workers) \in Nat
      BY FiniteWorkers, FS_CardinalityType
    <3>2. QED
      BY <1>5, <3>1 DEF Quit, RestTyped
  <2>2. QED
    BY <1>5, <2>1 DEF Quit, RestTyped, planning, history
<1>6. CASE Take(w) \/ Start(w) \/ Own(w) \/ Follow(w) \/ Settle(w) \/ Arm(w)
  BY <1>6 DEF Take, Start, Own, Follow, Settle, Arm, RestTyped, planning, pool, history
<1>7. QED
  BY <1>1, <1>2, <1>3, <1>4, <1>5, <1>6 DEF Run

(* So does a step of the server.                                            *)
LEMMA NextTyped ==
  ASSUME JobsTyped, ChainTyped, RestTyped, [Next]_vars
  PROVE  RestTyped'
<1>1. CASE \E w \in Workers : Run(w)
  BY <1>1, RunTyped
<1>2. CASE \E p \in Plans : StartPlan(p)
  <2>1. PICK p \in Plans : StartPlan(p)
    BY <1>2
  <2>2. planned' \in [Plans -> [tree: Nat, items: Finds \cup {<<>>}]]
    BY <2>1 DEF StartPlan, RestTyped, JobsTyped
  <2>3. QED
    BY <2>1, <2>2 DEF StartPlan, RestTyped, pool, history
<1>3. CASE \E p \in Plans : EndPlan(p)
  BY <1>3 DEF EndPlan, RestTyped, pool, history
<1>4. CASE \E o \in Batches, p \in Plans : Confirm(o, p)
  BY <1>4 DEF Confirm, RestTyped, pool, history
<1>5. CASE \E o \in Ops : Submit(o)
  BY <1>5 DEF Submit, RestTyped, planning, pool, history, Final
<1>6. CASE Shutdown
  <2>1. sentinels' \in 0..Cardinality(Workers)
    BY <1>6, FiniteWorkers, FS_CardinalityType DEF Shutdown, RestTyped
  <2>2. QED
    BY <1>6, <2>1 DEF Shutdown, RestTyped, planning, history
<1>7. CASE \/ TreeChanges \/ UNCHANGED vars
           \/ \E o \in Ops : Put(o)
           \/ \E j \in timers : Fire(j)
           \/ \E j \in due : PutAgain(j)
  BY <1>7 DEF TreeChanges, Put, Fire, PutAgain, RestTyped, vars, planning, pool, history
<1>8. QED
  BY <1>1, <1>2, <1>3, <1>4, <1>5, <1>6, <1>7 DEF Next

(* The invariant of the server, with its types.                             *)
LEMMA NextServer == ServerInv /\ [Next]_vars => ServerInv'
<1> SUFFICES ASSUME MkdirInv, PlaceInv, CountInv, StaleInv, RestTyped, [Next]_vars
             PROVE  ServerInv'
  BY DEF ServerInv, SettleInv
<1>1. MkdirInv'
  BY NextMkdir
<1>2. RestTyped'
  BY NextTyped DEF MkdirInv
<1>3. QED
  BY <1>1, <1>2, NextPlace, NextCount, NextStale DEF ServerInv, SettleInv

LEMMA InitServer == Init => ServerInv
<1> SUFFICES ASSUME Init PROVE ServerInv
  OBVIOUS
<1>1. StaleInv
  BY DEF Init, StaleInv
<1>2. Cardinality(Workers) \in Nat
  BY FiniteWorkers, FS_CardinalityType
<1>3. RestTyped
  BY <1>2 DEF Init, RestTyped
<1>4. QED
  BY <1>1, <1>3, InitMkdir, InitSettle DEF ServerInv, SettleInv

LEMMA ServerTyped == ServerInv => TypeOK
<1> SUFFICES ASSUME JobsTyped, ChainTyped, GroupsTyped, RestTyped PROVE TypeOK
  BY DEF ServerInv, SettleInv, MkdirInv, CountInv
<1>1. \A o \in Ops : group[o] # None => group[o].running \in Nat /\ group[o].retries \in Nat
  BY DEF GroupsTyped, Group
<1>2. QED
  BY <1>1 DEF TypeOK, JobsTyped, ChainTyped, RestTyped

(* Type correctness of the jobs, for any number of workers.                 *)
THEOREM JobsTypeCorrect == Spec => []TypeOK
<1>1. QED
  BY InitServer, NextServer, ServerTyped, PTL DEF Spec

-----------------------------------------------------------------------------
(* The page over the server                                                 *)

(* A request is for an operation of one file, for a plan, or for a batch of  *)
(* a plan.                                                                  *)
PostTyped ==
  /\ post = None \/ post \in [op : Ops \cup {None}, plan : Plans \cup {None},
                             at : {"sent", "confirmed", "accepted", "refused"}]
  /\ post # None =>
       /\ post.op # None \/ post.plan # None
       /\ post.at = "confirmed" => post.op # None
       /\ post.op # None /\ post.plan # None => post.op \in Batches

PageTyped ==
  /\ posts \in 0..MaxPosts /\ busy \in BOOLEAN /\ away \in BOOLEAN
  /\ PostTyped
  /\ follow \in Ops \cup Plans \cup {None}
  /\ dialog \in Plans \cup {None}
  /\ behind \subseteq Ops \X (Folders \cup {Page})

PageInv == ServerInv /\ PageTyped /\ RefreshInv

(* A step of the page is one of the server's or leaves the server alone.    *)
LEMMA PageStepIsServers ==
  ASSUME PostTyped, [PageNext]_allVars
  PROVE  [Next]_vars
<1>1. CASE UNCHANGED vars
  BY <1>1
<1>2. CASE Serve
  <2>1. CASE \/ IsAt("sent") /\ post.plan = None /\ Submit(post.op)
             \/ IsAt("confirmed") /\ Submit(post.op)
    <3>1. post.op \in Ops /\ Submit(post.op)
      BY <2>1 DEF IsAt, PostTyped
    <3>2. QED
      BY <3>1 DEF Next
  <2>2. CASE IsAt("sent") /\ post.op = None /\ StartPlan(post.plan)
    <3>1. post.plan \in Plans
      BY <2>2 DEF IsAt, PostTyped
    <3>2. QED
      BY <2>2, <3>1 DEF Next
  <2>3. CASE IsAt("sent") /\ None \notin {post.op, post.plan} /\ Confirm(post.op, post.plan)
    <3>1. post.plan \in Plans /\ post.op \in Batches
      BY <2>3 DEF IsAt, PostTyped
    <3>2. QED
      BY <2>3, <3>1 DEF Next
  <2>4. QED
    BY <1>2, <2>1, <2>2, <2>3 DEF Serve
<1>3. CASE Background
  BY <1>3 DEF Background, Next
<1>4. CASE \/ Refuse \/ Answered \/ PostFails \/ Polled \/ PlanPolled \/ RefreshAnswered
           \/ Leave \/ ListBegins \/ ListEnds
  <2>1. UNCHANGED vars
    BY <1>4 DEF Refuse, Answered, PostFails, Polled, PlanPolled, RefreshAnswered, Leave,
       ListBegins, ListEnds
  <2>2. QED
    BY <2>1
<1>5. CASE \/ \E o \in Singles : CopyFile(o)
           \/ \E p \in Plans : PlanBatch(p)
           \/ \E o \in Batches : RunBatch(o)
           \/ CancelBatch
  <2>1. UNCHANGED vars
    BY <1>5 DEF CopyFile, PlanBatch, RunBatch, CancelBatch, Posts
  <2>2. QED
    BY <2>1
<1>6. QED
  BY <1>1, <1>2, <1>3, <1>4, <1>5 DEF PageNext, allVars

(* What the page does to its own variables when the server steps.           *)
LEMMA ServedTyped ==
  ASSUME PageTyped, ServerInv', Serve
  PROVE  PageTyped'
<1>1. PICK to \in {"accepted", "confirmed"} :
        Serving(to) /\ post # None /\ (to = "confirmed" => post.op # None)
  BY DEF Serve, IsAt
<1>2. PostTyped'
  BY <1>1 DEF Serving, PageTyped, PostTyped
<1>3. QED
  BY <1>1, <1>2 DEF Serving, PageTyped, view

LEMMA NextPageTyped ==
  ASSUME PageTyped, KeptInv, ServerInv, ServerInv', [PageNext]_allVars
  PROVE  PageTyped'
<1> USE DEF PageTyped
<1>1. CASE \E o \in Ops \cup {None}, p \in Plans \cup {None} :
             /\ Posts(o, p)
             /\ o # None \/ p # None
             /\ o # None /\ p # None => o \in Batches
             /\ dialog' \in Plans \cup {None}
  <2>1. PICK o \in Ops \cup {None}, p \in Plans \cup {None} :
             /\ Posts(o, p)
             /\ o # None \/ p # None
             /\ o # None /\ p # None => o \in Batches
             /\ dialog' \in Plans \cup {None}
    BY <1>1
  <2>2. PostTyped'
    BY <2>1 DEF Posts, PostTyped
  <2>3. posts' \in 0..MaxPosts
    BY <2>1, PostsAreBounded DEF Posts
  <2>4. QED
    BY <2>1, <2>2, <2>3 DEF Posts, view
<1>2. CASE \E o \in Singles : CopyFile(o)
  BY <1>1, <1>2, NoOperation DEF CopyFile, Ops
<1>3. CASE \E p \in Plans : PlanBatch(p)
  BY <1>1, <1>3, NoPlan DEF PlanBatch
<1>4. CASE \E o \in Batches : RunBatch(o)
  BY <1>1, <1>4, NoOperation DEF RunBatch, Ops
<1>5. CASE CancelBatch
  BY <1>5 DEF CancelBatch, request, view, PostTyped
<1>6. CASE Serve
  BY <1>6, ServedTyped
<1>7. CASE Refuse
  BY <1>7 DEF Refuse, Serving, view, PostTyped, IsAt
<1>8. CASE Background /\ PageWaits /\ Noticed
  <2>1. behind' \subseteq Ops \X (Folders \cup {Page})
    BY <1>8 DEF Noticed, ServerInv, RestTyped
  <2>2. QED
    BY <1>8, <2>1 DEF PageWaits, request, PostTyped
<1>9. CASE Answered
  BY <1>9, NoOperation DEF Answered, IsAt, view, PostTyped
<1>10. CASE PostFails \/ Polled \/ PlanPolled
  BY <1>10 DEF PostFails, Polled, PlanPolled, Released, view, PostTyped
<1>11. CASE RefreshAnswered
  <2>1. behind' \subseteq Ops \X (Folders \cup {Page})
    <3>1. \A missed \in {cached, InFlight, {}} : missed \subseteq Ops
      BY DEF KeptInv, InFlight
    <3>2. stale \subseteq Ops \X Folders
      BY DEF ServerInv, RestTyped
    <3>3. CASE \E missed \in {cached, InFlight, {}} : Shown(missed)
      BY <3>1, <3>2, <3>3 DEF Shown
    <3>4. QED
      BY <1>11, <3>3 DEF RefreshAnswered, PageTyped
  <2>2. QED
    BY <1>11, <2>1 DEF RefreshAnswered, request, PostTyped
<1>12. CASE Leave \/ ListBegins \/ ListEnds
  BY <1>12 DEF Leave, ListBegins, ListEnds, request, PostTyped
<1>13. CASE UNCHANGED allVars
  BY <1>13 DEF allVars, pageVars, request, view, PostTyped
<1>14. QED
  BY <1>2, <1>3, <1>4, <1>5, <1>6, <1>7, <1>8, <1>9, <1>10, <1>11, <1>12, <1>13 DEF PageNext

-----------------------------------------------------------------------------
(* What is over stays over, and shows                                       *)

(* No step of the server takes a final status back: only a new operation is  *)
(* submitted, and only a running one is reported.                           *)
LEMMA OverStays ==
  ASSUME ServerInv, [Next]_vars
  PROVE  Over \subseteq Over'
<1> SUFFICES ASSUME NEW o \in Ops, status[o] \in Final PROVE status'[o] \in Final
  BY DEF Over
<1>1. status[o] \notin {"new", "running"} /\ DOMAIN status = Ops
  BY DEF Final, ServerInv, RestTyped
<1>2. CASE \E w \in Workers : Report(w)
  <2>1. PICK w \in Workers : Report(w)
    BY <1>2
  <2>2. status[Op(w)] = "running"
    BY <2>1 DEF Report, ServerInv, SettleInv, CountInv, OneReporter
  <2>3. status'[o] = status[o]
    BY <1>1, <2>1, <2>2 DEF Report
  <2>4. QED
    BY <2>3
<1>3. CASE \E p \in Ops : Submit(p)
  <2>1. PICK p \in Ops : Submit(p)
    BY <1>3
  <2>2. status'[o] = status[o]
    BY <1>1, <2>1 DEF Submit
  <2>3. QED
    BY <2>2
<1>4. CASE UNCHANGED status
  BY <1>4
<1>5. QED
  BY <1>2, <1>3, <1>4 DEF Next, vars, TreeChanges, StartPlan, EndPlan, Confirm, Put, Run, Take,
     Quit, Start, Execute, Own, Make, Follow, Settle, Arm, Refresh, Fire, PutAgain, Shutdown

(* An operation that is over has left nothing stale.                        *)
LEMMA OverIsFresh ==
  ASSUME ServerInv, NEW o \in Over
  PROVE  <<o, Page>> \notin stale
<1>1. ReportedFresh
  BY SettledIsFresh DEF ServerInv
<1>2. QED
  BY <1>1 DEF ReportedFresh, Over, ServerInv, RestTyped

(* Only an invalidation makes the server's caches miss less.                *)
LEMMA OnlyRefreshFreshens ==
  ASSUME Background, ~\E w \in Workers : Refresh(w)
  PROVE  stale \subseteq stale'
<1>1. CASE \E w \in Workers : Execute(w)
  BY <1>1 DEF Execute, Changed, history
<1>2. CASE \E w \in Workers : Make(w)
  BY <1>2 DEF Make, Changed
<1>3. CASE UNCHANGED stale
  BY <1>3
<1>4. QED
  BY <1>1, <1>2, <1>3 DEF Background, TreeChanges, EndPlan, Put, Run, Take, Quit, Start, Own,
     Follow, Settle, Arm, Report, Fire, PutAgain, Shutdown, history

(* What listings miss, after a step of the server.                          *)
LEMMA NextKept ==
  ASSUME ServerInv, KeptInv, Background, Noticed
  PROVE  KeptInv'
<1>1. Changing \subseteq Ops /\ \A o \in Changing : <<o, Page>> \in stale'
  BY DEF Changing
<1>2. /\ listing' = None \/ listing' \subseteq Ops
      /\ InFlight' \subseteq InFlight \cup Changing /\ InFlight \subseteq Ops
  BY <1>1 DEF Noticed, KeptInv, InFlight
<1>3. CASE \E w \in Workers : Refresh(w)
  <2>1. cached' = {} /\ overtaken' = overtaken \cup InFlight
    BY <1>3 DEF Noticed
  <2>2. QED
    BY <1>1, <1>2, <2>1 DEF KeptInv, Missed
<1>4. CASE ~\E w \in Workers : Refresh(w)
  <2>1. cached' = cached /\ overtaken' = overtaken /\ stale \subseteq stale'
    BY <1>4, OnlyRefreshFreshens DEF Noticed
  <2>2. Missed' \subseteq Missed \cup Changing
    BY <1>2, <2>1 DEF Missed
  <2>3. QED
    BY <1>1, <1>2, <2>1, <2>2 DEF KeptInv
<1>5. QED
  BY <1>3, <1>4

(* The rows stay fresh.                                                     *)
LEMMA NextRefresh ==
  ASSUME PageInv, ServerInv', [PageNext]_allVars
  PROVE  RefreshInv'
<1>1. refreshing \in Over' \cup {None} /\ refreshed \subseteq Over'
  BY PageStepIsServers, OverStays DEF PageInv, PageTyped, RefreshInv
<1>2. CASE UNCHANGED <<view, stale>>
  BY <1>1, <1>2 DEF PageInv, RefreshInv, KeptInv, Missed, InFlight, RowsAreFresh, view, kept
<1>3. CASE Background /\ PageWaits /\ Noticed
  <2>1. ReportedFresh'
    <3>1. SettleInv'
      BY DEF ServerInv
    <3>2. QED
      BY <3>1, SettledIsFresh, PTL
  <2>2. \A o \in refreshed : <<o, Page>> \notin stale'
    BY <1>1, <2>1 DEF ReportedFresh, Over, ServerInv, RestTyped
  <2>3. KeptInv' /\ overtaken \subseteq overtaken'
    BY <1>3, NextKept DEF PageInv, RefreshInv, Noticed
  <2>4. refreshed' = refreshed /\ refreshing' = refreshing
        /\ behind' = behind \cup (stale' \ stale)
    BY <1>3 DEF PageWaits, Noticed
  <2>5. QED
    BY <1>1, <2>2, <2>3, <2>4 DEF PageInv, RefreshInv, RowsAreFresh
<1>4. CASE Polled
  <2>1. refreshing' \in Over' \cup {None}
    BY <1>1, <1>4 DEF Polled, Over, PageInv, PageTyped, vars
  <2>2. QED
    BY <1>1, <1>4, <2>1 DEF Polled, PageInv, RefreshInv, KeptInv, Missed, InFlight,
       RowsAreFresh, kept, vars, history
<1>5. CASE RefreshAnswered
  <2>1. KeptInv' /\ overtaken' = overtaken
    BY <1>5 DEF RefreshAnswered, PageInv, RefreshInv, KeptInv, Missed, InFlight, kept, vars, history
  <2>2. CASE \E missed \in {cached, InFlight, {}} : Shown(missed)
    <3>1. PICK missed \in {cached, InFlight, {}} : Shown(missed)
      BY <2>2
    <3>2. refreshed' \subseteq Over
      BY <1>5, <3>1 DEF RefreshAnswered, Shown, PageInv, RefreshInv
    <3>3. \A o \in refreshed' : <<o, Page>> \notin stale
      BY <3>2, OverIsFresh DEF PageInv
    <3>4. \A o \in missed : o \in overtaken \/ <<o, Page>> \in stale
      BY DEF PageInv, RefreshInv, KeptInv, Missed
    <3>5. refreshed' \subseteq Over' /\ refreshing' = None
      BY <1>1, <1>5, <3>1 DEF RefreshAnswered, Shown
    <3>6. QED
      BY <2>1, <3>1, <3>3, <3>4, <3>5 DEF RefreshInv, RowsAreFresh, Shown
  <2>3. CASE refreshed' = {} \/ UNCHANGED <<refreshed, behind>>
    BY <1>1, <1>5, <2>1, <2>3 DEF RefreshAnswered, PageInv, RefreshInv, RowsAreFresh
  <2>4. QED
    BY <1>5, <2>2, <2>3 DEF RefreshAnswered
<1>6. CASE Leave
  BY <1>1, <1>6 DEF Leave, PageInv, RefreshInv, KeptInv, Missed, InFlight, RowsAreFresh, kept,
     vars, history
<1>7. CASE ListBegins \/ ListEnds
  <2>1. UNCHANGED <<refreshing, refreshed, behind, overtaken, stale>>
    BY <1>7 DEF ListBegins, ListEnds, vars, history
  <2>2. KeptInv'
    BY <1>7, <2>1 DEF ListBegins, ListEnds, PageInv, RefreshInv, KeptInv, Missed, InFlight
  <2>3. QED
    BY <1>1, <2>1, <2>2 DEF PageInv, RefreshInv, RowsAreFresh
<1>8. CASE Serve
  BY <1>2, <1>8 DEF Serve, Serving, Submit, StartPlan, Confirm, history
<1>9. QED
  BY <1>2, <1>3, <1>4, <1>5, <1>6, <1>7, <1>8 DEF PageNext, allVars, pageVars, CopyFile,
     PlanBatch, RunBatch, CancelBatch, Posts, Serving, Refuse, Answered, PostFails, PlanPolled,
     vars, history

(* The invariant of the page and the server together.                       *)
THEOREM PageInvHolds == PageSpec => []PageInv
<1>1. PageInit => PageInv
  <2> SUFFICES ASSUME PageInit PROVE PageInv
    OBVIOUS
  <2>1. ServerInv
    BY InitServer DEF PageInit
  <2>2. PostTyped
    BY DEF PageInit, PostTyped
  <2>3. PageTyped
    <3>1. posts \in 0..MaxPosts
      BY PostsAreBounded DEF PageInit
    <3>2. busy \in BOOLEAN /\ away \in BOOLEAN
      BY Zenon DEF PageInit
    <3>3. QED
      BY <2>2, <3>1, <3>2 DEF PageInit, PageTyped
  <2>4. RefreshInv
    BY DEF PageInit, RefreshInv, KeptInv, Missed, InFlight, RowsAreFresh
  <2>5. QED
    BY <2>1, <2>3, <2>4 DEF PageInv
<1>2. PageInv /\ [PageNext]_allVars => PageInv'
  <2> SUFFICES ASSUME PageInv, [PageNext]_allVars PROVE PageInv'
    OBVIOUS
  <2>1. ServerInv'
    BY PageStepIsServers, NextServer DEF PageInv, PageTyped
  <2>2. QED
    BY <2>1, NextPageTyped, NextRefresh DEF PageInv, RefreshInv
<1>3. QED
  BY <1>1, <1>2, PTL DEF PageSpec

(* Type correctness of the page and of the jobs behind it.                  *)
THEOREM PageTypeCorrect == PageSpec => []PageTypeOK
<1>1. PageInv => PageTypeOK
  <2> SUFFICES ASSUME ServerInv, PageTyped, RefreshInv PROVE PageTypeOK
    BY DEF PageInv
  <2>1. TypeOK
    BY ServerTyped
  <2>2. refreshing \in Ops \cup {None} /\ refreshed \subseteq Ops
    BY DEF RefreshInv, Over
  <2>3. /\ listing = None \/ listing \subseteq Ops
        /\ cached \subseteq Ops /\ overtaken \subseteq Ops
    BY DEF RefreshInv, KeptInv
  <2>4. QED
    BY <2>1, <2>2, <2>3 DEF PageTypeOK, PageTyped, PostTyped
<1>2. QED
  BY <1>1, PageInvHolds, PTL

(* Once a page has refreshed its rows for an operation that has ended, they  *)
(* show all that the operation did to the folder, whatever the workers and   *)
(* other operations do before or afterwards, and whichever listings of other *)
(* tabs the refresh finds, unless one of these was in flight when the        *)
(* server invalidated what it keeps.                                        *)
THEOREM RowsStayFresh == PageSpec => []RowsAreFresh
<1>1. PageInv => RowsAreFresh
  BY DEF PageInv, RefreshInv
<1>2. QED
  BY <1>1, PageInvHolds, PTL
=============================================================================
