------------------------------ MODULE SyncJobs ------------------------------
(***************************************************************************)
(* SyncJobManager (src/dropbox_browser/syncjobs.py): the copy operations    *)
(* that the browser starts, run as one job per file or folder by a pool of  *)
(* workers, and the batch plans (services.py) that have to be confirmed     *)
(* before they are copied.                                                 *)
(*                                                                         *)
(* Request threads submit operations and put their jobs into a priority     *)
(* queue; workers run them; timers put throttled uploads back; the worker   *)
(* that settles the last job of an operation invalidates the folders that   *)
(* it touched and reports the operation to syncstate, which the browser     *)
(* polls.  Every action is one locked section or a step between two.        *)
(*                                                                         *)
(* A path is a sequence of names; the empty one is the root folder.         *)
(***************************************************************************)
EXTENDS Integers, SequencesExt, FiniteSets

CONSTANTS
  Singles,      \* operations of one file (POST /sync)
  Batches,      \* operations from a confirmed plan (POST /sync-batch)
  Plans,        \* batch plans (POST /sync-batch-plan)
  Kind,         \* Kind[path] of the items: "mkdir" a Dropbox folder, "folder"
                \* for a local one, "upload" or "download" a file
  SingleItem,   \* SingleItem[o]: the file of the single operation o
  Finds,        \* what a scan of the trees may find to copy: sequences of
                \* items in the order of submission
  Workers,
  None,         \* no group, no plan
  MaxAttempts,  \* _max_throttle_attempts: 21 in the program
  MaxChanges    \* bound: changes of the tree from outside

ASSUME Attempts == MaxAttempts \in Nat \ {0}
ASSUME NoPlan == None \notin Plans
ASSUME ItemsArePaths == /\ DOMAIN Kind \subseteq Seq(STRING)
                        /\ \A i \in DOMAIN Kind : Kind[i] = "mkdir" => i # <<>>
                        /\ \A o \in Singles : SingleItem[o] \in DOMAIN Kind
                        /\ Finds \subseteq Seq(DOMAIN Kind)
ASSUME FiniteWorkers == IsFiniteSet(Workers)

(* A SyncJobGroup without the folders made for it; None is not one.         *)
Group == [total: Nat, completed: Nat, running: Nat, retries: Nat, errors: Nat,
          touched: SUBSET Seq(STRING)]
ASSUME NoGroup == None \notin Group

Ops == Singles \cup Batches
Items == DOMAIN Kind
IsFolder(i) == Kind[i] \in {"mkdir", "folder"}
Parent(i) == SubSeq(i, 1, Len(i) - 1)
Folders == UNION {Prefixes(IF IsFolder(i) THEN i ELSE Parent(i)) : i \in Items}

VARIABLES
  status,     \* status[o] in syncstate; "new" before submit
  plan,       \* plan[p]: where plan p is
  planned,    \* planned[p]: the trees when p was scanned, and the items found
  origin,     \* origin[o]: the plan that the batch o has consumed
  tree,       \* version of the remote and local trees
  group,      \* _groups[o], None if absent
  mkdirs,     \* mkdirs[o][f]: the group's RemoteMkdirState of f
  entering,   \* entering[o]: jobs that submit still has to put
  queue,      \* the jobs in the priority queue
  worker,     \* worker[w]: what the thread is doing
  timers,     \* retry jobs whose timer runs
  due,        \* retry jobs between the timer's locked section and the put
  order,      \* _submit_order
  shutdown,   \* "no", "rclone" when RcloneClient is shut down, "all"
  sentinels,  \* SyncShutdownJobs in the queue
  performed,  \* history: pairs of an operation and an item it really copied
  stale       \* history: pairs of an operation and a folder it changed since
              \* the folder's listing and metadata were last invalidated

planning == <<plan, planned, origin, tree>>
pool == <<queue, sentinels, timers, due, shutdown>>
history == <<performed, stale>>
vars == <<status, planning, group, mkdirs, entering, order, pool, worker, history>>

Final == {"complete", "partial", "error"}
Job == [op: Ops, item: Items, attempt: 1..MaxAttempts, order: Nat]
Idle == [pc |-> "idle"]

Init ==
  /\ status = [o \in Ops |-> "new"]
  /\ plan = [p \in Plans |-> "none"]
  /\ planned = [p \in Plans |-> [tree |-> 0, items |-> <<>>]]
  /\ origin = [o \in Batches |-> None]
  /\ tree = 0
  /\ group = [o \in Ops |-> None]
  /\ mkdirs = [o \in Ops |-> [f \in Folders |-> "none"]]
  /\ entering = [o \in Ops |-> <<>>]
  /\ queue = {}
  /\ worker = [w \in Workers |-> Idle]
  /\ timers = {} /\ due = {}
  /\ order = 0
  /\ shutdown = "no" /\ sentinels = 0
  /\ performed = {} /\ stale = {}

-----------------------------------------------------------------------------
(* Batch plans                                                              *)

TreeChanges ==
  /\ tree < MaxChanges
  /\ tree' = tree + 1
  /\ UNCHANGED <<status, plan, planned, origin, group, mkdirs, entering, order, pool,
                 worker, history>>

(* start_batch_plan: a thread of its own scans the tree, ...                *)
StartPlan(p) ==
  /\ plan[p] = "none"
  /\ plan' = [plan EXCEPT ![p] = "scanning"]
  /\ \E found \in Finds : planned' = [planned EXCEPT ![p] = [tree |-> tree, items |-> found]]
  /\ UNCHANGED <<status, origin, tree, group, mkdirs, entering, order, pool, worker, history>>

(* ... and stores the plan under a token (store_batch_plan), or fails.  A   *)
(* token that is too old is dropped (_cleanup_batch_plans_locked).          *)
EndPlan(p) ==
  /\ \/ plan[p] = "scanning" /\ plan' \in {[plan EXCEPT ![p] = to] : to \in {"ready", "failed"}}
     \/ plan[p] = "ready" /\ plan' = [plan EXCEPT ![p] = "expired"]
  /\ UNCHANGED <<status, planned, origin, tree, group, mkdirs, entering, order, pool, worker,
                 history>>

(* Slip: the token is looked up and stays.                                  *)
ConfirmPeeks(o, p) ==
  /\ origin[o] = None
  /\ plan[p] = "ready"
  /\ origin' = [origin EXCEPT ![o] = p]
  /\ UNCHANGED <<status, plan, planned, tree, group, mkdirs, entering, order, pool, worker,
                 history>>

(* consume_batch_plan: the token is popped, so it works once.  (A request    *)
(* that does not match the plan pops it too and starts nothing: to all       *)
(* others the plan has then expired, see EndPlan.)                          *)
Confirm(o, p) ==
  /\ origin[o] = None
  /\ plan[p] = "ready"
  /\ plan' = [plan EXCEPT ![p] = "used"]
  /\ origin' = [origin EXCEPT ![o] = p]
  /\ UNCHANGED <<status, planned, tree, group, mkdirs, entering, order, pool, worker, history>>

-----------------------------------------------------------------------------
(* submit                                                                   *)

Wanted(o) == IF o \in Singles THEN <<SingleItem[o]>> ELSE planned[origin[o]].items
NewGroup(o) == [total |-> Len(Wanted(o)), completed |-> 0, running |-> 0, retries |-> 0,
                errors |-> 0, touched |-> {}]

Submit(o) ==
  /\ status[o] = "new"
  /\ o \in Batches => origin[o] # None
  /\ \/ /\ Wanted(o) = <<>>
        /\ status' = [status EXCEPT ![o] = "complete"]
        /\ UNCHANGED <<group, entering, order>>
     \/ /\ Wanted(o) # <<>> /\ shutdown = "all"
        /\ status' = [status EXCEPT ![o] = "error"]
        /\ UNCHANGED <<group, entering, order>>
     \/ /\ Wanted(o) # <<>> /\ shutdown # "all"
        /\ status' = [status EXCEPT ![o] = "running"]
        /\ group' = [group EXCEPT ![o] = NewGroup(o)]
        /\ entering' = [entering EXCEPT ![o] =
                          [n \in 1..Len(Wanted(o)) |->
                             [op |-> o, item |-> Wanted(o)[n], attempt |-> 1,
                              order |-> order + n]]]
        /\ order' = order + Len(Wanted(o))
  /\ UNCHANGED <<planning, mkdirs, pool, worker, history>>

(* Its loop puts one job after the other, without the lock.                 *)
Put(o) ==
  /\ entering[o] # <<>>
  /\ queue' = queue \cup {Head(entering[o])}
  /\ entering' = [entering EXCEPT ![o] = Tail(@)]
  /\ UNCHANGED <<status, planning, group, mkdirs, order, sentinels, timers, due, shutdown,
                 worker, history>>

-----------------------------------------------------------------------------
(* Workers                                                                  *)

At(w, pc) == worker[w].pc = pc
Moves(w, rec) == worker' = [worker EXCEPT ![w] = rec]
Op(w) == worker[w].job.op
Item(w) == worker[w].job.item

(* The fields that order a SyncJob: single operations first, then folders,  *)
(* shallow ones first, then the order of submission.                        *)
Key(j) == <<IF j.op \in Batches THEN 1 ELSE 0, IF IsFolder(j.item) THEN -1 ELSE 0,
            IF IsFolder(j.item) THEN Len(j.item) ELSE 0, j.order>>
Before(j, k) ==
  \E n \in 1..4 : Key(j)[n] < Key(k)[n] /\ \A m \in 1..(n - 1) : Key(j)[m] = Key(k)[m]

Take(w) ==
  /\ At(w, "idle")
  /\ \E j \in queue :
       /\ \A k \in queue \ {j} : Before(j, k)
       /\ queue' = queue \ {j}
       /\ Moves(w, [pc |-> "got", job |-> j])
  /\ UNCHANGED <<status, planning, group, mkdirs, entering, order, sentinels, timers, due,
                 shutdown, history>>

(* A SyncShutdownJob has the last rank: the queue is drained first.         *)
Quit(w) ==
  /\ At(w, "idle")
  /\ queue = {} /\ sentinels > 0
  /\ sentinels' = sentinels - 1
  /\ Moves(w, [pc |-> "stopped"])
  /\ UNCHANGED <<status, planning, group, mkdirs, entering, order, queue, timers, due,
                 shutdown, history>>

Settling(w, outcome) == [pc |-> "settle", job |-> worker[w].job, outcome |-> outcome]
SourceFound(w) == [pc |-> "chain", job |-> worker[w].job, depth |-> 1]

(* The first locked section of _run_job: a job without a group is dropped.   *)
(* The job of a folder to make then looks for its local folder, once.       *)
Start(w) ==
  /\ At(w, "got")
  /\ IF group[Op(w)] = None
       THEN Moves(w, Idle) /\ UNCHANGED group
       ELSE /\ group' = [group EXCEPT ![Op(w)].running = @ + 1]
            /\ \/ Kind[Item(w)] # "mkdir" /\ Moves(w, [pc |-> "copy", job |-> worker[w].job])
               \/ Kind[Item(w)] = "mkdir" /\ Moves(w, SourceFound(w))
               \/ Kind[Item(w)] = "mkdir" /\ Moves(w, Settling(w, "error"))
  /\ UNCHANGED <<status, planning, mkdirs, entering, order, pool, history>>

Changed(o, f) == stale \cup ({o} \X Prefixes(f))
Again(j) == [j EXCEPT !.attempt = @ + 1, !.order = order + 1]

(* Slip: the last attempt is retried as well.                               *)
MayRetryPast(j) == Kind[j.item] = "upload" /\ j.op \in Batches /\ j.attempt <= MaxAttempts
(* _should_retry_throttled_job *)
MayRetry(j) == Kind[j.item] = "upload" /\ j.op \in Batches /\ j.attempt < MaxAttempts

(* execute_sync_operation and what _run_job makes of its exception.  Only   *)
(* making a local folder needs no rclone; a throttled upload of a batch is  *)
(* cloned for a retry.  A copy that fails may have changed the destination. *)
Execute(w) ==
  /\ At(w, "copy")
  /\ \/ /\ shutdown = "no" \/ Kind[Item(w)] = "folder"
        /\ performed' = performed \cup {<<Op(w), Item(w)>>}
        /\ stale' = Changed(Op(w), Parent(Item(w)))
        /\ Moves(w, Settling(w, "ok"))
        /\ UNCHANGED order
     \/ /\ stale' \in {stale, Changed(Op(w), Parent(Item(w)))}
        /\ Moves(w, Settling(w, "error"))
        /\ UNCHANGED <<performed, order>>
     \/ /\ shutdown = "no"
        /\ MayRetry(worker[w].job)
        /\ Moves(w, [pc |-> "settle", job |-> Again(worker[w].job), outcome |-> "retry"])
        /\ order' = order + 1
        /\ UNCHANGED history
  /\ UNCHANGED <<status, planning, group, mkdirs, entering, pool>>

-----------------------------------------------------------------------------
(* _ensure_remote_mkdir_once, for each folder down to the item              *)

Target(w) == SubSeq(Item(w), 1, worker[w].depth)
MkdirState(w) == mkdirs[Op(w)][Target(w)]
Onward(w) == IF worker[w].depth = Len(Item(w))
               THEN Settling(w, "ok")
               ELSE [pc |-> "chain", job |-> worker[w].job, depth |-> worker[w].depth + 1]

(* Slip: the state is not looked up first.                                  *)
OwnBlindly(w) ==
  /\ At(w, "chain")
  /\ mkdirs' = [mkdirs EXCEPT ![Op(w)][Target(w)] = "doing"]
  /\ Moves(w, [worker[w] EXCEPT !.pc = "make"])
  /\ UNCHANGED <<status, planning, group, entering, order, pool, history>>

(* The first worker that needs the folder makes it ...                      *)
Own(w) ==
  /\ At(w, "chain")
  /\ MkdirState(w) = "none"
  /\ mkdirs' = [mkdirs EXCEPT ![Op(w)][Target(w)] = "doing"]
  /\ Moves(w, [worker[w] EXCEPT !.pc = "make"])
  /\ UNCHANGED <<status, planning, group, entering, order, pool, history>>

(* Slip: the event is not set when rclone fails.                            *)
MakeUnfinally(w) ==
  /\ At(w, "make")
  /\ \/ /\ shutdown = "no"
        /\ mkdirs' = [mkdirs EXCEPT ![Op(w)][Target(w)] = "made"]
        /\ stale' = Changed(Op(w), Target(w))
        /\ Moves(w, Onward(w))
     \/ /\ UNCHANGED <<mkdirs, stale>>
        /\ Moves(w, Settling(w, "error"))
  /\ UNCHANGED <<status, planning, group, entering, order, pool, performed>>

Make(w) ==
  /\ At(w, "make")
  /\ \/ /\ shutdown = "no"
        /\ mkdirs' = [mkdirs EXCEPT ![Op(w)][Target(w)] = "made"]
        /\ stale' = Changed(Op(w), Target(w))
        /\ Moves(w, Onward(w))
     \/ /\ mkdirs' = [mkdirs EXCEPT ![Op(w)][Target(w)] = "failed"]
        /\ stale' \in {stale, Changed(Op(w), Target(w))}
        /\ Moves(w, Settling(w, "error"))
  /\ UNCHANGED <<status, planning, group, entering, order, pool, performed>>

(* ... and the others wait for its event and share its error.               *)
Follow(w) ==
  /\ At(w, "chain")
  /\ MkdirState(w) \in {"made", "failed"}
  /\ Moves(w, IF MkdirState(w) = "made" THEN Onward(w) ELSE Settling(w, "error"))
  /\ UNCHANGED <<status, planning, group, mkdirs, entering, order, pool, history>>

-----------------------------------------------------------------------------
(* The second locked section of _run_job                                    *)

Touches(i) == IF IsFolder(i) THEN {Parent(i), i} ELSE {Parent(i)}

(* Slip: a job that is still out does not keep the group open.              *)
IsOverEarly(g) == g.completed + g.running >= g.total /\ g.retries = 0
(* Slip: a job that waits for its retry counts as done.                     *)
IsOverUnretried(g) == g.completed + g.retries >= g.total /\ g.running = 0
(* _group_is_complete *)
IsOver(g) == g.completed >= g.total /\ g.running = 0 /\ g.retries = 0

(* Slip: a job that failed touches no folder.                               *)
SettledIfOk(g, i, outcome) ==
  IF outcome = "retry"
    THEN [g EXCEPT !.running = @ - 1, !.retries = @ + 1]
    ELSE [g EXCEPT !.running = @ - 1, !.completed = @ + 1,
                   !.touched = IF outcome = "ok" THEN @ \cup Touches(i) ELSE @,
                   !.errors = IF outcome = "error" THEN @ + 1 ELSE @]
Settled(g, i, outcome) ==
  IF outcome = "retry"
    THEN [g EXCEPT !.running = @ - 1, !.retries = @ + 1]
    ELSE [g EXCEPT !.running = @ - 1, !.completed = @ + 1, !.touched = @ \cup Touches(i),
                   !.errors = IF outcome = "error" THEN @ + 1 ELSE @]

Settle(w) ==
  /\ At(w, "settle")
  /\ LET o == Op(w)
         g == Settled(group[o], Item(w), worker[w].outcome)
     IN  IF group[o] = None
           THEN Moves(w, Idle) /\ UNCHANGED group
         ELSE IF IsOver(g)
           THEN /\ group' = [group EXCEPT ![o] = None]
                /\ Moves(w, [pc |-> "report", job |-> worker[w].job, parents |-> g.touched,
                             errors |-> g.errors])
           ELSE /\ group' = [group EXCEPT ![o] = g]
                /\ Moves(w, IF worker[w].outcome = "retry"
                              THEN [pc |-> "arm", job |-> worker[w].job] ELSE Idle)
  /\ UNCHANGED <<status, planning, mkdirs, entering, order, pool, history>>

(* _schedule_retry: not any more once the manager shuts down.               *)
Arm(w) ==
  /\ At(w, "arm")
  /\ timers' = IF shutdown = "all" THEN timers ELSE timers \cup {worker[w].job}
  /\ Moves(w, Idle)
  /\ UNCHANGED <<status, planning, group, mkdirs, entering, order, queue, sentinels, due,
                 shutdown, history>>

(* Slip: the timer leaves the count of pending retries alone.               *)
FireUncounted(j) ==
  /\ j \in timers
  /\ timers' = timers \ {j}
  /\ due' = due \cup {j}
  /\ UNCHANGED <<status, planning, group, mkdirs, entering, order, queue, sentinels,
                 shutdown, worker, history>>

(* _enqueue_retry_job: count the retry as queued, and put it.  (The timers  *)
(* are cancelled when the manager shuts down.)                              *)
Fire(j) ==
  /\ j \in timers
  /\ timers' = timers \ {j}
  /\ IF group[j.op] = None
       THEN UNCHANGED <<due, group>>
       ELSE due' = due \cup {j} /\ group' = [group EXCEPT ![j.op].retries = @ - 1]
  /\ UNCHANGED <<status, planning, mkdirs, entering, order, queue, sentinels, shutdown,
                 worker, history>>
PutAgain(j) ==
  /\ j \in due
  /\ due' = due \ {j}
  /\ queue' = queue \cup {j}
  /\ UNCHANGED <<status, planning, group, mkdirs, entering, order, sentinels, timers,
                 shutdown, worker, history>>

(* invalidate_sync_parents, one folder at a time: its listing and metadata  *)
(* and those of every folder above it are forgotten.                        *)
Refresh(w) ==
  /\ At(w, "report")
  /\ \E f \in worker[w].parents :
       /\ stale' = {x \in stale : x[2] \notin Prefixes(f)}
       /\ Moves(w, [worker[w] EXCEPT !.parents = @ \ {f}])
  /\ UNCHANGED <<status, planning, group, mkdirs, entering, order, pool, performed>>

Report(w) ==
  /\ At(w, "report")
  /\ worker[w].parents = {}
  /\ status' = [status EXCEPT ![Op(w)] = IF worker[w].errors = 0 THEN "complete"
                                         ELSE IF Op(w) \in Batches THEN "partial" ELSE "error"]
  /\ Moves(w, Idle)
  /\ UNCHANGED <<planning, group, mkdirs, entering, order, pool, history>>

(* DropboxBrowser.shutdown: rclone first, which kills its commands and lets *)
(* no other one succeed, and this manager afterwards.                       *)
Shutdown ==
  \/ /\ shutdown = "no" /\ shutdown' = "rclone"
     /\ UNCHANGED <<status, planning, group, mkdirs, entering, order, queue, sentinels,
                    timers, due, worker, history>>
  \/ /\ shutdown = "rclone" /\ shutdown' = "all"
     /\ sentinels' = Cardinality(Workers)
     /\ timers' = {}
     /\ UNCHANGED <<status, planning, group, mkdirs, entering, order, queue, due, worker,
                    history>>

Run(w) == \/ Take(w) \/ Quit(w) \/ Start(w) \/ Execute(w) \/ Own(w) \/ Make(w) \/ Follow(w)
          \/ Settle(w) \/ Arm(w) \/ Refresh(w) \/ Report(w)

Next ==
  \/ TreeChanges
  \/ \E p \in Plans : StartPlan(p) \/ EndPlan(p)
  \/ \E o \in Batches, p \in Plans : Confirm(o, p)
  \/ \E o \in Ops : Submit(o) \/ Put(o)
  \/ \E w \in Workers : Run(w)
  \/ \E j \in timers : Fire(j)
  \/ \E j \in due : PutAgain(j)
  \/ Shutdown

Spec == Init /\ [][Next]_vars

(* Request threads finish submit, workers run (every rclone command ends,    *)
(* by its own timeout), and timers fire.                                    *)
FairSpec ==
  /\ Spec
  /\ \A o \in Ops : WF_vars(Put(o))
  /\ \A w \in Workers : WF_vars(Run(w))
  /\ WF_vars(\E j \in timers : Fire(j))
  /\ WF_vars(\E j \in due : PutAgain(j))

-----------------------------------------------------------------------------
(* Properties                                                               *)

(* Where the jobs of operation o are.                                       *)
Held(o, pcs) == {w \in Workers : worker[w].pc \in pcs /\ Op(w) = o}
Queued(o) == {j \in queue \cup due : j.op = o}
Ticking(o) == {j \in timers : j.op = o}
Working == {"copy", "chain", "make", "settle"}

TypeOK ==
  /\ status \in [Ops -> {"new", "running"} \cup Final]
  /\ plan \in [Plans -> {"none", "scanning", "ready", "failed", "expired", "used"}]
  /\ planned \in [Plans -> [tree: Nat, items: Finds \cup {<<>>}]] /\ tree \in Nat
  /\ origin \in [Batches -> Plans \cup {None}]
  /\ \A o \in Ops : group[o] # None => group[o].running \in Nat /\ group[o].retries \in Nat
  /\ mkdirs \in [Ops -> [Folders -> {"none", "doing", "made", "failed"}]]
  /\ queue \subseteq Job /\ timers \subseteq Job /\ due \subseteq Job
  /\ order \in Nat /\ sentinels \in 0..Cardinality(Workers)
  /\ performed \subseteq Ops \X Items /\ stale \subseteq Ops \X Folders

(* What the group g of operation o has counted is where the jobs of o are.  *)
Unstarted(o) == Cardinality(Queued(o)) + Len(entering[o]) + Cardinality(Held(o, {"got"}))
Retrying(o) == Cardinality(Ticking(o)) + Cardinality(Held(o, {"arm"}))
Balanced(o, g) ==
  /\ g.running = Cardinality(Held(o, Working))
  /\ IF shutdown = "all" THEN g.retries >= Retrying(o) ELSE g.retries = Retrying(o)
  /\ g.total = g.completed + g.running + g.retries + Unstarted(o)

(* Every job of an open operation is counted exactly once: it is done, out   *)
(* with a worker, waiting in the queue, or waiting for its timer; only a     *)
(* shutdown may lose a retry.  (completed, running and pending_retries are   *)
(* changed by workers, timers and request threads in any order.)            *)
Accounted == \A o \in Ops : group[o] # None => Balanced(o, group[o])

(* An operation is reported once, after the last of its jobs: no job of it   *)
(* is waiting, running or to be retried when the browser reads "complete".  *)
ReportedLast ==
  \A o \in Ops : status[o] \in Final =>
    /\ group[o] = None /\ entering[o] = <<>> /\ Queued(o) = {} /\ Ticking(o) = {}
    /\ Held(o, Working \cup {"got", "arm", "report"}) = {}

(* In one operation no two workers make the same Dropbox folder, and a       *)
(* folder is made only after all the folders above it ("mkdir" once each).  *)
MadeOnceInOrder ==
  \A w \in Workers : At(w, "make") =>
    /\ \A v \in Workers \ {w} : At(v, "make") /\ Op(v) = Op(w) => Target(v) # Target(w)
    /\ \A d \in 1..(worker[w].depth - 1) : mkdirs[Op(w)][SubSeq(Item(w), 1, d)] = "made"

(* "Sync complete" and "Batch sync complete" say that every item was copied  *)
(* and every folder made, whichever worker made it; an operation with an     *)
(* error anywhere is reported with it.                                      *)
Achieved(o, i) == IF Kind[i] = "mkdir" THEN mkdirs[o][i] = "made" ELSE <<o, i>> \in performed
CompleteIsDone ==
  \A o \in Ops : status[o] = "complete" => \A i \in ToSet(Wanted(o)) : Achieved(o, i)

(* By the time an operation is reported, no folder that it changed, even by  *)
(* a job that failed, has a listing or metadata from before the change: the  *)
(* browser refreshes on that report.                                        *)
ReportedFresh == \A o \in Ops : status[o] \in Final => \A f \in Folders : <<o, f>> \notin stale

(* A confirmed plan is copied once, however often it is confirmed.           *)
PlanUsedOnce ==
  \A a, b \in Batches : a # b /\ origin[a] # None => origin[a] # origin[b]

(* What a batch copies was planned from the trees as they are when it is     *)
(* confirmed: "/sync-batch ... recomputes the plan" as "deliberate           *)
(* protection against a changed remote/local tree" (docs/sync-and-rclone.md).*)
PlanIsCurrent == [][\A o \in Batches : status[o] = "new" /\ status'[o] # "new"
                      => planned[origin[o]].tree = tree]_vars

(* An operation that was accepted ends, unless the server is shut down       *)
(* ("should keep running once accepted"): workers that wait for another one  *)
(* to make a folder are woken, and retries come to an end.                  *)
AcceptedEnds ==
  \A o \in Ops : (status[o] = "running") ~> (status[o] \in Final \/ shutdown # "no")
=============================================================================
