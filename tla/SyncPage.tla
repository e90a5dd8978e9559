------------------------------ MODULE SyncPage ------------------------------
(***************************************************************************)
(* The sync controls of the folder view (assets/js/sync.js) over the server *)
(* of SyncJobs: the page posts one operation at a time, polls its status,   *)
(* and refreshes the rows in place when it is over.                        *)
(*                                                                         *)
(* The server's own steps are those of SyncJobs; what a request starts is   *)
(* conjoined with the page's request.  Requests are refused and responses   *)
(* are lost; a status poll that fails is repeated.                          *)
(***************************************************************************)
EXTENDS SyncJobs

CONSTANT MaxPosts  \* bound: requests that the page posts

ASSUME PostsAreBounded == MaxPosts \in Nat
ASSUME NoOperation == None \notin Ops

VARIABLES
  posts,      \* requests posted
  busy,       \* syncBusyCount > 0: the buttons are disabled
  post,       \* the POST on its way, or None
  follow,     \* the operation or plan whose status is polled, or None
  dialog,     \* the plan in the confirmation dialog (pendingBatch), or None
  away,       \* the user has left the folder where the operation started
  refreshing, \* the operation whose refresh in place is on its way, or None
  refreshed,  \* history: operations whose refresh was answered
  behind,     \* history: pairs of an operation and a folder it changed that
              \* the rows on the screen do not show
  listing,    \* the operations whose changes the lsjson of the page's folder
              \* in flight does not show, or None if there is none
  cached,     \* the same of the listing kept of that folder, if one is kept
  overtaken   \* history: operations whose invalidation found such an lsjson
              \* in flight

request == <<posts, busy, post, follow>>
kept == <<listing, cached, overtaken>>
view == <<away, refreshing, refreshed, behind, kept>>
pageVars == <<request, dialog, view>>
allVars == <<vars, pageVars>>

Page == <<>>  \* the folder that is shown: the root

(* Type correctness of the page.                                            *)
PageTypeOK ==
  /\ TypeOK
  /\ posts \in 0..MaxPosts /\ busy \in BOOLEAN /\ away \in BOOLEAN
  /\ post = None \/ post \in [op : Ops \cup {None}, plan : Plans \cup {None},
                             at : {"sent", "confirmed", "accepted", "refused"}]
  /\ follow \in Ops \cup Plans \cup {None}
  /\ dialog \in Plans \cup {None}
  /\ refreshing \in Ops \cup {None} /\ refreshed \subseteq Ops
  /\ behind \subseteq Ops \X (Folders \cup {Page})
  /\ listing = None \/ listing \subseteq Ops
  /\ cached \subseteq Ops /\ overtaken \subseteq Ops

PageInit ==
  /\ Init
  /\ posts = 0 /\ busy = FALSE /\ post = None /\ follow = None /\ dialog = None
  /\ away = FALSE /\ refreshing = None /\ refreshed = {} /\ behind = {}
  /\ listing = None /\ cached = {} /\ overtaken = {}

-----------------------------------------------------------------------------
(* The page starts an operation                                             *)

Posts(o, p) ==
  /\ ~busy /\ posts < MaxPosts
  /\ busy' = TRUE /\ posts' = posts + 1
  /\ post' = [op |-> o, plan |-> p, at |-> "sent"]
  /\ UNCHANGED <<follow, view, vars>>

(* A sync form is submitted.                                                *)
CopyFile(o) == status[o] = "new" /\ Posts(o, None) /\ UNCHANGED dialog
(* openBatchConfirm                                                         *)
PlanBatch(p) == plan[p] = "none" /\ Posts(None, p) /\ UNCHANGED dialog
(* The Run button of the dialog, which is then hidden; it is disabled when  *)
(* there is nothing to copy (renderPlan).                                   *)
RunBatch(o) ==
  /\ dialog # None /\ planned[dialog].items # <<>>
  /\ origin[o] = None /\ Posts(o, dialog) /\ dialog' = None
CancelBatch == dialog # None /\ ~busy /\ dialog' = None /\ UNCHANGED <<request, view, vars>>

-----------------------------------------------------------------------------
(* The server                                                               *)

(* The operations that changed the page's folder in this step.              *)
Changing ==
  {o \in Ops : /\ <<o, Page>> \in stale'
               /\ \E w \in Workers : /\ worker[w].pc \in {"copy", "make"} /\ Op(w) = o
                                     /\ worker'[w] # worker[w]}
InFlight == IF listing = None THEN {} ELSE listing

(* What the rows miss grows with each change of a folder, and so does what   *)
(* an lsjson in flight misses.  An invalidation drops the listing that is    *)
(* kept and leaves the lsjson alone (ListingCacheManager.invalidate).        *)
Noticed ==
  /\ behind' = behind \cup (stale' \ stale)
  /\ listing' = IF listing = None THEN None ELSE listing \cup Changing
  /\ IF \E w \in Workers : Refresh(w)
       THEN cached' = {} /\ overtaken' = overtaken \cup InFlight
       ELSE UNCHANGED <<cached, overtaken>>
PageWaits == UNCHANGED <<request, dialog, away, refreshing, refreshed>>

Serving(to) == post' = [post EXCEPT !.at = to] /\ UNCHANGED <<posts, busy, follow, dialog, view>>
IsAt(stage) == post # None /\ post.at = stage

(* POST /sync, /sync-batch-plan and /sync-batch: the last one takes the     *)
(* plan and then submits its operations.                                    *)
Serve ==
  \/ IsAt("sent") /\ post.plan = None /\ Submit(post.op) /\ Serving("accepted")
  \/ IsAt("sent") /\ post.op = None /\ StartPlan(post.plan) /\ Serving("accepted")
  \/ IsAt("sent") /\ None \notin {post.op, post.plan} /\ Confirm(post.op, post.plan)
     /\ Serving("confirmed")
  \/ IsAt("confirmed") /\ Submit(post.op) /\ Serving("accepted")
(* A gate is off, the plan has expired, or the request does not arrive.      *)
Refuse == IsAt("sent") /\ Serving("refused") /\ UNCHANGED vars

(* The server's threads, which no page waits for.                           *)
Background ==
  \/ TreeChanges
  \/ \E p \in Plans : EndPlan(p)
  \/ \E o \in Ops : Put(o)
  \/ \E w \in Workers : Run(w)
  \/ \E j \in timers : Fire(j)
  \/ \E j \in due : PutAgain(j)
  \/ Shutdown

-----------------------------------------------------------------------------
(* The page hears of it                                                     *)

Released == busy' = FALSE /\ follow' = None

(* The response of the POST, or an error in its place.                      *)
Answered ==
  /\ IsAt("accepted")
  /\ post' = None
  /\ follow' = IF post.op = None THEN post.plan ELSE post.op
  /\ UNCHANGED <<posts, busy, dialog, view, vars>>
PostFails ==
  /\ IsAt("accepted") \/ IsAt("refused")
  /\ post' = None /\ Released
  /\ UNCHANGED <<posts, dialog, view, vars>>

(* Slip: the rows are refreshed while the operation still runs.             *)
PolledEarly ==
  /\ follow \in Ops /\ status[follow] \in Final \cup {"running"}
  /\ Released
  /\ refreshing' = IF away THEN refreshing ELSE follow
  /\ UNCHANGED <<posts, post, dialog, away, refreshed, behind, kept, vars>>
(* Slip: an operation some of whose files failed is not taken for ended.    *)
PolledComplete ==
  /\ follow \in Ops /\ status[follow] \in Final \ {"partial"}
  /\ Released
  /\ refreshing' = IF status[follow] = "error" \/ away THEN refreshing ELSE follow
  /\ UNCHANGED <<posts, post, dialog, away, refreshed, behind, kept, vars>>

(* pollStatus; refreshAfterSync leaves the rows alone if another folder is   *)
(* shown by now (expectedPath), and if the operation as a whole failed.      *)
Polled ==
  /\ follow \in Ops /\ status[follow] \in Final
  /\ Released
  /\ refreshing' = IF status[follow] = "error" \/ away THEN refreshing ELSE follow
  /\ UNCHANGED <<posts, post, dialog, away, refreshed, behind, kept, vars>>

(* pollPlanStatus gives up when a poll fails.                               *)
PlanPolled ==
  /\ follow \in Plans
  /\ \/ plan[follow] \in {"ready", "expired"} /\ dialog' = follow
     \/ plan[follow] = "failed" /\ dialog' = dialog
     \/ dialog' = dialog
  /\ Released
  /\ UNCHANGED <<posts, post, view, vars>>

(* Another tab has the page's folder listed.                                *)
ListBegins ==
  /\ listing = None /\ listing' = {}
  /\ UNCHANGED <<request, dialog, away, refreshing, refreshed, behind, cached, overtaken,
                 vars>>
(* What an lsjson returns is kept, whatever was invalidated meanwhile.      *)
ListEnds ==
  /\ listing # None /\ cached' = listing /\ listing' = None
  /\ UNCHANGED <<request, dialog, away, refreshing, refreshed, behind, overtaken, vars>>

(* A refresh is an ordinary listing: it reads what is kept, joins the lsjson *)
(* in flight, or starts one.  (What the server's caches hold of changes not  *)
(* invalidated yet is in stale.)                                            *)
Shown(missed) ==
  /\ refreshed' = refreshed \cup {refreshing}
  /\ behind' = stale \cup (missed \X {Page})
(* One that fails leaves the rows, or shows the last good listing labelled   *)
(* as out of date.                                                          *)
RefreshAnswered ==
  /\ refreshing # None
  /\ refreshing' = None
  /\ \/ \E missed \in {cached, InFlight, {}} : Shown(missed)
     \/ refreshed' = {} /\ behind' = Ops \X Folders
     \/ UNCHANGED <<refreshed, behind>>
  /\ UNCHANGED <<request, dialog, away, kept, vars>>

(* The user goes to another folder; the refresh is superseded.              *)
Leave ==
  /\ ~away
  /\ away' = TRUE /\ refreshing' = None
  /\ UNCHANGED <<request, dialog, refreshed, behind, kept, vars>>

PageNext ==
  \/ \E o \in Singles : CopyFile(o)
  \/ \E p \in Plans : PlanBatch(p)
  \/ \E o \in Batches : RunBatch(o)
  \/ CancelBatch
  \/ Serve \/ Refuse
  \/ Background /\ PageWaits /\ Noticed
  \/ Answered \/ PostFails \/ Polled \/ PlanPolled \/ RefreshAnswered \/ Leave
  \/ ListBegins \/ ListEnds

PageSpec == PageInit /\ [][PageNext]_allVars

(* The server's threads run as in SyncJobs and a scan for a plan ends; a     *)
(* request is answered or fails, and status polls go on.                    *)
PageFairSpec ==
  /\ PageSpec
  /\ \A o \in Ops : WF_allVars(Put(o) /\ PageWaits /\ Noticed)
  /\ \A w \in Workers : WF_allVars(Run(w) /\ PageWaits /\ Noticed)
  /\ WF_allVars((\E j \in timers : Fire(j)) /\ PageWaits /\ Noticed)
  /\ WF_allVars((\E j \in due : PutAgain(j)) /\ PageWaits /\ Noticed)
  /\ \A p \in Plans :
       WF_allVars(plan[p] = "scanning" /\ EndPlan(p) /\ PageWaits /\ Noticed)
  /\ WF_allVars(Serve \/ Refuse) /\ WF_allVars(Answered \/ PostFails)
  /\ WF_allVars(Polled) /\ WF_allVars(PlanPolled)

-----------------------------------------------------------------------------
(* Once refreshed for an operation, the rows show everything it changed in   *)
(* the page's folder: "a normal (non-?refresh=1) listing returns fresh       *)
(* statuses" (refreshAfterSync), because the server has invalidated what it  *)
(* keeps before it reports.  That covers what is kept, not what is under     *)
(* way: rows can miss a change when an lsjson begun before it was still in   *)
(* flight at the invalidation, which the refresh joins or finds kept.        *)
RowsAreFresh == \A o \in refreshed \ overtaken : <<o, Page>> \notin behind

(* The page ends being busy unless the server is shut down.                 *)
BusyEnds == busy ~> (~busy \/ shutdown # "no")
=============================================================================
