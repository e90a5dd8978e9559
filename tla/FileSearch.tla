----------------------------- MODULE FileSearch -----------------------------
(***************************************************************************)
(* The file-search pane: file-search.js and file-search-api.js.             *)
(*                                                                         *)
(* A search takes the browsed folder and the criteria, opens a session on   *)
(* the server with its first request and polls it for batches of results.   *)
(* The session scans the cached folders once; every batch is handed out     *)
(* once.  A scan that met a folder without a cached listing leaves its      *)
(* session pending, and the page polls it for as long as it is there.  The  *)
(* user can stop, change the criteria or leave the pane at any time; a      *)
(* request that is aborted may still be answered.                           *)
(***************************************************************************)
EXTENDS Integers, FiniteSets

CONSTANTS
  Paths,      \* folders that can be browsed
  Queries,    \* criteria that are not empty
  Matches,    \* Matches[p][q]: what the scan of p finds for q
  None,       \* empty criteria, no folder, no session
  MaxStale    \* bound: aborted requests that may still be answered

Rows == UNION {Matches[p][q] : p \in Paths, q \in Queries}
Session == [path : Paths, query : Queries, left : SUBSET Rows]
Scans == {"running", "done", "pending"}

VARIABLES
  browsed,    \* the current folder of the page
  criteria,   \* what the fields say
  pane,       \* isActive
  active,     \* state.searchActive
  root,       \* state.searchRootPath
  session,    \* state.sessionId, with what its server session still holds
  loaded,     \* state.snapshotLoaded
  raw,        \* state.rawResults
  more,       \* the last status asks for another poll
  request,    \* the newest request: None or the session it reads (its own, if new)
  stale,      \* the sessions read by requests of earlier versions
  timer,      \* pollTimer
  scan        \* the server's scan for the search that runs: it is running, is
              \* done, or has ended with folders pending

vars == <<browsed, criteria, pane, active, root, session, loaded, raw, more, request, stale, timer,
          scan>>
fields == <<browsed, criteria, pane>>
snapshot == <<session, loaded, raw, more>>

(* What the proofs and MCParts assume of the constants.                     *)
NoneIsNothing == None \notin Paths /\ None \notin Queries /\ None \notin Session

TypeOK ==
  /\ browsed \in Paths /\ criteria \in Queries \cup {None} /\ root \in Paths \cup {None}
  /\ {pane, active, loaded, more, timer} \subseteq BOOLEAN
  /\ {session, request} \subseteq Session \cup {None}
  /\ raw \subseteq Rows /\ stale \subseteq Session /\ Cardinality(stale) <= MaxStale
  /\ scan \in Scans

Init ==
  /\ browsed \in Paths /\ criteria = None /\ pane \in BOOLEAN
  /\ active = FALSE /\ root = None
  /\ session = None /\ loaded = FALSE /\ raw = {} /\ more = FALSE
  /\ request = None /\ stale = {} /\ timer = FALSE /\ scan = "running"

-----------------------------------------------------------------------------
(* Slip: only the poll timer is stopped.                                    *)
AbortTimer == timer' = FALSE /\ UNCHANGED <<request, stale>>

(* invalidateRequests and abortActiveRequest                                *)
Abort ==
  /\ stale' = stale \cup ({request} \ {None}) /\ Cardinality(stale') <= MaxStale
  /\ request' = None /\ timer' = FALSE
(* stopSearchRun: the session is given up (and cancelled if it is running). *)
StopRun == active' = FALSE /\ session' = None
(* resetSnapshot                                                            *)
ResetSnapshot == session' = None /\ loaded' = FALSE /\ raw' = {} /\ more' = FALSE

(* startSearchRun with loadSnapshot: the Search button or Enter.            *)
Start ==
  /\ pane /\ ~active
  /\ IF criteria = None
     THEN ResetSnapshot /\ UNCHANGED <<active, root, request, stale, timer, scan>>
     ELSE /\ ResetSnapshot
          /\ active' = TRUE /\ root' = browsed
          /\ stale' = stale \cup ({request} \ {None}) /\ Cardinality(stale') <= MaxStale
          /\ request' = [path |-> browsed, query |-> criteria, left |-> Matches[browsed][criteria]]
          /\ timer' = FALSE /\ scan' = "running"
  /\ UNCHANGED fields
(* The same button while a search runs: the results so far stay.            *)
Stop ==
  /\ pane /\ active
  /\ Abort /\ StopRun
  /\ UNCHANGED <<fields, root, loaded, raw, more, scan>>

(* applyFiltersNow: any change of the fields ends the search and its results. *)
Change(q) ==
  /\ pane /\ criteria' = q
  /\ \/ /\ q = None \/ active \/ loaded
        /\ Abort /\ active' = FALSE /\ ResetSnapshot
     \/ /\ q # None /\ ~active /\ ~loaded
        /\ UNCHANGED <<snapshot, active, request, stale, timer>>
  /\ UNCHANGED <<browsed, pane, root, scan>>
(* The Reset button                                                         *)
Reset ==
  /\ pane /\ criteria' = None
  /\ Abort /\ active' = FALSE /\ ResetSnapshot /\ root' = None
  /\ UNCHANGED <<browsed, pane, scan>>

(* bottom-pane-mode-changed and browse-folder-changed                       *)
LeavePane ==
  /\ pane /\ pane' = FALSE
  /\ Abort /\ StopRun
  /\ UNCHANGED <<browsed, criteria, root, loaded, raw, more, scan>>
EnterPane ==
  /\ ~pane /\ pane' = TRUE
  /\ UNCHANGED <<browsed, criteria, active, root, snapshot, request, stale, timer, scan>>
Navigate(p) ==
  /\ p # browsed /\ browsed' = p
  /\ UNCHANGED <<criteria, pane, active, root, snapshot, request, stale, timer, scan>>

(* schedulePoll's timer: loadSnapshot reads the session again.              *)
Poll ==
  /\ timer /\ timer' = FALSE
  /\ request' = session
  /\ UNCHANGED <<fields, active, root, snapshot, stale, scan>>

(* The scan of the session ends.                                            *)
ScanEnds ==
  /\ active /\ scan = "running"
  /\ scan' \in {"done", "pending"}
  /\ UNCHANGED <<fields, active, root, snapshot, request, stale, timer>>

(* The newest request is answered with a batch, which is merged; once the   *)
(* scan has ended a batch is empty only when nothing is left.  The search   *)
(* ends with the last batch of a scan that is done, and polls on otherwise. *)
Over(batch) == scan = "done" /\ batch = request.left
Answer(batch) ==
  /\ request # None /\ batch \subseteq request.left
  /\ scan # "running" /\ request.left # {} => batch # {}
  /\ raw' = raw \cup batch /\ loaded' = TRUE /\ more' = ~Over(batch)
  /\ request' = None /\ timer' = (more' /\ active)
  /\ active' = (more' /\ active)
  /\ session' = IF more' THEN [request EXCEPT !.left = @ \ batch] ELSE None
  /\ UNCHANGED <<fields, root, stale, scan>>
(* A request of an earlier version is answered: nothing happens.            *)
StaleAnswer(r) ==
  /\ r \in stale /\ stale' = stale \ {r}
  /\ UNCHANGED <<fields, active, root, snapshot, request, timer, scan>>
(* Slip: the error is shown and the search goes on without a request.       *)
FailOpenly ==
  /\ request # None /\ request' = None /\ timer' = FALSE
  /\ UNCHANGED <<fields, active, root, snapshot, stale, scan>>
(* renderError: the search and its results end.                             *)
Fail ==
  /\ request # None /\ request' = None
  /\ timer' = FALSE /\ active' = FALSE /\ ResetSnapshot
  /\ UNCHANGED <<fields, root, stale, scan>>

Answered == \E batch \in SUBSET Rows : Answer(batch)
Next ==
  \/ Start \/ Stop \/ Reset \/ LeavePane \/ EnterPane
  \/ \E q \in Queries \cup {None} : q # criteria /\ Change(q)
  \/ \E p \in Paths : Navigate(p)
  \/ Poll \/ ScanEnds \/ Answered
  \/ (\E r \in stale : StaleAnswer(r)) \/ Fail

Spec == Init /\ [][Next]_vars
(* Timers fire, a request is answered or fails, and the scan's thread comes *)
(* to the end of the folders.                                               *)
FairSpec == Spec /\ WF_vars(Poll) /\ WF_vars(Answered \/ Fail) /\ WF_vars(ScanEnds)

-----------------------------------------------------------------------------
(* The results shown are the search's: they match its folder and its query  *)
(* however many searches were started, stopped and aborted before it, and   *)
(* when the pane says the search is complete no batch is missing.           *)
ResultsAreSearchs ==
  /\ raw # {} \/ loaded => root # None /\ criteria # None
  /\ raw # {} => raw \subseteq Matches[root][criteria]
  /\ loaded /\ ~more => raw = Matches[root][criteria]

(* Every search ends, or shows all that its scan has found: one whose scan  *)
(* left folders pending goes on polling a session that has nothing left.    *)
Searching == active
Settled == ~active \/ (scan = "pending" /\ raw = Matches[root][criteria])
SearchSettles == Searching ~> Settled

(* What keeps ResultsAreSearchs: a request or a session that is still       *)
(* listened to belongs to the folder and the query that are shown, and what *)
(* it still holds is exactly what the results lack.                         *)
Shown == Matches[root][criteria]

(* A session of the search that is shown; it holds what is not shown yet.   *)
Reads(s) ==
  /\ s \in Session /\ s.path = root /\ s.query = criteria
  /\ raw \cup s.left = Shown

(* Requests and sessions are those of a running search, which then has a    *)
(* folder and a query; a timer polls a session nobody is reading.           *)
ListenedTo ==
  /\ request # None => active /\ Reads(request)
  /\ session # None => active /\ Reads(session)
  /\ timer => session # None /\ request = None
  /\ active => root \in Paths /\ criteria \in Queries /\ (loaded => more)

(* Results are those of a search that was answered.                         *)
ResultsLoaded ==
  /\ raw # {} => loaded
  /\ loaded => root \in Paths /\ criteria \in Queries /\ raw \subseteq Shown
  /\ loaded /\ ~more => raw = Shown

Typed ==
  /\ browsed \in Paths /\ criteria \in Queries \cup {None}
  /\ {pane, active, loaded, more, timer} \subseteq BOOLEAN

IInv == Typed /\ ListenedTo /\ ResultsLoaded
=============================================================================
