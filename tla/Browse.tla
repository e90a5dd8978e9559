------------------------------- MODULE Browse -------------------------------
(***************************************************************************)
(* The folder view of the browser: browse/main.js, with the snapshot of    *)
(* browse/state.js, the folder-info pollers of browse/folder-info.js and    *)
(* the refreshes that refresh.js, sync.js and the listing banner ask for.   *)
(*                                                                         *)
(* A navigation replaces the rows by a loading row, fetches the listing and *)
(* then pushes its history entry.  A refresh in place keeps the rows while  *)
(* it fetches.  Filters and sorting redraw the rows that are in memory and  *)
(* write history entries of their own.                                      *)
(***************************************************************************)
EXTENDS Naturals, Sequences

CONSTANTS
  Folders,     \* folders that are visited
  None,        \* nothing
  MaxVersion,  \* bound: listings that are fetched
  MaxEntries   \* bound: history entries

VARIABLES
  path,     \* state.path
  phase,    \* state.loading and state.error
  rows,     \* state.rows: the folder and the fetch they come from
  drawn,    \* what the table shows: "rows", "loading" or "error"
  version,  \* requestVersion
  loads,    \* listing fetches whose answer has not been handled
  pollers,  \* fetches whose folder-info poller is not stopped
  entries,  \* the folders in the addresses of the history
  at,       \* the current history entry
  timer,    \* filterUrlTimer is set
  told      \* the folder that browse-folder-changed last announced

vars == <<path, phase, rows, drawn, version, loads, pollers, entries, at, timer, told>>
history == <<entries, at>>
table == <<path, phase, rows, drawn>>
fetching == <<version, loads, pollers, told>>

Loads == [version : 1..MaxVersion, path : Folders, from : Folders,
          history : {"push", "replace", "none"}, inPlace : BOOLEAN]

(* Type correctness of the folder view.                                     *)
TypeOK ==
  /\ path \in Folders /\ told \in Folders
  /\ phase \in {"loading", "ready", "error"} /\ drawn \in {"rows", "loading", "error"}
  /\ rows \in [of : Folders \cup {None}, fetch : 0..MaxVersion]
  /\ version \in 1..MaxVersion /\ loads \subseteq Loads /\ pollers \subseteq 1..MaxVersion
  /\ entries \in Seq(Folders) /\ at \in 1..Len(entries) /\ timer \in BOOLEAN

Load(f, from, mode, inPlace) ==
  [version |-> version + 1, path |-> f, from |-> from, history |-> mode, inPlace |-> inPlace]

(* initBrowse: the listing of the folder in the address.                    *)
Init ==
  /\ path \in Folders /\ phase = "loading" /\ drawn = "loading"
  /\ rows = [of |-> None, fetch |-> 0]
  /\ version = 1 /\ pollers = {}
  /\ loads = {[version |-> 1, path |-> path, from |-> path, history |-> "replace",
               inPlace |-> FALSE]}
  /\ entries = <<path>> /\ at = 1 /\ timer = FALSE /\ told = path

-----------------------------------------------------------------------------
(* pushBrowseHistoryEntry: the entries after the current one are dropped.   *)
Push(f) ==
  /\ at < MaxEntries
  /\ entries' = Append(SubSeq(entries, 1, at), f) /\ at' = at + 1
(* replaceBrowseHistoryEntry                                                *)
Replace(f) == entries' = [entries EXCEPT ![at] = f] /\ at' = at

WriteHistory(mode, f) ==
  \/ mode = "push" /\ Push(f)
  \/ mode = "replace" /\ Replace(f)
  \/ mode = "none" /\ UNCHANGED history

(* loadBrowseState for a navigation: stopActiveWork ends the poller and the *)
(* filter timer and aborts the fetch on its way, which may have been        *)
(* answered; renderLoading takes the new path before its rows are known.    *)
Navigate(f, mode) ==
  /\ version < MaxVersion
  /\ version' = version + 1
  /\ loads' \in {loads \cup {Load(f, path, mode, FALSE)}, {Load(f, path, mode, FALSE)}}
  /\ pollers' = {} /\ timer' = FALSE
  /\ path' = f /\ phase' = "loading" /\ drawn' = "loading"
  /\ UNCHANGED <<rows, told>>

(* A folder link; none is intercepted while a listing loads.                *)
Click == phase # "loading" /\ \E f \in Folders : Navigate(f, "push") /\ UNCHANGED history

(* popstate: Back and Forward work at any time.                             *)
Traverse ==
  \E i \in DOMAIN entries \ {at} :
    at' = i /\ entries' = entries /\ Navigate(entries[i], "none")

(* Slip: a refresh supersedes a navigation that is loading.                 *)
RefreshAnyway ==
  /\ version < MaxVersion
  /\ version' = version + 1
  /\ loads' = {Load(path, path, "none", TRUE)}
  /\ UNCHANGED <<table, pollers, history, timer, told>>

(* refreshCurrentFolderInPlace: a navigation that is loading stands in for  *)
(* it.  The pollers go on for the rows that stay on the screen.             *)
Refresh ==
  /\ phase # "loading"
  /\ version < MaxVersion
  /\ version' = version + 1
  /\ loads' \in {loads \cup {Load(path, path, "none", TRUE)}, {Load(path, path, "none", TRUE)}}
  /\ UNCHANGED <<table, pollers, history, timer, told>>

IsNewest(l) == l.version = version

(* The listing of a refresh in place stops the pollers of the rows that it  *)
(* replaces (stopFolderPolling); a navigation did so when it started.       *)
KeptPollers(l) == IF l.inPlace THEN {} ELSE pollers

(* renderSnapshot and what follows it; the listing may leave nothing to     *)
(* poll for.                                                                *)
Listed ==
  \E l \in loads :
    /\ IsNewest(l)
    /\ loads' = loads \ {l}
    /\ path' = l.path /\ phase' = "ready" /\ drawn' = "rows"
    /\ rows' = [of |-> l.path, fetch |-> l.version]
    /\ \E more \in {{}, {l.version}} :
         pollers' = KeptPollers(l) \cup more
    /\ told' = IF l.from = l.path THEN told ELSE l.path
    /\ WriteHistory(l.history, l.path)
    /\ UNCHANGED <<version, timer>>

(* A failed refresh in place leaves the rows and shows the banner.          *)
ListingFails ==
  \E l \in loads :
    /\ IsNewest(l)
    /\ loads' = loads \ {l}
    /\ IF l.inPlace THEN UNCHANGED <<phase, drawn>> ELSE phase' = "error" /\ drawn' = "error"
    /\ UNCHANGED <<path, rows, version, pollers, history, timer, told>>

(* An answer of a fetch that another one replaced.                          *)
Overtaken ==
  \E l \in loads : ~IsNewest(l) /\ loads' = loads \ {l}
                   /\ UNCHANGED <<table, version, pollers, history, timer, told>>

(* A folder-info answer patches the rows in memory and may redraw them.     *)
Polled ==
  \E p \in pollers :
    /\ \E rest \in {pollers, pollers \ {p}} : pollers' = rest
    /\ drawn' \in {drawn, "rows"}
    /\ UNCHANGED <<path, phase, rows, version, loads, history, timer, told>>

-----------------------------------------------------------------------------
(* renderAndRefresh draws the rows in memory, whatever the table showed.    *)
Redraw == drawn' = "rows" /\ UNCHANGED <<path, phase, rows>>

(* applyFilterChange with "push", or the filter bar that is hidden.         *)
Filter == Redraw /\ timer' = FALSE /\ Push(path) /\ UNCHANGED fetching
(* Text is typed into the filter: the address follows 300 ms later.         *)
Type == Redraw /\ timer' = TRUE /\ UNCHANGED <<fetching, history>>
(* The first text below a folder gets an entry of its own.                  *)
FilterTimer ==
  /\ timer
  /\ timer' = FALSE
  /\ \E mode \in {"push", "replace"} : WriteHistory(mode, path)
  /\ UNCHANGED <<fetching, table>>
(* A heading is clicked.                                                    *)
Sort == phase # "loading" /\ Redraw /\ Push(path) /\ UNCHANGED <<fetching, timer>>

Next ==
  \/ Click \/ Traverse \/ Refresh \/ Listed \/ ListingFails \/ Overtaken \/ Polled
  \/ Filter \/ Type \/ FilterTimer \/ Sort

Spec == Init /\ [][Next]_vars
-----------------------------------------------------------------------------
(* While a folder loads that is not the one in the address, the fetch that  *)
(* will write its entry is the newest: no refresh supersedes a navigation   *)
(* and drops "its history push" (refreshCurrentFolderInPlace).              *)
PushIsPending ==
  phase = "loading" /\ entries[at] # path =>
    \E l \in loads : IsNewest(l) /\ l.path = path /\ l.history = "push"

(* A folder that is not loading and did not fail has its own rows in        *)
(* memory, from the newest fetch that was answered.                         *)
ReadyIsFolders == phase = "ready" => rows.of = path

(* A poller that still runs was started for the rows in memory: nobody      *)
(* patches the listing with the folders of another one.                     *)
PollersAreRows == pollers \subseteq {rows.fetch}

(* The address, the rows in memory and the pollers are the folder's.        *)
FolderIsShown == PushIsPending /\ ReadyIsFolders /\ PollersAreRows

(* What keeps it: the types,                                                *)
Typed ==
  /\ version \in Nat
  /\ \A l \in loads : l.version \in 1..version
  /\ entries \in Seq(Folders) /\ at \in 1..Len(entries) /\ path \in Folders
  /\ \A l \in loads : l.path \in Folders

(* Only one fetch is the newest.                                            *)
OneNewest == \A l, k \in loads : IsNewest(l) /\ IsNewest(k) => l = k

(* The fetch of a navigation finds no poller; while a folder loads the      *)
(* newest fetch is such a one.                                              *)
NavigationIsAlone ==
  \A l \in loads : IsNewest(l) =>
    /\ ~l.inPlace => pollers = {}
    /\ phase = "loading" => ~l.inPlace

IInv == Typed /\ OneNewest /\ NavigationIsAlone /\ FolderIsShown
=============================================================================
