# Verification of dropbox_browser in TLA+

dropbox_browser serves a Dropbox remote (through `rclone`) and an optional local
folder to a browser: listings with recursive sizes and diff status, copies in
both directions, search, music, video, photo map. It is a threaded Python
server with background workers and a JavaScript client. This directory holds
TLA+ models of the concurrent core of both halves, configurations that check them
with TLC, and proofs checked with TLAPS.

Paths below are relative to `src/dropbox_browser/`, JavaScript to its `assets/js/`, documents
to `src/docs/`.

## Inventory

| Component | State | Operations | What is hard | What makes it correct |
|---|---|---|---|---|
| Folder cache, write path (`foldercache.py`, `foldercache_records.py`, `cacheio.py`) | dirty marks, write epochs, record files, cutoffs of invalidated trees | mark, flush, `invalidate`, `invalidate_tree`, cleanup thread | file writes without the lock, several flushers, invalidation in between, restart | no update lost, nothing invalidated comes back, a file never goes backwards, changes reach the disk |
| Folder cache, computation (`foldercache.py`, `foldercache_state.py`, `foldercache_compute.py`, `folderdiff.py`) | ownership, active jobs, generations, page epochs, totals, pending children, contributions | `notify_page_load`, `request`, `ensure_known_subtree`, worker loop, `prime_direct_listing`, `invalidate` | children and parents finishing in any order, navigation, failures, stale listings | totals exact, complete means complete, one listing per folder, an owned folder has work, an open page settles |
| Folder-info polling (`handlers.py`, `assets/js/browse/folder-info.js`) | rows still polled, whether the page itself is watched | load, poll, stop | the tab stops asking when it believes it is done | the page settles although the tab stops |
| Priority queue (`priorityqueue.py`) | heap | put, get, remove | - | order of jobs |
| Sync jobs (`syncjobs.py`, `syncstate.py`) | groups, retries, folders being made, status | submit, run, retry, settle, shutdown | counters changed by workers and timers, waiting for another worker's mkdir, failures | jobs accounted for, reported once, last and truthfully; accepted operations end |
| Batch plans (`services.py`) | tokens and stored plans | plan, confirm, expire | tree changes before the confirmation | a plan is used once; it is current |
| Listings (`listingcache.py`, `services.py`) | memory and last-good listings | list, invalidate, clean up | a listing started before an invalidation is stored after it | after a sync no old listing is served |
| rclone client (`rclone.py`) | running processes, in-flight `lsjson` | run, retry, cancel, coalesce, shutdown | shutdown racing a start, joining an older command | no process survives shutdown; errors reach every waiter |
| Search sessions (`services.py`) | sessions, pending results | start, next batch, cancel, evict | lost responses, eviction | every result delivered once |
| Thumbnails (`thumbnails.py`, `video_thumbnails.py`) | in-flight table, files | ensure | the owner fails | one generation per key, waiters are woken |
| Media disk cache (`videocache.py`, `photo_map_cache.py`) | manifest, files | read, write, evict | overwriting a key | every manifest entry has its file, size limit |
| Video sessions (`video.py`, `video_burnin.py`) | sessions, reservations, tokens per client | create, stop, asset, expire | slow creation racing a stop, limit of sessions | no session outlives its stop, no ffmpeg leaks |
| Sync controls (`sync.js`, `refresh.js`) | busy count, the operation or plan that is polled, pending batch | post, poll, confirm, refresh | lost and refused requests, listings of other tabs, leaving the folder | the buttons come back; rows redrawn after a copy show it |
| Folder view (`browse/main.js`, `state.js`, `navigation.js`) | path, rows, request version, pollers, history | navigate, refresh in place, filter, sort, Back and Forward | a refresh or a history step overtakes a navigation | address, rows and pollers belong to one folder |
| Playlists (`media-library/playlist.js`, `playlist-store.js`) | active playlist, its saved signature, saved playlists, localStorage, dialogs | save, rename, load, delete, import, restore | a confirmation acts later than it was asked for; files of an import arrive one by one; writes to localStorage fail unnoticed, another tab writes the same key | what is shown as saved is saved |
| Playlist queue (`media-library/playlist.js`) | songs, current position, selection, drag, what is painted | add, remove, drag, play, hide, show | events between those of a drag; painting deferred while hidden | the marked row is the song that is heard; the screen catches up |
| Music playback (`music/playback.js`, `shuffle-helpers.js`) | current, shuffle order and cursor, retries | play, next, previous, end, fail, retry, edit | edits and toggles after the order was built; a retry waiting while the song changes | the walk stands at the song; a retry is the current song's |
| Now playing (`music/metadata.js`, `media-library/media-session.js`) | metadata loads, cover, owner and snapshots of the media card | load, update, claim, release | late metadata; music and video share one card | the card is its owner's |
| Library pane (`media-library/library.js`) | folder, snapshot, timer, visibility | load, poll, answer, hide, show | answers while hidden or for another folder | an incomplete library is polled, a visible pane is current |
| File search (`file-search.js`; sessions in `services.py`) | criteria, session, results, request, timer | start, stop, change, poll, answer | late answers; a batch is handed out once; a scan that leaves folders pending is not repeated | results are the search's; a search ends or shows all that its scan found |
| Video pane (`video/compatibility.js`, `playback.js`, `pane.js`, `controls.js`) | active item, playback token, session, pending seek, chains | play, seek, change tracks, recover, leave | chains of awaited requests overtaken by the user; lost sessions | the session is the item's; a seek is served |
| Subtitles (`video/subtitles.js`) | mount, window cache, loads, refresh key | select, play on, fetch, batch | leaving a window while loads of others are under way, fail or are superseded | a window that was left is being replaced |
| Waveform (`music/waveform/`) | stage, token, summary, tasks, worker, cache | fetch, decode, summarise, cancel, reload | results of cancelled work; two panels of time | drawn and kept summaries are the song's |
| Photo-map scan (`photo-map.js`, `photo-map/queue.js`, `cache.js`) | generation, queue, results, writers | scan, read, batch, write, cancel | batches accumulating while a scan ends or restarts | a scan that ended has saved all it read |
| Photo-map thumbnails (`photo-map/thumbnails.js`) | demand, pending, active, aborting, failed | demand, settle, preempt, reset | slots held by aborts, demand changing meanwhile | what is demanded is served, the most urgent first |
| Rest of the page (rendering, columns, previews, parsing, layout) | little | - | - | not modelled |
| Helpers, configuration, logs, views, vendored code, tools, tests | little or none | - | - | not modelled |

How they interact: HTTP handlers call the services; listings come from the
listing cache or rclone and prime the folder cache; the page load notifies the
folder cache of the page, requests it, and the tab then polls `/folder-info`,
which requests what is missing. Folder workers list through the same rclone
client. A sync operation runs rclone copies; when its last job settles, the
touched folders are invalidated in the listing and folder caches and the
operation is reported, on which the browser refreshes. The batch planner trusts
complete folder records to skip synced subtrees (`services.py` 1369). In the
browser the panes know each other by events: the folder view announces the
folder it shows, the bottom pane which pane is visible, and music and video
take the media card from one another. Every pane talks to the server by itself,
with a token, version or generation of its own against late answers.

`PROJECT.json` lists all components with their status, and the hazards of the code at
the lines where they bite.

## Modules

Each component module has its VARIABLES, one action per locked section or step
between two of them, and its properties at the end. Definitions whose comment
starts with "Slip" are plausible mistakes kept beside the correct definition: a
property is only kept if one of them breaks it.

**CacheFlush** - the write path of the folder cache. `mem[p]` is the version of
p's record in memory, `disk[p]` the final file, `dirty`/`epoch`/`sticky` are
`_dirty_cache_writes` and `_cache_write_epoch`, `batch[f]`/`staged[f]` what thread f
took out of the dirty marks and what lies in its temporary file. `TakeDirty`, `SkipStale`,
`Stage`, `Replace`, `Supersede` are the parts of `_flush_dirty_cache_writes` between
its lock operations, `Return` the end of its loop (`looping` has the threads in it).
`Forget` is the locked section of `invalidate`. A call c of
`invalidate_tree` goes through `ReadClock` (the cutoff is read before the lock is taken), `InvalidateTree`
(the locked section that records it) and one `InvalidateKnown` per known path; `StartCleanup`, `CleanupScan` and `CleanupUnlink`
are its `_cleanup_tree`. Calls overlap, and an earlier cutoff may be recorded over a later one.
`RequestComplete` is a request that marks a record complete after a repair.
`FlushFails` is an OSError that leaves the loop, `Restart` a stop of the process at
any moment. `lastVer`, `asked`, `dead` and `dropped` are history. The tree root that can
be invalidated is fixed (`Tree`); a timestamp equal to the cutoff counts as old,
as in `get()`. Whether a subtree is complete is no state of the module: the answer of
`_is_disk_complete_locked` changes without a mark (`invalidate` of a child takes it out of its parent's
pending set), so a mark that goes by it may have either flag. What is claimed of a file is therefore the flag
of the newest mark or write (`asked`): an invalidated child can leave its parent's file partial
until the next request marks it.

**FolderCache** - computation, and the tab that polls it. `st` gathers what
`FolderAccumulationState` and the manager keep under the lock (totals, `_direct_done`,
`_pending_children`, `_parent`, `_child_contrib`, `_abandoned`, dirty flags); helpers are functions
from one value of it to the next and are named after the methods: `Propagate`, `OnSubtreeComplete`,
`MaybeComplete`, `Repair`, `MarkAbandoned`. `Request` is `_request_with_depth`; `Dequeue`, `Claim`, `SkipStale`,
`SkipDone`, `List`, `Commit`, `Finish`, `FlushEnds` are the steps of the worker loop, with `ListFails`,
`ListSuperseded`, `JobFails` as its failures. `OpenPage`, `LoadCurrent`, `ShowPage`, `PollRow`, `PollCurrent`
are a page load and the polls of its tab: rows are polled until complete, the
page itself while it is calculating or its diff is loading, and `PollCurrent` has the
server's safety net for a partial page whose polled rows are complete.

Abstractions: the remote tree is fixed; size, count and date are one number; a record carries the
generation at which it was listed (`gen`), to tell old from new, or None if a foreground listing primed it (nothing compares
that with the generation, so it may be older than an invalidation); the read of the
record and the locked section of a request are one step, and so is the put that
follows; the record reads of one page load are one step, the answer for the page and the safety
net another; a flush writes one record per step (its details are CacheFlush);
`invalidate_tree` is repeated `Invalidate`. A fetch that fails only makes the tab ask
again for what it asked for, and is left out. Branches that only a shutdown takes
(cancel and reschedule) and display-only counters are left out.

**SyncJobs** - sync operations. `group[o]` is the SyncGroup, `queue`, `timers`, `due` the
jobs waiting, `worker[w]` a thread between locked sections. `Submit`/`Put`, `Take`, `Start`,
`Execute`, `Own`/`Make`/`Follow` (creating a Dropbox folder once per operation), `Settle`, `Arm`/`Fire`/`PutAgain`
(throttled uploads), `Refresh`, `Report`, `Shutdown` follow the code. `StartPlan`, `EndPlan`, `Confirm` are
the plans; `TreeChanges` is the environment. `performed` and `stale` are history: what was
really copied, and which folders changed since they were last invalidated. A copy
or mkdir succeeds or fails as it likes, and a failing one may have changed the
destination; a scan finds any of the lists in `Finds`.

**RecordStore** - the abstract specification of the write path: a newest record per
folder, a live one in memory, a file that follows it, invalidations, crashes that keep the files. CacheFlush implements it
(`ImplementsStore`): a path's `kept` is its file's version, `served` the version `get()` returns (0 while
the file is hidden), `leaving` the paths a tree invalidation has still to visit. The marks,
epochs, staged files and batches are invisible: their steps stutter. It states what CacheFlush's own
invariants leave open: nothing but the live record is ever written; an invalidated tree is out of sight at once but for live
records, which are served until their own invalidation if they were written after the cutoff was read; and no file that is
served or live is cleaned away. It has no
entry in the map because it stands for a promise and no function.

**SyncPage** extends SyncJobs with the page's half (`sync.js`): posts that are refused
or lose their response, plans and their dialog, status polls, the refresh in place. A page's step that is a
request is conjoined with the server's step. The refresh is an ordinary listing: it reads what the listing cache keeps
of the folder (`cached`), joins the `lsjson` in flight (`listing`) or starts one. Both are the sets of operations
whose changes they miss; other tabs start listings at any time, one in flight at a time. Other tabs'
operations are left out.

**Browse** - `loadBrowseState` with its fetches, `refreshCurrentFolderInPlace`, `popstate`, filters,
sorting and the filter's URL timer. A listing is the number of its fetch.

**Playlists**, **PlaylistQueue**, **MusicPlayback**, **NowPlaying**, **MediaLibrary** - the media panes. In
Playlists a song list is one value and a dialog is open or not; a write to localStorage may fail without notice
(`Persist`) and another tab may write the key (`OtherTab`), which the history `apart` remembers; PlaylistQueue has the
songs one by one, with drags as several events; MusicPlayback has the walk through
them; NowPlaying the loads of metadata and the card, where a title or a cover is named by its song.

**FileSearch** - the pane, and of the server the one session that it reads: what a
session still holds is a set, a batch is a part of it, and its scan runs once and ends complete or with folders pending (`ScanEnds`). **VideoSession** - each chain
of awaited requests is a record that says where it is; `server` is the set of sessions
the server keeps and may lose. **Subtitles** - positions are numbers and a
window is an interval; a noticed crossing's `failed` is history: whether a failure was shown since. **Waveform** - tasks are the awaited fetches and decodes, `late` the
messages of terminated workers; a summary is whose it is and how exact.

**PhotoScan** - `gen` is the list of generations, each with its queue, its workers and its batch
writer; `server` has the writes on their way. **PhotoThumbs** - the scheduler and what its host
shows; an aborted request keeps its slot until it settles.

**HlsSessions** - `VideoSessionManager`, the server's half of a video. A session is the
position of its create request, whose record says how far the creation is and whether its
ffmpeg runs; `sessions`, `pending` and `deferred` are the manager's own variables, `clients` has the stop
generations and tokens. Every section under the lock is an action, the drains that follow
are actions of their own. `superseded` is the only history: the sessions that their client has
stopped, and the creations that it has moved on from before they were registered (a registered session that a newer one
replaces stays until its stop, expiry or eviction), against which StopIsFinal measures what the tokens and
generations decide. What is left out of the manager: `shutdown()`, which removes and stops every session as the last thing the server does, the commands
and the throttling of ffmpeg, and asset requests for names that no playlist has (they
leave without draining). Creation requests carry a token, as those of the video
pane do; the preview of the photo map uses none.

**Parts** composes the browser's parts, HlsSessions and the write path of CacheFlush. It
extends **PageParts**, which has the instances of the parts that are proved together in PageProofs.
The parts meet only in events that each module lets happen at any time,
so a behaviour of Parts follows one part, chosen by `part` at the start: its states are the
union of the parts' states, not their product. The variables `v1`, `v2`, ... are those of the part.
`MCParts` gives its constants values (one flusher), `MCCacheFlush`, `MCFolderCache`, `MCSyncJobs`,
`MCSyncPage`, `MCVideoSession` are the other instances; `...Proofs` hold the proofs.

## Runs

| Run | Configuration | Shows |
|---|---|---|
| cache_flush | MCCacheFlush.cfg | Two flushers, two overlapping tree invalidations, a path in the tree and one outside it that has no record: TypeOK, NoResurrection, NoLostUpdate, NeverBackwards, ImplementsStore |
| folder_page | MCFolderCachePage.cfg | Tree r(a(c), b), two workers, the tab: RestIsExact, PageSettles |
| folder_failure | MCFolderCacheFailure.cfg | Chain r-a-c, one failing listing or job: AddsUp, OwnedHasWork, PageSettles |
| folder_navigate | MCFolderCacheNavigate.cfg | Two epochs, one invalidation or priming, no local root: TypeOK, SingleFlight, PendingLinked, RootIsCurrent |
| folder_early | MCFolderCacheEarly.cfg | violates CompleteIsExact (finding 1) |
| folder_lost | MCFolderCacheLost.cfg | violates OwnedHasWork after an invalidation (finding 2) |
| folder_twice | MCFolderCacheTwice.cfg | violates NeverOver after an invalidation (finding 3) |
| sync_jobs | MCSyncJobs.cfg | One copy, two batches, two workers, shutdown: Accounted, ReportedLast, MadeOnceInOrder, CompleteIsDone, ReportedFresh, PlanUsedOnce |
| sync_plan | MCSyncJobsPlan.cfg | violates PlanIsCurrent (finding 4) |
| sync_page | MCSyncPage.cfg | Page and server, other tabs' listings, any of the plans in MCFinds, fairness: PageTypeOK, RowsAreFresh, AcceptedEnds, BusyEnds |
| parts | MCParts.cfg | The browser's parts and the server's video sessions, one after the other: TypeOK, SavedIsKept, QueueIsHeardAndShown, WalkIsAtSong, CardIsOwners, LibraryKeepsUp, ResultsAreSearchs, SessionServesItem, RefreshIsUnderWay, SummaryIsSongs, PhotoMapIsServed, FolderIsShown, SessionsAreAccounted, SearchSettles, DemandEnds; and EventuallyOnDisk of CacheFlush |
| video_copy | MCVideoSession.cfg | violates CopyFallsBack (finding 5) |

Bounds. Two workers or flushers are the least that race, and every race in the
code is between two threads and the lock. Two levels below the page are needed
for a contribution that passes through a folder, two siblings for a parent that
completes between them. Two page epochs make a job stale; that run has two
folders and `DepthCap` 0, since the path already orders their jobs as the depth
would. `MaxMishaps` 1: one
invalidation, failure or priming at any moment. Records take versions up to 2 (3 in MCParts),
`MaxEpoch`/`MaxRepair` cap synchronous writes, requests and repairs, `MaxTime` is one more than the calls of `invalidate_tree`:
two calls, so that the later one may record the earlier cutoff. `MaxAttempts` is 2 instead of 21: one retry and its end. `MaxChanges` 1
change of the tree. For the browser: two folders, songs, queries or videos, so
that an answer can belong to the other one; three where order matters (songs
around a dragged block, thumbnails for two slots, photos for batches of two);
loads, tokens and aborted requests are capped at the two or three that can
overtake each other. HlsSessions has three creations for two slots, so that one is refused or evicts
another, two tokens and a stop. SyncPage posts two requests. The exact values are in MCParts with a comment on
each instance. The caps only stop new work from being started, and
EventuallyOnDisk has so many repairs that their cap is not met. Symmetry over
workers or flushers is used in safety runs only. Deadlock is not checked: each system comes to rest when nothing is
requested, and the bounds stop it as well.

Fairness. CacheFlush: a thread in the flush loop goes on. That a thread which marks a record goes on to flush is not
assumed: a request that repairs a folder marks it and returns (`foldercache.py` 785-795), so a mark can wait for the next
flush of somebody else. EventuallyOnDisk promises that a change reaches the disk once a thread is in the loop, and
counts a mark left behind by a failing one as an end. EventuallyOnDisk is checked
with one flusher: two can supersede and re-mark each other's snapshots without end,
which the code does not exclude. FolderCache: worker threads, flushes and
cooldowns go on, and a page's tab goes on with its load and its polls
until it stops by itself; invalidations, failures and page loads are bounded.
A request through `ensure_known_subtree` may happen and is never relied on.
SyncJobs: the submitting thread puts its jobs, workers run (rclone commands end,
writes by their time limits), timers fire; no fairness for confirming, planning
or shutdown. `AcceptedEnds` promises nothing after a shutdown. SyncPage adds that the
server answers a request or its connection fails, that the scan for a plan ends, and that polls
go on; not that the user confirms, nor that a refresh is answered. FileSearch: timers fire, requests are answered or fail, and the
scan's thread comes to the end of the folders it has. It may end with folders pending: the server never scans
them again (`services.py` 240-253), its status stays pending, and the page goes on polling. So SearchSettles
promises that a search ends, or shows all that its scan has found. PhotoThumbs: a request or an abort settles. No
other part of the page promises liveness.

`PageSettles` has one exception, which the failure run reaches: the tab polls its rows
only, so when a folder below a row fails to be listed nobody asks for it again
and the page stays partial until the next visit.

## Proofs

**CacheFlushProofs** proves TypeOK, NoResurrection, NoLostUpdate and NeverBackwards for all
paths, all trees, any number of flushers and any bounds. NoLostUpdate alone is
not inductive: a snapshot whose epoch is current must be the record in memory.
`IInv` therefore adds: versions are handed out in order and an invalidated version
never returns to memory (`VersionsOrdered`); a file not newer than the last
invalidation is hidden (`DeadFilesHidden`), and a file without a record is older than any call of `invalidate_tree` that has
read the clock and waits for the lock (`OldFiles`); the clock is past every stamp and every cutoff
(`TimesOrdered`); a mark belongs to a live record (`MarksLive`); a snapshot with the current epoch
is the current record, unmarked, and too young to be hidden or cleaned away unless its path
still waits in some `invalidate_tree` (`SnapshotsCurrent`); a live record's file is hidden only in that case
(`LiveFilesKept`); what a cleanup may unlink is dead (`SweptFilesDead`); and a cleanup follows its loop (`CleanupAfter`). One lemma per action, then the
four theorems follow from `IInv`, NeverBackwards as an action property under it.
The module's assumptions on its constants are what it uses.

The refinement `WritePathIsStore` (every behaviour of CacheFlush is one of RecordStore) is proved in
the same module from the same `IInv`: a write of the live record is `Persist`, which needs
`SnapshotsCurrent`; `InvalidateTree` hides what the manager does not know, because such a file is older than the cutoff (`OldFiles`) and no
file has the stamp 0 of a missing one (`TimesOrdered`), and a known path is about to be invalidated; the cleanup is `Clean`
because what it unlinks is dead and a live record's file is not, unless an invalidation is to come. All other steps change nothing
that the store shows (`SameStore`).

**FolderCacheProofs** proves SingleFlight, PendingLinked, RootIsCurrent and TypeOK of FolderCache for
every tree and any number of workers, pages and mishaps, and OwnedHasWork, AddsUp and RestIsExact for one page epoch.
**FolderCacheInvariants** defines the inductive invariants and the conditions on the accumulated state that they are made of.
- SingleFlight: a listing worker is in the active-job table (`ListingIsClaimed`) and a claim is made
  only for a folder that is not in it. Ownership, which can be lost while a worker
  lists (finding 2), plays no part.
- The other three follow from `CacheInv`, which is `Published` (accumulated state is linked, generations and disk records are typed,
  and a top folder's record, in memory and on disk, is of its current generation or was primed), `Owned` (the owned folders, the queue and the cooldowns are typed),
  `Timed` (no page time is of the future, and a page that is shown has pushed the minimum), `Working` (what a worker holds is what
  its step says) and `Browsing` (the rows and the watch list of each tab are of its page).
  PendingLinked is the harder part: `Linked(st)` says of the accumulated state as one value that
  a folder others wait for has them as its parent, and every helper that a job commits with (attaching a record,
  restarting a folder, completing one and walking up to its parents) is shown to keep it.
- The walks up the tree are loops over the list of parents (`Lineage`). What such a loop keeps is
  proved without induction over the list, from its first step that would break it; `TreeShape` says that the
  parents of a folder are a chain that ends at the root.
- The totals are integers: that they never fall below zero is not true of the code (see below).
- OwnedHasWork (`OwnedFoldersHaveWork`) is proved for any tree, workers, pages and failures, with or without a local root,
  under `OneEpoch`: one page epoch, no invalidation and no priming. The hypothesis is that of the run folder_failure, and it
  is sharp: with a second epoch, a priming or an invalidation (finding 2) TLC finds a folder that is owned for nothing.
  The argument: ownership is given up for good only in the finally block of a job that listed its folder or leaves it
  alone, so it must not be taken again for a folder that was listed. A request restarts a listed folder only if it is
  neither waiting nor whole; `Settled` says that this does not happen: a listed folder whose diff is undecided has a
  pending subfolder. It is broken inside a locked section (a fresh record, a child just crossed off), so it is stated
  up to a set of exceptions, `Settled(s, E)`, and each helper is shown to take its folder out of E. `OwnedInv` adds that records on disk and
  those a worker has read are decided (`Decided`), that a listing worker's folder is owned and not listed yet and a job in its
  finally block will give it up (`Serves`), and that no two claims are of one folder (`Apart`).

- AddsUp (`TotalsAddUp`) is proved for any tree, workers, pages and failures under `OneEpoch` with a local root, the
  hypotheses of the run folder_failure. The sums come first: `SumOver` is a fold over a set in an unknown order, so the
  lemmas show that it has the recursion a sum has, that two such sums agree, and what adding, changing or dropping one
  element does (`SumTakes`, `SumWithout`, `SumChanges`). `Tallied` is AddsUp as a statement about one state value, `Homed`
  adds that a parent is in memory, and `Passes` says what each helper keeps: totals move only along the chain of parents,
  and what one folder's contribution grows by, the parent's total grows by. A listing is where a total could be counted
  twice. It adopts a subfolder by clearing what it has handed up, which is right only if it had handed up nothing, and
  takes a record from disk only for a subfolder that nobody owns and that memory does not know to be whole. `Tracked(o)` says
  that neither can go wrong in one epoch: there is a folder o, the page that was opened or the first one
  requested, below which all that is owned or listed lies; every folder but o is listed before anything in it is
  asked for; and what is marked, on disk or read as complete, o apart, waits for nothing. So a subfolder has no parent when its
  folder is listed, and one that was read as complete is whole in memory. Only o can be listed after its subfolders,
  which its page polls before it. TLC confirmed each part on a tree of four folders before it was proved.
- RestIsExact (`RestTotalsAreExact`) is proved under the same hypotheses, for behaviours without a failure so far. `Resting` is what the
  order of the steps keeps: a parent waits for just those of its subfolders that are not done (`Waiting`), one that is
  done has handed up its whole total (`HandedUp`) and is on disk or marked as complete (`Written`), a listed folder has
  counted its subfolders (`Gathered`) and one that is counted but not listed is owned (`AskedFor`). The walk of a completion
  up the tree breaks it for one folder at a time (`Ending`). At rest nothing is owned (`OwnedInv`), so everything counted was listed,
  and a deepest folder that is not done would wait for a deeper one (`RestIsDone`); with AddsUp's sums the totals
  are the subtrees' (`DoneIsExact`).

It assumes `TreeShape`, `TotalsPositive`, `BoundsAndPages` and `NoneIsNothing`: a finite tree with its
root on top, folders that count at least themselves, and None no folder, page or worker; and for AddsUp and RestIsExact `NamedOnce`: a listing
names a subfolder once, as Dropbox does.

**SyncProofs** proves the safety invariants of SyncJobs and of SyncPage.

MadeOnceInOrder holds for any workers, operations and items. It is
not inductive: `MkdirInv` adds that jobs are jobs wherever they wait (`JobsTyped`), that
a worker in the chain is at a folder of its item (`ChainTyped`), and that the folder it
makes is marked "doing" (`MakingMarked`). The argument: a worker begins only with a
folder that is "none", so it never meets a maker of its operation; "made" is never
taken back; a worker goes one level down only past a made folder. It rests
on `Attempts` (at least one attempt) and `ItemsArePaths` (items are paths; a folder to make
is never the root, since a plan's rows are children of folders; a plan finds items). PlanUsedOnce needs that
a consumed plan is "used" and that only a ready one is consumed (`PlanInv`), and that the absence of
a plan is not a plan (`NoPlan`).

The other safety invariants of the sync jobs - Accounted, ReportedLast,
ReportedFresh and CompleteIsDone - are proved for any number of workers and any operations. A job is in one
place at a time and its number is new when it is made (`PlaceInv`), so a step that moves it takes one
from one count and adds one to another; `CountInv` says that an open group has counted its jobs, that
an operation without a group has none anywhere, and that one worker closes it. Hence a group that
closes leaves no job behind. A folder that is stale is remembered by the worker that changed it, then by the group,
then by the worker that closes it (`StaleInv`). An item of a running operation is done, or a job of it is on its way, or the
operation has an error or has lost a retry in a shutdown and will never be complete (`Pursued`); what is done stays done, since a
folder is begun only from "none" (`MkdirInv`), and the items stay the same, since a used plan is not scanned again
(`PlanInv`). Besides the assumptions above it uses that the workers are
finitely many (`FiniteWorkers`) and that None is not a group (`NoGroup`). Each invariant was checked with TLC
before it was proved. TypeOK of SyncJobs follows from `JobsTyped`, `ChainTyped`, `GroupsTyped` and the places of
the jobs (`JobsTypeCorrect`).

PageTypeOK and RowsAreFresh hold for any workers, operations and posts. A step of the page is a step of the
server with it or leaves the server alone, so the server's invariants carry over. RowsAreFresh rests on
ReportedFresh: an operation that the page has seen finished was reported, after the last invalidation that it
owed. That invalidation empties what is kept, and what is kept or in flight later misses the operation only if it
was in flight then (`overtaken`); an operation is not taken up again under the same name, so nothing it does comes after. The
assumptions `PostsAreBounded` and `NoOperation` say that the bound on posts is a number and that None is no
operation.

**PhotoScanProofs** proves DoneIsSaved and NothingIsStranded for any folders, readers, batch size and runs.
`IInv` adds where a record of a run can be: with the server, or held (`Held`) by the run's writer among the
records that wait for its timer, in a batch that waits for the one before it, or in the tail of what is on its
way (`Running`). All of it is of the writer's folder (`OfFolder`), a writer has nothing before its
scan (`Unborn`), and a generation that is not off is the open pane's (`OnScreen`). `Moves(d, e, r)` is what every
helper of the writers has in common - only the writer r changes, what it holds stays in its folder, the tail
does not get shorter - and composes, so that a flush after an enqueue is one move.

**PhotoThumbsProofs** proves DemandIsServed, UrgentIsFirst and LoadedIsShown for any finite set of photos,
any slots and demands. A path in demand is in one place (`OnePlace`), and the slots taken are those of the requests
under way and of the aborted ones. `Ready` and `Urgent` state the two for a queue before its free slots are filled, which
is where every step ends (`ThumbsPump`): a change of the demand preempts what is less urgent
than something that waits, so `Urgent` survives the promotions of `Wanted`.

**HlsSessionsProofs** proves LimitHolds, NothingLeaks and StopIsFinal for any clients, any limit and any number of
requests. LimitHolds needs no more than that `pending` counts the requests that are on their way. StopIsFinal needs
`RequestsKnow`: a request on its way is superseded exactly when its registration would be refused, now and at
any later time, which holds because tokens and generations of a client only grow and a stop never runs ahead of the
transition that it came with (`StopsFollow`). What is registered or put aside was started (`KeptAreStarted`).

**PartsProofs** carries the invariants over to the behaviours of Parts (`StepOfPart`: a behaviour stays with its
part, and every step is one of that part or changes none of its variables), which gives the properties that the run checks
- SavedIsKept, LibraryKeepsUp, ResultsAreSearchs, WalkIsAtSong, CardIsOwners, SummaryIsSongs, FolderIsShown,
SessionServesItem, RefreshIsUnderWay, QueueIsHeardAndShown, PhotoMapIsServed and SessionsAreAccounted - for all constants that
`PartsAssumption` allows. The proofs of PhotoScan, PhotoThumbs, HlsSessions and CacheFlush are instances of their own modules;
**PageProofs** has those of the other parts, over the variables of PageParts:
- Playlists: memory and localStorage are the same unless a write failed, another tab wrote or an import is under way
  (`DiskFollows`), the signature is the saved entry's (`SignatureIsSaved`), and without the dirty mark the
  active playlist has the signature (`CleanIsSigned`).
- MediaLibrary: nothing is under way for a library that was not asked for (`WaitsForRequested`), and only a hidden
  pane puts off painting (`PaintedUnlessDirty`).
- FileSearch: a request or a session that is still listened to has the folder and the query that are
  shown, and what it still holds is what the results lack (`Reads`, `ListenedTo`).
- MusicPlayback: `IInv` is TypeOK, WalkIsAtSong and RetryIsCurrents. Every step goes through `Ensured` or
  `SyncShuffle`; that a new order takes in every position once is the pigeonhole
  theorem of the library (`InjectionIsOnto`).
- NowPlaying: every handler that changes the song, its title or its cover publishes to the card in the same
  step; `NothingWithoutSong` closes the gap of a player that has stopped.
- Browse: there is one newest fetch (`OneNewest`); while a folder loads it is the fetch of a navigation, and no
  poller runs while such a fetch is on its way (`NavigationIsAlone`). A refresh in place keeps this because it gives
  way to a navigation, a failing one because it is never the newest while a folder loads.
- Waveform: a worker or a summary that is there is the current request's, and "fetching" and
  "processing" have their task or worker (`IsControlled`); the cache has one record for a key, of the song that the
  key names (`AreRecords`). A late `Resumed` may set "decoding" for a request that is not current,
  which is why nothing is claimed of that stage.
- VideoSession: every chain has a token of its own, the newest is for the active item, and only the newest goes
  on when its answer comes (`ChainsApart`). A change of the item asks for a stop of the session that it leaves attached
  (`PlaysActive`); a seek gives its session up and is the newest chain, or is ended by whatever starts
  another (`Seeking`). The actions work on a record of the player, so the lemmas are about those records.
- Subtitles: whoever notices a crossing starts the refresh or finds one with the same key under way (`KeyIsRefreshs`),
  also when another track was selected in between (`CrossingIsServed`). Loads that share a request end together;
  a startup load, which shows nothing when its window is mounted already, shares none with a refresh of its
  token, because a refresh is for a later position (`LoadsAreSessions`).
- PlaylistQueue: the list after a removal or a drop is `Kept`, defined by counting positions; that it has just the
  songs asked for in their order (`KeptIs`), and that no other list does (`KeptIsOnly`), needs no induction but that a set of
  numbers is counted without gaps (`PlacesAreCounted`). So a drop keeps the block and the others in their order
  (`ReorderedIs`), and a song that is heard and not removed is found again at its new place. A screen that could not be painted
  is marked (`ScreenUnlessDirty`), and what a drag speaks of stays in the list, since only its drop changes it
  (`DragIsInList`).

TypeOK of Parts is proved too. For most parts it is a conjunct of the inductive invariant; the others need more:
- Playlists: an import under way has a file left, and the list that is stored for a name is the last one of that name in the
  file, which exists because a set of numbers with a bound has a greatest one (`HasGreatest`).
- FileSearch: the results and the requests are a search's by the invariant; the aborted requests are counted (`SearchTyped`).
- Browse and Subtitles: the types are inductive by themselves; of the windows that fit there is a latest one (`MountTyped`).
- VideoSession: chains, sessions and stop requests are numbered by the tokens given out (`Numbered`), so they stay
  below the bound as the tokens do; a probe and a session are for an item because only a chain without one is left
  to clear the player (`ChainsApart`). The actions build records of records, so every operator has its lemma.

`PartsAssumption` collects what the parts assume of their constants (`NoneIsNothing`, `NamesAndContents`,
`ListsAndLimit`, `LimitAndNone`, `CacheAssumption`, ...: the value for nothing is no folder, song, name or record; bounds are numbers;
playlists are sequences of songs, an import is of at
least one file; the photos are finitely many). TLC evaluates it in the run of MCParts.

Only model-checked: all liveness, which the prover does not handle under fairness (PageSettles, AcceptedEnds, BusyEnds,
SearchSettles, DemandEnds, EventuallyOnDisk). Every safety property and action property that a passing run checks is proved.

AddsUp and RestIsExact hold for one page epoch with a local root, without invalidations and primings: a restart
counts twice (finding 3), and a second page epoch restarts folders
too. Without a local root TLC finds both violated with one page and nothing else: `_maybe_complete` then takes a folder
for complete while subfolders are pending (`foldercache.py` 1403-1420), that record reaches the disk, and the
parent's `_compute` adopts it over what the subfolders have handed up since (`foldercache.py` 1255-1287). The program
always sets a local root (`cli.py` 323-354), so this takes a manager built by other code, as the tests do.

## Findings

1. `foldercache.py` 1287: `_compute` adds subfolders one by one and completes its folder as
   soon as none is pending. A first subfolder that is complete already completes
   the folder before the others are counted; the record can be flushed and
   read, and a batch plan trusts it. Documented otherwise in
   `background-workers.md` 30-31.
2. `foldercache.py` 1056: an invalidation between a job's commit and its finally block leaves
   the folder owned without a job, and `request()` leaves owned folders alone; it
   stays "calculating" until a newer page epoch. The same happens when a
   foreground listing primes the record there and another request restarts the folder.
3. `foldercache.py` 807: a restarted folder forgets what it handed up while the parent keeps
   it, and hands it up again.
4. `services.py` 1604: `/sync-batch` uses the stored plan; `sync-and-rclone.md` 35-38 and
   `background-workers.md` 185 say it is recomputed against a changed tree, a test
   (`tests/test_sync_routes.py` 727) says it is not.

5. `video/compatibility.js` 586: the fallback from a copied video stream to transcoding asks for
   a session mode that attaching the session has emptied (`clearVideoSource` resets it), so
   a media error of a copied stream never leads to transcoding. `video-player.md` 520-523
   promises it; the unit test replaces `clearVideoSource` by a stub
   (`tests/js/video-compatibility-copy-fallback.test.js` 211).

Seen while reading the server, not run: a subfolder's record read before the lock can be
adopted although it was invalidated since; a stale queued job clears the
ownership of its folder even while another worker holds a newer job; the
process forgets a tree's cutoff at a restart, so a record the cleanup had not
reached is served again; the flush tolerates only `FileNotFoundError`, any other error loses
the rest of the batch; a second write of a media
cache key unlinks the file just written (`videocache.py` 95); a retry dropped at shutdown leaves its
operation "running". In CacheFlush the re-mark of a superseded snapshot is never the only
thing that brings a record to disk: whoever advanced the epoch marked it too.

Seen while modelling the server; the models do what the code does and the properties are stated around it:
- The listing cache keeps a listing that was started before an invalidation (`services.py` 767, `listingcache.py` 133-142), and a
  request joins an older `lsjson` (`rclone.py` 425-439). So the refresh after a copy can show the folder as it was, although `sync.js`
  168-170 says that "a normal (non-?refresh=1) listing returns fresh statuses". TLC shows it in 14 steps if RowsAreFresh is
  asked without its exception: another tab's listing is in flight while the copy runs and ends.
- Such a listing is also primed into the folder cache (`services.py` 768-770) with no look at the generation that an
  invalidation advanced (`foldercache.py` 566-603), so that a folder may hold an overtaken direct listing until it is
  listed again. RootIsCurrent speaks of what workers publish.
- `invalidate_tree` reads its cutoff before it takes the lock, so that of two calls the earlier cutoff can be the one that
  stays, and a record written in between stays visible until its own invalidation. Nothing invalidated is served again.
- Invalidating the last pending child of a folder makes the folder complete without a mark; its file stays partial until
  a request repairs it.

Met while proving: a folder's total in the accumulated state can fall below zero. Priming a folder from a foreground
listing resets what it has accumulated but not what its children have handed up (`foldercache.py` 566-610), so when a child
that had been attached before is handed up again by difference, more is taken away than is
there. It needs a tree r(a(c, d)), c attached to a, then r and a primed, then d completed. The next
epoch of the page starts from nothing, so the page recovers. TypeOK therefore has integers for totals.

Also met while proving: a crossing whose refresh failed can be forgotten although playback has been back inside the window. While
the failure is shown, `syncSubtitlesForCurrentPlaybackTime` returns before it looks at the window (`video/subtitles.js` 1064),
so `outsideCoverageObserved` stays set when playback moves into it. Selecting another track starts a load, which
clears the failure; selecting the first again finds its window mounted (`video/tracks.js` 754) and does nothing.
The next time playback leaves the window, no refresh is asked for and no failure is shown. It takes a window mounted
ahead of the position - a track change's load has no token, so a seek backwards does not outdate it - and two tracks, more
than the run of MCParts has. RefreshIsUnderWay speaks of crossings whose failure has not been shown since; its theorem is
for every instance.

Seen while modelling the browser; the models do what the code does and the
properties are stated around it:
- `Saved "..."` is shown, and the dirty mark taken off, when localStorage has refused the write (`settings.js` 10-12,
  `media-library/playlist.js` 866-873), and a second tab that saves overwrites the whole store with its own
  (`media-library/playlist-store.js` 364-367): after a reload the playlist may be gone.
- A search whose scan left folders pending is polled every 250 ms for as long as its pane is open (`file-search.js` 171-177); the
  server has asked for the missing folders but does not scan again.
- Restoring a recent song discards unsaved changes of the playlist without
  asking; an import whose later file fails leaves memory ahead of localStorage.
- At the end of the playlist nothing is painted again; every `loadedmetadata`
  resets the retry count, so an error after it can be retried without end.
- Metadata of the previous song can arrive between `playPlaylistIndex` and `playing`.
- Stopping a search before its first answer never cancels the server's session.
- Playing the same video again never stops its old session (`video/playback.js` 65);
  a session created while its pane is left is adopted by the hidden pane;
  `handleCompatibilityHlsError` looks at no token after its await (`video/compatibility.js` 653);
  nor does the load of a subtitle track change.
- The waveform sets "decoding" after an await without a check (`music/waveform/controller.js` 818).
- One failed cache write makes the end of a photo scan throw (`photo-map.js` 743);
  the map is never made if a refresh overtakes the loading of Leaflet;
  `finishPopupTemporary` hides a popup without looking at the generation.
- After a navigation that failed, a refresh in place succeeds and leaves the
  old folder in the address, and a reload then does not announce the folder;
  a filter or sort change while a folder loads redraws the old
  folder's rows (`browse/main.js` 509); a navigation that supersedes the refresh of
  `refresh.js` leaves its blocker with an error.
- The status poll of an operation goes on for ever if the server was restarted.

## Not modelled

Of the server: lifetimes, tree cutoffs and the cleanup of the listing cache (SyncPage has its entries for the
folder that is shown, and rclone's joining of equal commands), the probing, throttling and file
requests of video sessions and their manager's shutdown, the media disk cache, the single-flight
table of thumbnails, eviction of search sessions, and the shutdown of running
rclone commands. The other components see them through their outcomes: a
listing is read, fails or is superseded; a session is created, refused or
lost; a thumbnail is answered or fails. Each is a candidate for a module of
its own. In SyncJobs a confirmation that does not match its plan (`services.py` 1602-1603) is what EndPlan does with a plan
that expires: the token is gone and nothing starts.

Of the browser: markers and the preview of the photo map, columns, virtual
rows, hover previews, the layout of panes, the queue of videos, fullscreen and
native playback, and all parsing (tags, subtitles, metadata). They keep no state that
another component reads.

Left out for good: rendering, streaming, name comparison and formatting (pure
functions), logs, start-up and configuration, vendored code.
