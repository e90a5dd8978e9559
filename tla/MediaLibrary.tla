---------------------------- MODULE MediaLibrary ----------------------------
(***************************************************************************)
(* The library pane of a player: media-library/library.js, the deferred     *)
(* painting of media-library/layout.js and the page events music.js routes  *)
(* to them.                                                                 *)
(*                                                                         *)
(* Load asks the server for the cached songs of the folder that is browsed  *)
(* and polls until the answer is complete.  The pane polls and paints only  *)
(* while it can be seen; the folder can change while an answer is on its way. *)
(***************************************************************************)
EXTENDS FiniteSets

CONSTANTS
  Folders,    \* folders that are browsed
  SongsOf,    \* the songs below each folder
  None        \* nothing

Songs == UNION {SongsOf[f] : f \in Folders}

VARIABLES
  browsed,    \* the path of the browse shell
  folder,     \* state.currentFolder of the player
  root,       \* state.libraryRoot
  requested,  \* state.libraryRequested
  snapshot,   \* state.librarySnapshot
  loading,    \* the folder whose fetch is on its way (state.loading), or None
  timer,      \* a poll is scheduled
  failed,     \* the last answer was an error
  polling,    \* state.libraryPollingActive
  disabled,   \* the Load button is disabled
  visible,    \* playbackUiMayPaint
  dirty,      \* state.libraryRenderDirty
  painted,    \* the snapshot the tree was painted from, or None
  selected    \* state.selectedIds, of the songs

vars == <<browsed, folder, root, requested, snapshot, loading, timer, failed, polling, disabled,
          visible, dirty, painted, selected>>
folders == <<browsed, folder, root>>
screen == <<dirty, painted, selected>>
button == <<polling, disabled>>

Snapshots == UNION {[folder : {f}, songs : SUBSET SongsOf[f], complete : BOOLEAN] : f \in Folders}

(* What Parts assumes of the constants.                                     *)
NoneIsNothing == None \notin Folders /\ None \notin Snapshots

TypeOK ==
  /\ {browsed, folder, root} \subseteq Folders /\ loading \in Folders \cup {None}
  /\ {snapshot, painted} \subseteq Snapshots \cup {None}
  /\ {requested, timer, failed, polling, disabled, visible, dirty} \subseteq BOOLEAN
  /\ selected \subseteq Songs

(* A folder event may come before the player listens to it.                 *)
Init ==
  /\ browsed \in Folders /\ folder \in Folders /\ root = folder
  /\ requested = FALSE /\ snapshot = None /\ loading = None /\ timer = FALSE /\ failed = FALSE
  /\ polling = FALSE /\ disabled = FALSE
  /\ visible \in BOOLEAN /\ dirty = ~visible /\ painted = None /\ selected = {}

-----------------------------------------------------------------------------
Incomplete(s) == s = None \/ ~s.complete

(* paintLibrary: the rows, and the selection without the nodes that are gone. *)
Paint(s, sel) ==
  /\ painted' = s /\ dirty' = FALSE
  /\ selected' = IF s = None THEN sel ELSE sel \cap s.songs
(* renderLibrary                                                            *)
Render(s, sel) ==
  \/ visible /\ Paint(s, sel)
  \/ ~visible /\ dirty' = TRUE /\ painted' = painted /\ selected' = sel

(* fetchLibrary: one request at a time.                                     *)
Fetch ==
  IF loading # None THEN UNCHANGED <<loading, disabled>>
                    ELSE loading' = root' /\ disabled' = TRUE

(* resetLibraryForCurrentFolder: the request on its way is left alone.      *)
Reset(f) ==
  /\ folder' = f /\ root' = f /\ requested' = FALSE /\ snapshot' = None
  /\ timer' = FALSE /\ polling' = FALSE /\ disabled' = FALSE
  /\ Render(None, {})
  /\ UNCHANGED <<loading, failed, visible>>

(* browse-folder-changed                                                    *)
Navigate(f) ==
  /\ browsed' = f
  /\ \/ f # folder /\ Reset(f)
     \/ f = folder /\ UNCHANGED <<folder, root, requested, snapshot, loading, timer, failed, button,
                                  visible, screen>>

(* The Load button: the browse shell's path wins over the player's.         *)
Load ==
  /\ visible /\ ~disabled
  /\ folder' = browsed /\ root' = browsed /\ requested' = TRUE /\ snapshot' = None
  /\ IF browsed # folder THEN timer' = FALSE /\ Render(None, {}) ELSE UNCHANGED <<timer, screen>>
  /\ polling' = TRUE /\ disabled' = TRUE
  /\ loading' = IF loading = None THEN browsed ELSE loading
  /\ failed' = FALSE
  /\ UNCHANGED <<browsed, visible>>

(* The scheduled poll runs; fetchLibrary returns while an answer is awaited. *)
Poll ==
  /\ timer /\ timer' = FALSE
  /\ UNCHANGED <<folders, requested, snapshot, failed, polling, visible, screen>>
  /\ Fetch

(* An answer: applyLibrarySnapshot, then another poll or the end of polling. *)
Answer(s) ==
  /\ loading # None /\ s.folder = loading
  /\ loading' = None /\ failed' = FALSE /\ snapshot' = s
  /\ Render(s, selected)
  /\ IF s.complete THEN polling' = FALSE /\ disabled' = FALSE /\ timer' = timer
                   ELSE /\ polling' = polling /\ disabled' = polling
                        /\ timer' = (requested /\ visible)
  /\ UNCHANGED <<folders, requested, visible>>
AnswerFails ==
  /\ loading # None
  /\ loading' = None /\ failed' = TRUE /\ polling' = FALSE /\ disabled' = FALSE
  /\ UNCHANGED <<folders, requested, snapshot, timer, visible, screen>>

(* Slip: the library that was polled before is left as it is.               *)
ResumeNothing == UNCHANGED <<loading, disabled>>
(* resumeLibraryUpdates                                                     *)
ResumeUpdates == IF requested THEN Fetch ELSE UNCHANGED <<loading, disabled>>

(* The pane or the tab is hidden: stopPolling.                              *)
Hide ==
  /\ visible /\ visible' = FALSE /\ timer' = FALSE
  /\ UNCHANGED <<folders, requested, snapshot, loading, failed, button, screen>>
(* flushDeferredMusicPaneUpdates, also when the pane is chosen again while  *)
(* it is shown.                                                             *)
Show ==
  /\ visible' = TRUE
  /\ IF dirty THEN Paint(snapshot, selected) ELSE UNCHANGED screen
  /\ UNCHANGED <<folders, requested, snapshot, timer, failed, polling>>
  /\ ResumeUpdates

(* Clicks, ctrl-A and the touch menu select rows that are on the screen;    *)
(* a sort button paints the tree again.                                     *)
Select(sel) ==
  /\ visible /\ painted # None /\ sel \subseteq painted.songs
  /\ selected' = sel
  /\ UNCHANGED <<folders, requested, snapshot, loading, timer, failed, button, visible, dirty, painted>>
Sort ==
  /\ visible /\ Render(snapshot, selected)
  /\ UNCHANGED <<folders, requested, snapshot, loading, timer, failed, button, visible>>

Next ==
  \/ \E f \in Folders : Navigate(f)
  \/ \E s \in Snapshots : Answer(s)
  \/ \E sel \in SUBSET Songs : Select(sel)
  \/ Load \/ Poll \/ AnswerFails \/ Hide \/ Show \/ Sort

Spec == Init /\ [][Next]_vars

-----------------------------------------------------------------------------
(* A library that was asked for is never forgotten: while the pane can be   *)
(* seen and the answer is incomplete, a request or a poll is under way,     *)
(* unless the last answer was an error; and the Load button is never left   *)
(* disabled with nothing under way.                                         *)
KeepsPolling ==
  visible => /\ requested /\ Incomplete(snapshot) /\ ~failed => loading # None \/ timer
             /\ disabled => loading # None \/ timer

(* Deferred painting: whatever arrived while the pane was hidden is on the  *)
(* screen when it is shown, and no song that is gone stays selected.        *)
ScreenIsCurrent ==
  visible /\ snapshot # None => painted = snapshot /\ selected \subseteq snapshot.songs

(* What keeps these: nothing is under way for a library that was not asked  *)
(* for, and only a hidden pane puts off painting.                           *)
WaitsForRequested == ~requested => ~polling /\ ~disabled /\ ~timer
PaintedUnlessDirty ==
  /\ visible => ~dirty
  /\ ~dirty /\ snapshot # None => painted = snapshot /\ selected \subseteq snapshot.songs
IInv == TypeOK /\ WaitsForRequested /\ KeepsPolling /\ PaintedUnlessDirty
=============================================================================
