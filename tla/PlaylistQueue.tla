---------------------------- MODULE PlaylistQueue ----------------------------
(***************************************************************************)
(* The active playlist as a queue of songs: media-library/playlist.js (its  *)
(* list, selection, drag and painting), the song list of playlist-store.js  *)
(* and the places where music/playback.js starts or clears a song.          *)
(*                                                                         *)
(* The playlist is known to the player by a position only, so every handler *)
(* that moves songs has to move the position with them.  Handlers run to    *)
(* the end, but a drag is many pointer events, and songs end, the selection *)
(* changes and the pane is hidden between them.  Paths are compared by      *)
(* their key; a song is its key here, and a list has each song once.        *)
(***************************************************************************)
EXTENDS Integers, Sequences, FiniteSets, Functions

CONSTANTS
  Songs,      \* songs of the media library
  None        \* no song

VARIABLES
  songs,      \* state.playlist
  current,    \* currentPlaylistIndex, counted from 1; 0 for none
  playing,    \* the song whose stream the audio element has
  selected,   \* selectedPlaylistRemotePaths
  drag,       \* playlistDrag: anchor, target row and side, active flag; or None
  visible,    \* playbackUiMayPaint(): the pane is shown in a visible tab
  painted,    \* the rows on the screen and the row marked as current
  renderDirty,    \* playlistRenderDirty
  selectionShown, \* the rows shown as selected
  selectionDirty  \* playlistSelectionDirty

vars == <<songs, current, playing, selected, drag, visible, painted, renderDirty,
          selectionShown, selectionDirty>>
screen == <<painted, renderDirty, selectionShown, selectionDirty>>

(* What the proofs assume of the constants.                                 *)
NoneIsNoSong == None \notin Songs

Rows(s, c) == [songs |-> s, current |-> c]
Lists == {s \in UNION {[1 .. n -> Songs] : n \in 0 .. 3} : IsInjective(s)}
Place(s, song) == IF \E i \in DOMAIN s : s[i] = song THEN CHOOSE i \in DOMAIN s : s[i] = song ELSE 0

(* The n-th of a set of positions, and the songs of a list that are in a    *)
(* set, in their order.                                                     *)
Nth(n, at) == CHOOSE i \in at : Cardinality({j \in at : j <= i}) = n
Kept(s, these) ==
  LET at == {i \in DOMAIN s : s[i] \in these}
  IN  [n \in 1 .. Cardinality(at) |-> s[Nth(n, at)]]

CurrentSong == IF current = 0 THEN None ELSE songs[current]

TypeOK ==
  /\ songs \in Seq(Songs) /\ IsInjective(songs)
  /\ current \in 0 .. Len(songs) /\ playing \in Songs \cup {None}
  /\ selected \subseteq Songs /\ selectionShown \subseteq Songs
  /\ drag \in [anchor : Songs, target : Songs \cup {None}, after : BOOLEAN, active : BOOLEAN] \cup {None}
  /\ visible \in BOOLEAN /\ renderDirty \in BOOLEAN /\ selectionDirty \in BOOLEAN

Init ==
  /\ songs = <<>> /\ current = 0 /\ playing = None /\ selected = {} /\ drag = None
  /\ visible = TRUE /\ painted = Rows(<<>>, 0) /\ renderDirty = FALSE
  /\ selectionShown = {} /\ selectionDirty = FALSE

-----------------------------------------------------------------------------
(* Slip: the position stays although the songs have moved.                  *)
SamePosition(list) == IF current <= Len(list) THEN current ELSE 0

(* The current song is looked up again: its position in a changed list.     *)
NewPosition(list) == IF current = 0 THEN 0 ELSE Place(list, CurrentSong)

(* renderPlaylist paints all rows, or leaves that to the next time the pane *)
(* is visible; painting the rows paints their selection.                    *)
RenderPlaylist ==
  IF visible
    THEN painted' = Rows(songs', current') /\ selectionShown' = selected'
         /\ renderDirty' = FALSE /\ selectionDirty' = FALSE
    ELSE renderDirty' = TRUE /\ UNCHANGED <<painted, selectionShown, selectionDirty>>
RenderSelection ==
  IF visible
    THEN selectionShown' = selected' /\ selectionDirty' = FALSE /\ UNCHANGED <<painted, renderDirty>>
    ELSE selectionDirty' = TRUE /\ UNCHANGED <<painted, selectionShown, renderDirty>>

(* playPlaylistIndex and clearCurrentSong, the only writers of the audio    *)
(* element's source.                                                        *)
Play(i) == current' = i /\ playing' = songs'[i]
ClearCurrent == current' = 0 /\ playing' = None

(* PlaylistModel.addSongs skips the songs that are already in the list.     *)
Added(s, more) == s \o Kept(more, Songs \ Range(s))
AddSongs(more) ==
  /\ songs' = Added(songs, more)
  /\ UNCHANGED <<current, playing, selected, drag, visible>>
  /\ RenderPlaylist
AddAndPlay(song) ==
  /\ songs' = Added(songs, <<song>>) /\ selected' = {song}
  /\ Play(Place(songs', song))
  /\ UNCHANGED <<drag, visible>>
  /\ RenderPlaylist

PlayRow(i) ==
  /\ UNCHANGED <<songs, selected, drag, visible>>
  /\ Play(i) /\ RenderPlaylist
(* The song ends or fails: another one follows (MusicPlayback says which),  *)
(* or none, and then the rows stay as they are.                             *)
Ended ==
  /\ playing # None
  /\ UNCHANGED <<songs, selected, drag, visible>>
  /\ \/ \E i \in DOMAIN songs : Play(i) /\ RenderPlaylist
     \/ ClearCurrent /\ UNCHANGED screen

(* loadPlaylistByName keeps the current song when the new list has it;      *)
(* loadNewPlaylist and loadPlaylistForRecent do not.                        *)
LoadByName(list) ==
  /\ songs' = list /\ selected' = {}
  /\ \/ NewPosition(list) # 0 /\ current' = NewPosition(list) /\ UNCHANGED playing
     \/ NewPosition(list) = 0 /\ ClearCurrent
  /\ UNCHANGED <<drag, visible>>
  /\ RenderPlaylist
LoadRecent(list, song) ==
  /\ songs' = list /\ selected' = {}
  /\ \/ Place(list, song) # 0 /\ Play(Place(list, song))
     \/ Place(list, song) = 0 /\ ClearCurrent
  /\ UNCHANGED <<drag, visible>>
  /\ RenderPlaylist

-----------------------------------------------------------------------------
(* A click selects one row, a control click toggles it; Ctrl+A takes all,   *)
(* and is the one of them that a key can do while the pointer drags.        *)
Select(s) ==
  /\ selected' = s /\ s # selected
  /\ UNCHANGED <<songs, current, playing, drag, visible>>
  /\ RenderSelection
Click == \E x \in Range(songs) : Select({x}) \/ Select((selected \cup {x}) \ (selected \cap {x}))
SelectAll == Select(Range(songs))

(* removeSelectedPlaylistSongs: another song takes the place of the current *)
(* one; otherwise the current one is looked up again.                       *)
RemoveSelected ==
  /\ selected # {}
  /\ songs' = Kept(songs, Songs \ selected) /\ selected' = {}
  /\ \/ CurrentSong \in selected /\ songs' # <<>>
        /\ Play(IF current < Len(songs') THEN current ELSE Len(songs'))
     \/ CurrentSong \in selected /\ songs' = <<>> /\ ClearCurrent
     \/ CurrentSong \notin selected
        /\ current' = NewPosition(songs') /\ UNCHANGED playing
  /\ UNCHANGED <<drag, visible>>
  /\ RenderPlaylist

-----------------------------------------------------------------------------
(* reorderPlaylistBlock: the selected songs, or the anchor alone, are taken *)
(* out and put before or after the target row.                              *)
Block(s, sel, anchor) == IF anchor \in sel THEN Range(s) \cap sel ELSE {anchor}
Reordered(s, sel, d) ==
  LET moved == Block(s, sel, d.anchor)
      rest == Kept(s, Songs \ moved)
      at == Place(rest, d.target) - (IF d.after THEN 0 ELSE 1)
  IN  IF d.target = None \/ d.target \in moved \/ Place(rest, d.target) = 0
        THEN s
        ELSE SubSeq(rest, 1, at) \o Kept(s, moved)
               \o SubSeq(rest, at + 1, Len(rest))

StartDrag(song) ==
  /\ drag = None /\ visible
  /\ drag' = [anchor |-> song, target |-> None, after |-> FALSE, active |-> FALSE]
  /\ selected' = IF song \in selected THEN selected ELSE {song}
  /\ UNCHANGED <<songs, current, playing, visible>>
  /\ RenderSelection
DragMove ==
  /\ drag # None
  /\ \E target \in Range(songs) \cup {None}, after \in BOOLEAN :
       drag' = [drag EXCEPT !.target = target, !.after = after /\ target # None, !.active = TRUE]
  /\ UNCHANGED <<songs, current, playing, selected, visible, screen>>

(* finishPlaylistDrag; a drag that changes nothing paints nothing.          *)
DragEnd(cancelled) ==
  /\ drag # None /\ drag' = None
  /\ LET next == IF cancelled \/ ~drag.active THEN songs ELSE Reordered(songs, selected, drag) IN
       \/ /\ next # songs
          /\ songs' = next
          /\ selected' = Block(songs, selected, drag.anchor)
          /\ current' = NewPosition(next)
          /\ UNCHANGED <<playing, visible>>
          /\ RenderPlaylist
       \/ next = songs /\ UNCHANGED <<songs, selected, current, playing, visible, screen>>

(* The pane is hidden; it becomes visible and what was put off is painted.  *)
Hide ==
  /\ visible /\ visible' = FALSE
  /\ UNCHANGED <<songs, current, playing, selected, drag, screen>>
Show ==
  /\ ~visible /\ visible' = TRUE
  /\ UNCHANGED <<songs, current, playing, selected, drag>>
  /\ \/ renderDirty /\ painted' = Rows(songs, current) /\ selectionShown' = selected
     \/ ~renderDirty /\ selectionDirty /\ selectionShown' = selected /\ UNCHANGED painted
     \/ ~renderDirty /\ ~selectionDirty /\ UNCHANGED <<painted, selectionShown>>
  /\ renderDirty' = FALSE /\ selectionDirty' = FALSE

Pane ==
  \/ Click \/ RemoveSelected
  \/ \E s \in Range(songs) : StartDrag(s)
  \/ \E i \in DOMAIN songs : PlayRow(i)
  \/ \E list \in Lists : LoadByName(list) \/ (\E s \in Songs : LoadRecent(list, s))
  \/ \E list \in Lists : AddSongs(list)
  \/ \E s \in Songs : AddAndPlay(s)
Next ==
  \/ visible /\ drag = None /\ Pane
  \/ visible /\ (SelectAll \/ DragMove)
  \/ \E c \in BOOLEAN : DragEnd(c)
  \/ Ended \/ Hide \/ Show

Spec == Init /\ [][Next]_vars

-----------------------------------------------------------------------------
(* The position stands for the song that is heard: whatever was added,      *)
(* removed, dragged or loaded around it, the row marked as current is the   *)
(* song in the audio element, and nothing is heard without a current row.   *)
CurrentIsPlaying == playing = CurrentSong

(* A drop moves the block and nothing else: the same songs, the block in    *)
(* its old order next to the target and the others in their old order.      *)
DropKeepsOrder ==
  drag # None /\ drag.active =>
    LET next == Reordered(songs, selected, drag)
        moved == Block(songs, selected, drag.anchor)
    IN  /\ Kept(next, moved) = Kept(songs, moved)
        /\ Kept(next, Songs \ moved) = Kept(songs, Songs \ moved)
        /\ next # songs => \E i \in DOMAIN next :
             SubSeq(next, i, i + Cardinality(moved) - 1) = Kept(songs, moved)
             /\ drag.target = next[IF drag.after THEN i - 1 ELSE i + Cardinality(moved)]

(* What is on a visible pane is the playlist and its selection, however     *)
(* much changed while it was hidden.                                        *)
ScreenIsCurrent ==
  visible => painted.songs = songs /\ selectionShown = selected

-----------------------------------------------------------------------------
(* The inductive invariant.  A screen that is not up to date is marked so,  *)
(* and only a hidden one may be; and the rows that a drag speaks of are in  *)
(* the list, which nothing changes while the pointer drags.                 *)
ScreenUnlessDirty ==
  /\ visible => ~renderDirty /\ ~selectionDirty
  /\ renderDirty \/ painted.songs = songs
  /\ renderDirty \/ selectionDirty \/ selectionShown = selected
DragIsInList ==
  drag # None => drag.anchor \in Range(songs) /\ drag.target \in Range(songs) \cup {None}
IInv == TypeOK /\ CurrentIsPlaying /\ ScreenUnlessDirty /\ DragIsInList
=============================================================================
