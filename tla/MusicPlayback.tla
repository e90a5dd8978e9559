---------------------------- MODULE MusicPlayback ----------------------------
(***************************************************************************)
(* Which song is played next, and what happens when one fails:              *)
(* music/playback.js with music/shuffle-helpers.js.                         *)
(*                                                                         *)
(* Positions count from 1 and 0 is none.  The shuffle order is built when   *)
(* it is needed and thrown away by every edit of the playlist.  The audio   *)
(* element reports what became of a load at any later time; an error asks   *)
(* for the same song again, a limited number of times, and then the next.   *)
(***************************************************************************)
EXTENDS Integers, Sequences, Functions

CONSTANTS
  Songs,        \* songs
  Lists,        \* the playlists that edits can produce
  None,         \* no song
  RetryLimit    \* playbackLoadRetryLimit()

(* What Parts assumes of the constants.                                     *)
ListsAndLimit == Lists \subseteq Seq(Songs) /\ <<>> \in Lists /\ RetryLimit \in Nat

VARIABLES
  songs,        \* state.playlist
  current,      \* currentPlaylistIndex
  shuffle,      \* shuffleEnabled
  loop,         \* loopPlaylist
  order,        \* shuffleSequence
  cursor,       \* shuffleCursor
  retries,      \* playbackLoadRetryCount
  retrySong,    \* playbackRetryRemotePath
  timer,        \* the song whose retry the running timer asks for, or None
  audio         \* the audio element: "empty", "loading", "playing", "paused", "failed"

vars == <<songs, current, shuffle, loop, order, cursor, retries, retrySong, timer, audio>>
place == <<songs, current>>
modes == <<shuffle, loop>>
walk == <<order, cursor>>
load == <<retries, retrySong, timer, audio>>

Song(i) == IF i \in DOMAIN songs THEN songs[i] ELSE None
Place(s, x) == IF \E i \in DOMAIN s : s[i] = x THEN CHOOSE i \in DOMAIN s : s[i] = x ELSE 0

TypeOK ==
  /\ songs \in Lists /\ current \in 0 .. Len(songs)
  /\ {shuffle, loop} \subseteq BOOLEAN
  /\ order \in Seq(Nat) /\ cursor \in 0 .. Len(order)
  /\ retries \in 0 .. RetryLimit /\ {retrySong, timer} \subseteq Songs \cup {None}
  /\ audio \in {"empty", "loading", "playing", "paused", "failed"}

Init ==
  /\ songs = <<>> /\ current = 0
  /\ shuffle \in BOOLEAN /\ loop \in BOOLEAN
  /\ order = <<>> /\ cursor = 0
  /\ retries = 0 /\ retrySong = None /\ timer = None /\ audio = "empty"

-----------------------------------------------------------------------------
(* buildShuffledIndices: any order of the positions.                        *)
Orders(n) == {p \in [1 .. n -> 1 .. n] : IsInjective(p)}

(* rebuildShuffleSequence: the current song comes first.                    *)
Rebuilds(n, at) ==
  IF at \in 1 .. n
    THEN {[order |-> p, cursor |-> 1] : p \in {q \in Orders(n) : q[1] = at}}
    ELSE {[order |-> p, cursor |-> 0] : p \in Orders(n)}

(* isValidShuffleSequence and ensureShuffleState                            *)
IsOrder(o, n) == Len(o) = n /\ Range(o) = 1 .. n
Ensured(at) ==
  IF IsOrder(order, Len(songs)) THEN {[order |-> order, cursor |-> cursor]} ELSE Rebuilds(Len(songs), at)

(* Slip: the cursor is set only when the order is built.                    *)
SyncOrderOnly(w, at) ==
  IF ~shuffle \/ IsOrder(w.order, Len(songs)) THEN {w} ELSE Rebuilds(Len(songs), at)

(* syncShuffleCursorForIndex: the cursor goes to the position's place.      *)
SyncShuffle(w, at) ==
  IF ~shuffle THEN {w}
  ELSE LET base == IF IsOrder(w.order, Len(songs)) THEN {w} ELSE Rebuilds(Len(songs), at)
       IN  UNION {IF Place(b.order, at) = 0 THEN Rebuilds(Len(songs), at)
                  ELSE {[b EXCEPT !.cursor = Place(b.order, at)]} : b \in base}
Walk == [order |-> order, cursor |-> cursor]

(* resolveNextPlaylistIndex and resolvePreviousPlaylistIndex: the position  *)
(* to play, 0 for none, and the walk after it.                              *)
Step(w, i, c) == [index |-> i, walk |-> [w EXCEPT !.cursor = c]]
NextIndexes ==
  LET n == Len(songs) IN
  IF n = 0 THEN {Step([order |-> <<>>, cursor |-> 0], 0, 0)}
  ELSE IF shuffle
    THEN {IF w.cursor < n THEN Step(w, w.order[w.cursor + 1], w.cursor + 1)
          ELSE IF loop THEN Step(w, w.order[1], 1) ELSE Step(w, 0, w.cursor) : w \in Ensured(current)}
    ELSE {IF current < n THEN Step(Walk, current + 1, cursor)
          ELSE Step(Walk, IF loop THEN 1 ELSE 0, cursor)}
PreviousIndexes ==
  LET n == Len(songs) IN
  IF n = 0 THEN {Step([order |-> <<>>, cursor |-> 0], 0, 0)}
  ELSE IF shuffle
    THEN {IF w.cursor > 1 THEN Step(w, w.order[w.cursor - 1], w.cursor - 1)
          ELSE IF w.cursor = 1 /\ loop THEN Step(w, w.order[n], n) ELSE Step(w, w.order[1], 1) :
            w \in Ensured(current)}
    ELSE {IF current > 1 THEN Step(Walk, current - 1, cursor)
          ELSE Step(Walk, IF loop THEN n ELSE 1, cursor)}

-----------------------------------------------------------------------------
(* playPlaylistIndex after the walk w; clearCurrentSong.                    *)
Play(w, i) ==
  /\ current' = i
  /\ \E s \in SyncShuffle(w, i) : order' = s.order /\ cursor' = s.cursor
  /\ retries' = 0 /\ retrySong' = songs[i] /\ timer' = None
  /\ audio' = "loading"
  /\ UNCHANGED <<songs, modes>>
ClearLoad == retries' = 0 /\ retrySong' = None /\ timer' = None /\ audio' = "empty"
Clear(w) ==
  /\ current' = 0 /\ ClearLoad
  /\ order' = w.order /\ cursor' = w.cursor
  /\ UNCHANGED <<songs, modes>>

PlayNext == \E s \in NextIndexes : IF s.index = 0 THEN Clear(s.walk) ELSE Play(s.walk, s.index)
PlayPrevious ==
  \E s \in PreviousIndexes :
    \/ s.index # 0 /\ Play(s.walk, s.index)
    \/ s.index = 0 /\ order' = s.walk.order /\ cursor' = s.walk.cursor /\ UNCHANGED <<place, modes, load>>

NextButton == PlayNext
PlayRow(i) == Play(Walk, i)

(* playCurrentOrFirst and pausePlayback, one button between them.           *)
PlayButton ==
  /\ audio \in {"empty", "paused"}
  /\ \/ current # 0
        /\ audio' = "loading" /\ timer' = None
        /\ UNCHANGED <<place, modes, walk, retries, retrySong>>
     \/ current = 0 /\ songs # <<>> /\ Play(Walk, 1)
PauseButton ==
  /\ audio \in {"loading", "playing", "failed"}
  /\ audio' = "paused" /\ timer' = None
  /\ UNCHANGED <<place, modes, walk, retries, retrySong>>

ToggleShuffle ==
  /\ shuffle' = ~shuffle
  /\ \/ shuffle /\ order' = <<>> /\ cursor' = 0
     \/ ~shuffle /\ \E w \in Rebuilds(Len(songs), current) : order' = w.order /\ cursor' = w.cursor
  /\ UNCHANGED <<place, loop, load>>
ToggleLoop == loop' = ~loop /\ UNCHANGED <<place, shuffle, walk, load>>

(* Any edit of the playlist (PlaylistQueue) drops the shuffle order and     *)
(* keeps the current song if the list still has it.                         *)
Edit(list) ==
  /\ list # songs /\ songs' = list
  /\ order' = <<>> /\ cursor' = 0
  /\ LET at == IF current = 0 THEN 0 ELSE Place(list, Song(current)) IN
       /\ current' = at
       /\ IF current # 0 /\ at = 0 THEN ClearLoad ELSE UNCHANGED load
  /\ UNCHANGED modes

-----------------------------------------------------------------------------
(* Events of the audio element.  resetPlaybackLoadRetries on the first sign *)
(* that the file can be played.                                             *)
ResetRetries == retries' = 0 /\ retrySong' = Song(current) /\ timer' = None
LoadedMetadata ==
  /\ audio \in {"loading", "paused"} /\ current # 0
  /\ ResetRetries /\ UNCHANGED <<place, modes, walk, audio>>
Playing ==
  /\ audio = "loading" /\ audio' = "playing"
  /\ ResetRetries /\ UNCHANGED <<place, modes, walk>>
Ended == audio = "playing" /\ PlayNext

(* queueSongLoadRetry, and skipFailedSong when the retries are used up.     *)
Error ==
  /\ audio \in {"loading", "playing", "paused"} /\ current # 0
  /\ LET used == IF retrySong = Song(current) THEN retries ELSE 0 IN
       \/ /\ used < RetryLimit
          /\ retrySong' = Song(current) /\ retries' = used + 1 /\ timer' = Song(current)
          /\ audio' = "failed" /\ UNCHANGED <<place, modes, walk>>
       \/ used >= RetryLimit /\ PlayNext
RetryTimer ==
  /\ timer # None /\ timer' = None
  /\ \/ Song(current) = timer /\ audio' = "loading"
     \/ Song(current) # timer /\ UNCHANGED audio
  /\ UNCHANGED <<place, modes, walk, retries, retrySong>>

User ==
  \/ NextButton \/ PlayPrevious \/ PlayButton \/ PauseButton \/ ToggleShuffle \/ ToggleLoop
  \/ \E i \in DOMAIN songs : PlayRow(i)
  \/ \E list \in Lists : Edit(list)
Next == User \/ LoadedMetadata \/ Playing \/ Ended \/ Error \/ RetryTimer

Spec == Init /\ [][Next]_vars

-----------------------------------------------------------------------------
(* The shuffle order is a walk over the whole playlist and stands at the    *)
(* song that is played: a cursor left behind by an edit, a skip or a click  *)
(* would repeat songs and leave others out.                                 *)
WalkIsAtSong ==
  shuffle /\ order # <<>> =>
    IsOrder(order, Len(songs)) /\ (current # 0 => cursor # 0 /\ order[cursor] = current)

(* A retry that waits is a retry of the song of the row that is current,    *)
(* never of one that was left by a click, an edit of the list or an end.    *)
RetryIsCurrents == timer # None => current # 0 /\ timer = Song(current)

IInv == TypeOK /\ WalkIsAtSong /\ RetryIsCurrents
=============================================================================
