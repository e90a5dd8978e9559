----------------------------- MODULE PageParts -----------------------------
(***************************************************************************)
(* The parts of the browser page that are proved together in PageProofs:    *)
(* saved playlists, the queue and the walk through it, the now-playing      *)
(* panel, the library pane, file search, the folder view, the waveform, the *)
(* video pane and its subtitles.  Parts composes them with the others.      *)
(*                                                                         *)
(* The parts share no state that their properties speak of; Parts follows   *)
(* one of them at a time, so they take turns with the variables.  v1, v2,   *)
(* ... are those of the part, in the order in which its INSTANCE names them.*)
(***************************************************************************)
EXTENDS Naturals, Sequences, FiniteSets

CONSTANTS
  None, Off,
  Names, Default, Contents, Empty, Imports,        \* playlists
  QueueSongs, Edits, RetryLimit,                   \* the queue and the walk through it
  PanelSongs, Untitled, Coverless, MaxLoads,       \* what a panel shows of a song
  Limit, WaveTokens, MaxTasks,                     \* its waveform
  Folders, SongsOf,                                \* folders and the libraries below them
  Queries, Matches, MaxStale,                      \* file search
  MaxVersion, MaxEntries,                          \* the folder view
  Videos, Positions, VideoTokens,                  \* the video pane
  Streams, Last, Width, SubtitleTokens             \* its subtitles

VARIABLES v1, v2, v3, v4, v5, v6, v7, v8, v9, v10, v11, v12, v13, v14

Playlists == INSTANCE Playlists WITH
  Batches <- Imports,
  active <- v1, saved <- v2, dirty <- v3, stored <- v4, disk <- v5, dialogs <- v6,
  pending <- v7, importing <- v8, touched <- v9, apart <- v10

Queue == INSTANCE PlaylistQueue WITH
  Songs <- QueueSongs,
  songs <- v1, current <- v2, playing <- v3, selected <- v4, drag <- v5, visible <- v6,
  painted <- v7, renderDirty <- v8, selectionShown <- v9, selectionDirty <- v10

Playback == INSTANCE MusicPlayback WITH
  Songs <- QueueSongs, Lists <- Edits,
  songs <- v1, current <- v2, shuffle <- v3, loop <- v4, order <- v5, cursor <- v6,
  retries <- v7, retrySong <- v8, timer <- v9, audio <- v10

Playing == INSTANCE NowPlaying WITH
  Songs <- PanelSongs,
  song <- v1, loads <- v2, loadedFor <- v3, panel <- v4, title <- v5, art <- v6,
  owner <- v7, snapshots <- v8, card <- v9

Library == INSTANCE MediaLibrary WITH
  browsed <- v1, folder <- v2, root <- v3, requested <- v4, snapshot <- v5, loading <- v6,
  timer <- v7, failed <- v8, polling <- v9, disabled <- v10, visible <- v11, dirty <- v12,
  painted <- v13, selected <- v14

Search == INSTANCE FileSearch WITH
  Paths <- Folders,
  browsed <- v1, criteria <- v2, pane <- v3, active <- v4, root <- v5, session <- v6,
  loaded <- v7, raw <- v8, more <- v9, request <- v10, stale <- v11, timer <- v12,
  scan <- v13

Browse == INSTANCE Browse WITH
  path <- v1, phase <- v2, rows <- v3, drawn <- v4, version <- v5, loads <- v6,
  pollers <- v7, entries <- v8, at <- v9, timer <- v10, told <- v11

Waveform == INSTANCE Waveform WITH
  Songs <- PanelSongs, MaxToken <- WaveTokens,
  song <- v1, playing <- v2, wave <- v3, tasks <- v4, late <- v5, stored <- v6

Video == INSTANCE VideoSession WITH
  Items <- Videos, Times <- Positions, MaxToken <- VideoTokens,
  player <- v1, pane <- v2, probed <- v3, polls <- v4, server <- v5

Subtitles == INSTANCE Subtitles WITH
  MaxToken <- SubtitleTokens,
  video <- v1, mount <- v2, seen <- v3, cache <- v4, loads <- v5, refresh <- v6,
  batch <- v7, failure <- v8
=============================================================================
