------------------------------- MODULE Parts -------------------------------
(***************************************************************************)
(* Every part of the browser page that has no run of its own, the server's  *)
(* video sessions, and the write path of CacheFlush beside them.            *)
(*                                                                         *)
(* The parts share no state that their properties speak of, so a behaviour  *)
(* follows one of them, chosen at the start, with all its interleavings:    *)
(* the states are the union of the parts' states, not their product.  The   *)
(* variables v1, v2, ... are those of the part, in the order in which its   *)
(* INSTANCE names them; the others are None.                                *)
(***************************************************************************)
EXTENDS PageParts

CONSTANTS
  PhotosOf, Readers, Batch, MaxRun,                \* the scan for photos
  Photos, Slots, Group, Pin, MaxDemand,            \* their thumbnails
  Clients, MaxSessions, ClientTokens, MaxCreates, MaxStops,    \* video sessions
  Paths, Flushers, Clearers, Tree, Versions, MaxEpoch, MaxRepair, MaxTime,
  MaxRestarts                                      \* CacheFlush

VARIABLES part, v15, v16, v17, v18, v19, v20

after4 == <<v5, v6, v7, v8, v9, v10, v11, v12, v13, v14, v15, v16, v17, v18, v19, v20>>
after5 == <<v6, v7, v8, v9, v10, v11, v12, v13, v14, v15, v16, v17, v18, v19, v20>>
after6 == <<v7, v8, v9, v10, v11, v12, v13, v14, v15, v16, v17, v18, v19, v20>>
after7 == <<v8, v9, v10, v11, v12, v13, v14, v15, v16, v17, v18, v19, v20>>
after8 == <<v9, v10, v11, v12, v13, v14, v15, v16, v17, v18, v19, v20>>
after9 == <<v10, v11, v12, v13, v14, v15, v16, v17, v18, v19, v20>>
after10 == <<v11, v12, v13, v14, v15, v16, v17, v18, v19, v20>>
after11 == <<v12, v13, v14, v15, v16, v17, v18, v19, v20>>
after13 == <<v14, v15, v16, v17, v18, v19, v20>>
after14 == <<v15, v16, v17, v18, v19, v20>>
vars == <<part, v1, v2, v3, v4, after4>>

(* The variables behind the n-th are not used.                              *)
Unused(n) ==
  /\ IF n < 5 THEN v5 = None ELSE TRUE
  /\ IF n < 6 THEN v6 = None ELSE TRUE
  /\ IF n < 7 THEN v7 = None ELSE TRUE
  /\ IF n < 8 THEN v8 = None ELSE TRUE
  /\ IF n < 9 THEN v9 = None ELSE TRUE
  /\ IF n < 10 THEN v10 = None ELSE TRUE
  /\ IF n < 11 THEN v11 = None ELSE TRUE
  /\ IF n < 13 THEN v12 = None /\ v13 = None ELSE TRUE
  /\ IF n < 14 THEN v14 = None ELSE TRUE
  /\ IF n < 15 THEN /\ v15 = None /\ v16 = None /\ v17 = None
                    /\ v18 = None /\ v19 = None /\ v20 = None
               ELSE TRUE

-----------------------------------------------------------------------------
Scan == INSTANCE PhotoScanProofs WITH
  ItemsOf <- PhotosOf, Workers <- Readers,
  pane <- v1, gen <- v2, disk <- v3, server <- v4

Thumbs == INSTANCE PhotoThumbsProofs WITH
  Paths <- Photos,
  queue <- v1, known <- v2, shown <- v3, emitted <- v4, on <- v5, changes <- v6

Hls == INSTANCE HlsSessionsProofs WITH
  MaxToken <- ClientTokens,
  creates <- v1, sessions <- v2, pending <- v3, deferred <- v4, drain <- v5, clients <- v6,
  superseded <- v7

Cache == INSTANCE CacheFlushProofs WITH
  MaxVersion <- Versions,
  mem <- v1, epoch <- v2, dirty <- v3, sticky <- v4, asked <- v5, batch <- v6, staged <- v7,
  looping <- v8, disk <- v9, now <- v10, cutoff <- v11, stage <- v12, since <- v13,
  todo <- v14, sweep <- v15, chosen <- v16, lastVer <- v17, dead <- v18, dropped <- v19,
  restarts <- v20

(* What CacheFlush assumes, and the bounds that have none in their module.  *)
CacheAssumption ==
  /\ Tree \subseteq Paths /\ Versions \in [Paths -> Nat]
  /\ MaxEpoch \in [Paths -> Nat] /\ MaxRepair \in Nat /\ MaxTime \in Nat /\ MaxRestarts \in Nat
BoundsAreNatural == MaxStale \in Nat /\ MaxVersion \in Nat \ {0} /\ VideoTokens \in Nat

ASSUME PartsAssumption ==
  /\ CacheAssumption /\ BoundsAreNatural
  /\ Playlists!NamesAndContents /\ Playlists!ImportsAreFiles
  /\ Queue!NoneIsNoSong /\ Playback!ListsAndLimit /\ Playing!NoneIsNothing
  /\ Library!NoneIsNothing /\ Search!NoneIsNothing /\ Video!TimesHaveStart
  /\ Subtitles!BoundsAreNatural /\ Subtitles!NoneIsNoKey /\ Waveform!LimitAndNone
  /\ Scan!ScanAssumption /\ Thumbs!ThumbsAssumption /\ Hls!SessionsAssumption

-----------------------------------------------------------------------------
Init ==
  \/ part = "playlists" /\ Playlists!Init /\ Unused(10)
  \/ part = "queue" /\ Queue!Init /\ Unused(10)
  \/ part = "playback" /\ Playback!Init /\ Unused(10)
  \/ part = "playing" /\ Playing!Init /\ Unused(9)
  \/ part = "library" /\ Library!Init /\ Unused(14)
  \/ part = "search" /\ Search!Init /\ Unused(13)
  \/ part = "video" /\ Video!Init /\ Unused(5)
  \/ part = "subtitles" /\ Subtitles!Init /\ Unused(8)
  \/ part = "waveform" /\ Waveform!Init /\ Unused(6)
  \/ part = "scan" /\ Scan!Init /\ Unused(4)
  \/ part = "thumbs" /\ Thumbs!Init /\ Unused(6)
  \/ part = "browse" /\ Browse!Init /\ Unused(11)
  \/ part = "hls" /\ Hls!Init /\ Unused(7)
  \/ part = "cache" /\ Cache!Init

PlaylistsStep == part = "playlists" /\ Playlists!Next /\ UNCHANGED <<part, after10>>
QueueStep == part = "queue" /\ Queue!Next /\ UNCHANGED <<part, after10>>
PlaybackStep == part = "playback" /\ Playback!Next /\ UNCHANGED <<part, after10>>
PlayingStep == part = "playing" /\ Playing!Next /\ UNCHANGED <<part, after9>>
LibraryStep == part = "library" /\ Library!Next /\ UNCHANGED <<part, after14>>
SearchStep == part = "search" /\ Search!Next /\ UNCHANGED <<part, after13>>
VideoStep == part = "video" /\ Video!Next /\ UNCHANGED <<part, after5>>
SubtitlesStep == part = "subtitles" /\ Subtitles!Next /\ UNCHANGED <<part, after8>>
WaveformStep == part = "waveform" /\ Waveform!Next /\ UNCHANGED <<part, after6>>
ScanStep == part = "scan" /\ Scan!Next /\ UNCHANGED <<part, after4>>
ThumbsStep == part = "thumbs" /\ Thumbs!Next /\ UNCHANGED <<part, after6>>
BrowseStep == part = "browse" /\ Browse!Next /\ UNCHANGED <<part, after11>>
HlsStep == part = "hls" /\ Hls!Next /\ UNCHANGED <<part, after7>>
CacheStep == part = "cache" /\ Cache!Next /\ UNCHANGED part

Next ==
  \/ PlaylistsStep \/ QueueStep \/ PlaybackStep \/ PlayingStep \/ LibraryStep
  \/ SearchStep \/ VideoStep \/ SubtitlesStep \/ WaveformStep \/ ScanStep
  \/ ThumbsStep \/ BrowseStep \/ HlsStep \/ CacheStep

(* The fairness of FileSearch, PhotoThumbs and CacheFlush.                  *)
Spec ==
  /\ Init /\ [][Next]_vars
  /\ WF_vars(part = "search" /\ Search!Poll /\ UNCHANGED <<part, after13>>)
  /\ WF_vars(part = "search" /\ (Search!Answered \/ Search!Fail) /\ UNCHANGED <<part, after13>>)
  /\ WF_vars(part = "search" /\ Search!ScanEnds /\ UNCHANGED <<part, after13>>)
  /\ WF_vars(part = "thumbs" /\ Thumbs!Settles /\ UNCHANGED <<part, after6>>)
  /\ \A f \in Flushers :
       WF_vars(part = "cache" /\ f \in v8 /\ Cache!Flush(f) /\ UNCHANGED part)

-----------------------------------------------------------------------------
(* Type correctness of each part.                                           *)
TypeOK ==
  CASE part = "playlists" -> Playlists!TypeOK
    [] part = "queue" -> Queue!TypeOK
    [] part = "playback" -> Playback!TypeOK
    [] part = "playing" -> Playing!TypeOK
    [] part = "library" -> Library!TypeOK
    [] part = "search" -> Search!TypeOK
    [] part = "video" -> Video!TypeOK
    [] part = "subtitles" -> Subtitles!TypeOK
    [] part = "waveform" -> Waveform!TypeOK
    [] part = "scan" -> Scan!TypeOK
    [] part = "thumbs" -> Thumbs!TypeOK
    [] part = "browse" -> Browse!TypeOK
    [] part = "hls" -> Hls!TypeOK
    [] part = "cache" -> Cache!TypeOK

(* playlist.js: a playlist shown as saved is what is stored under its name. *)
SavedIsKept == part = "playlists" => Playlists!SavedIsKept

(* playlist.js: the current row is the song that is heard, a drop moves the *)
(* dragged block and nothing else, and a visible pane shows the queue.      *)
QueueIsHeardAndShown ==
  part = "queue" => Queue!CurrentIsPlaying /\ Queue!DropKeepsOrder /\ Queue!ScreenIsCurrent

(* playback.js: the shuffle walk stands at the current song, and a retry    *)
(* that waits is the current song's.                                        *)
WalkIsAtSong == part = "playback" => Playback!WalkIsAtSong /\ Playback!RetryIsCurrents

(* media-session.js: the system media card is its owner's, and up to date.  *)
CardIsOwners == part = "playing" => Playing!CardIsOwners

(* library.js: an incomplete library is asked for again, and a visible pane *)
(* shows the last answer.                                                   *)
LibraryKeepsUp == part = "library" => Library!KeepsPolling /\ Library!ScreenIsCurrent

(* file-search.js: the results are those of the search that is shown.       *)
ResultsAreSearchs == part = "search" => Search!ResultsAreSearchs
(* file-search.js: every search ends, or shows all that its scan has found. *)
SearchSettles ==
  (part = "search" /\ Search!Searching) ~> (part = "search" /\ Search!Settled)

(* video/compatibility.js: the attached session plays the active item, and  *)
(* a seek that waits for a restart is served by one.                        *)
SessionServesItem == part = "video" => Video!SessionIsActives /\ Video!SeekIsServed

(* subtitles.js: a window that playback left is replaced, or the failure is *)
(* shown.                                                                   *)
RefreshIsUnderWay == part = "subtitles" => Subtitles!RefreshIsUnderWay

(* waveform/controller.js: what is drawn and kept is the song's, and a busy *)
(* panel has its work under way.                                            *)
SummaryIsSongs == part = "waveform" => Waveform!SummaryIsSongs /\ Waveform!StageHasWork

(* photo-map.js and photo-map/thumbnails.js: a scan that ended has shown    *)
(* and saved every item, and no record waits for an event that will not     *)
(* come; every thumbnail in demand is queued, requested or answered, the    *)
(* most urgent first, and what is loaded is shown.                          *)
PhotoMapIsServed ==
  /\ part = "scan" => Scan!DoneIsSaved /\ Scan!NothingIsStranded
  /\ part = "thumbs" => Thumbs!DemandIsServed /\ Thumbs!UrgentIsFirst /\ Thumbs!LoadedIsShown

(* browse/main.js: the address follows the folder, the rows are the         *)
(* folder's and the pollers are the rows'.                                  *)
FolderIsShown == part = "browse" => Browse!FolderIsShown

(* video.py: the limit holds, no ffmpeg is left behind, and a session that  *)
(* was stopped while it was created is not kept.                            *)
SessionsAreAccounted ==
  part = "hls" => Hls!LimitHolds /\ Hls!NothingLeaks /\ Hls!StopIsFinal
=============================================================================
