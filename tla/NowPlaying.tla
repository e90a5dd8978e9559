----------------------------- MODULE NowPlaying -----------------------------
(***************************************************************************)
(* The now-playing panel and the system media card: music/metadata.js with   *)
(* music/coverart.js, the publishing half of music/playback.js and            *)
(* media-library/media-session.js.                                           *)
(*                                                                         *)
(* Metadata is fetched once the audio is confirmed playing and arrives at    *)
(* any later time; a request id tells the newest load.  The music and the    *)
(* video pane publish snapshots, one of them owns the card.  An embedded     *)
(* title, an artist and a cover come together and are named by their song.   *)
(***************************************************************************)
EXTENDS Integers, FiniteSets

CONSTANTS
  Songs,      \* songs
  Untitled,   \* songs whose file has no title among its tags
  Coverless,  \* songs whose file has no cover
  None,       \* nothing
  MaxLoads    \* bound: metadata loads on their way

Kinds == {"music", "video"}

VARIABLES
  song,       \* the current song
  loads,      \* the fetches on their way: their song, and whether theirs is
              \* the newest metadataRequestId
  loadedFor,  \* metadataLoadedRemotePath
  panel,      \* the song whose metadata the panel shows, or None
  title,      \* mediaSessionTitle: the song whose embedded title it is, or None
  art,        \* currentArtObjectUrl: the song whose cover it is, or None
  owner,      \* the kind that owns the media session
  snapshots,  \* the last snapshot of each kind
  card        \* what navigator.mediaSession shows

vars == <<song, loads, loadedFor, panel, title, art, owner, snapshots, card>>
request == <<loads, loadedFor>>

Snapshot == [of : Songs \cup Kinds, title : Songs \cup {None}, art : Songs \cup {None},
             state : {"playing", "paused", None}]
(* What the proofs and MCParts assume of the constants.                     *)
NoneIsNothing == None \notin Songs /\ None \notin Kinds /\ None \notin Snapshot

TypeOK ==
  /\ song \in Songs \cup {None} /\ loadedFor \in Songs \cup {None}
  /\ loads \subseteq [song : Songs, newest : BOOLEAN]
  /\ {panel, title, art} \subseteq Songs \cup {None}
  /\ owner \in Kinds \cup {None}
  /\ snapshots \in [Kinds -> Snapshot \cup {None}] /\ card \in Snapshot \cup {None}

Init ==
  /\ song = None /\ loads = {} /\ loadedFor = None /\ panel = None /\ title = None /\ art = None
  /\ owner = None /\ snapshots = [k \in Kinds |-> None] /\ card = None

-----------------------------------------------------------------------------
(* What parsing finds in the bytes of a file: parseMetadataBuffers and      *)
(* resolveCoverArtFromMetadata, by container.                               *)
TitleIn(s) == IF s \in Untitled THEN None ELSE s
CoverIn(s) == IF s \in Coverless THEN None ELSE s

(* Slip: the card is written whoever owns it.                               *)
UpdateAnyway(k, snap) ==
  /\ snapshots' = [snapshots EXCEPT ![k] = snap]
  /\ owner' = IF snap.state = "playing" THEN k ELSE owner
  /\ card' = snap

(* updateMediaSession: the snapshot is merged into the last one of its kind *)
(* and written when the kind owns the session; "playing" claims it.         *)
Update(k, snap) ==
  LET last == snapshots[k]
      merged == IF snap.state = None /\ last # None THEN [snap EXCEPT !.state = last.state] ELSE snap
  IN  /\ snapshots' = [snapshots EXCEPT ![k] = merged]
      /\ owner' = IF snap.state = "playing" THEN k ELSE owner
      /\ card' = IF owner' = k THEN merged ELSE card

(* claimMediaSession after an update.                                       *)
Claim(k, snap) ==
  /\ snapshots' = [snapshots EXCEPT ![k] = snap]
  /\ owner' = k /\ card' = snap

(* releaseMediaSession clears the card of the owner only.                   *)
Release(k) ==
  \/ owner = k /\ owner' = None /\ card' = None /\ snapshots' = [snapshots EXCEPT ![k] = None]
  \/ owner # k /\ UNCHANGED <<owner, card, snapshots>>

(* musicMediaSessionSnapshot; nothing is published without a song.          *)
Music(state) == [of |-> song', title |-> title', art |-> art', state |-> state]
Publish(state) ==
  IF song' = None THEN UNCHANGED <<owner, snapshots, card>> ELSE Update("music", Music(state))

-----------------------------------------------------------------------------
(* playPlaylistIndex: the panel goes to placeholders and the cover goes;    *)
(* loads of the song before stay on their way.                              *)
PlaySong(s) ==
  /\ song' = s
  /\ loadedFor' = None /\ panel' = None /\ title' = None /\ art' = None
  /\ Publish("playing")
  /\ UNCHANGED loads

(* The audio element is playing: maybeStartCurrentSongMetadataLoad.         *)
Playing ==
  /\ song # None
  /\ UNCHANGED <<song, title>>
  /\ \/ /\ loadedFor # song /\ Cardinality(loads) < MaxLoads
        /\ loadedFor' = song
        /\ loads' = {[l EXCEPT !.newest = FALSE] : l \in loads} \cup {[song |-> song, newest |-> TRUE]}
        /\ panel' = None /\ art' = None
     \/ loadedFor = song /\ UNCHANGED <<request, panel, art>>
  /\ Publish("playing")

(* The bytes are read and parsed, and the cover is found (or not) in them:  *)
(* applyMetadataResult, unless a newer load was started.                    *)
MetadataArrives(l) ==
  /\ l \in loads /\ loads' = loads \ {l}
  /\ UNCHANGED <<song, loadedFor>>
  /\ \/ /\ l.newest
        /\ panel' = l.song
        /\ title' = TitleIn(l.song) /\ art' = CoverIn(l.song)
        /\ Publish(None)
     \/ ~l.newest /\ UNCHANGED <<panel, title, art, owner, snapshots, card>>
(* The fetch fails: showUnknownMetadata.                                    *)
MetadataFails(l) ==
  /\ l \in loads /\ loads' = loads \ {l}
  /\ UNCHANGED <<song, loadedFor, title>>
  /\ \/ l.newest /\ panel' = None /\ art' = None /\ Publish(None)
     \/ ~l.newest /\ UNCHANGED <<panel, art, owner, snapshots, card>>

(* The audio element pauses or reports progress; the user pauses or seeks   *)
(* in the pane.                                                             *)
MusicReports ==
  /\ song # None
  /\ UNCHANGED <<song, request, panel, title, art>>
  /\ (Publish("paused") \/ Publish(None))
MusicClaims ==
  /\ song # None
  /\ UNCHANGED <<song, request, panel, title, art>>
  /\ \E state \in {"playing", "paused"} : Claim("music", Music(state))

(* clearCurrentSong                                                         *)
ClearCurrentSong ==
  /\ song' = None
  /\ loads' = {[l EXCEPT !.newest = FALSE] : l \in loads} /\ loadedFor' = None
  /\ panel' = None /\ title' = None /\ art' = None
  /\ Release("music")

(* The audio element drops its source while a retry loads it again.         *)
Emptied ==
  /\ song # None /\ art' = None
  /\ UNCHANGED <<song, request, panel, title>>
  /\ Publish(None)

-----------------------------------------------------------------------------
(* The video pane publishes through the same owner.                         *)
Video(state) == [of |-> "video", title |-> None, art |-> None, state |-> state]
VideoReports ==
  /\ \E state \in {"playing", "paused", None} : Update("video", Video(state))
  /\ UNCHANGED <<song, request, panel, title, art>>
VideoStops ==
  /\ Release("video")
  /\ UNCHANGED <<song, request, panel, title, art>>

Next ==
  \/ \E s \in Songs : PlaySong(s)
  \/ \E l \in loads : MetadataArrives(l) \/ MetadataFails(l)
  \/ Playing \/ MusicReports \/ MusicClaims \/ ClearCurrentSong \/ Emptied
  \/ VideoReports \/ VideoStops

Spec == Init /\ [][Next]_vars

-----------------------------------------------------------------------------
(* The card belongs to its owner and is up to date: another player's pauses *)
(* and progress never show on it, a music card names the song that is       *)
(* current, and its cover is the object URL in use, never a revoked one.    *)
CardIsOwners ==
  /\ (owner = None) = (card = None)
  /\ owner = "video" => card.of = "video"
  /\ owner = "music" => card.of = song /\ card.art = art /\ card.title = title

(* What keeps it: without a current song nothing that arrives is applied,   *)
(* and music does not own the card.                                         *)
NothingWithoutSong ==
  song = None => owner # "music" /\ \A l \in loads : ~l.newest

IInv == TypeOK /\ CardIsOwners /\ NothingWithoutSong
=============================================================================
