------------------------------ MODULE Subtitles ------------------------------
(***************************************************************************)
(* The sidecar subtitles of the video that plays: video/subtitles.js,       *)
(* video/subtitle-mount-core.js and handleSubtitleTrackChange of            *)
(* video/tracks.js.                                                         *)
(*                                                                         *)
(* The text of a track comes in windows, fetched when playback needs them,  *)
(* or whole, from one batch request for every track.  What is shown is the  *)
(* mount: a track, the session start its times are counted from and the     *)
(* window it covers.  Playing out of the window asks for the next one, once *)
(* for every crossing.  Several loads can be under way: for older playback  *)
(* tokens, for tracks that are no longer selected, for other sessions.      *)
(***************************************************************************)
EXTENDS Integers, FiniteSets

CONSTANTS
  Streams,    \* the tracks that can be shown as text
  Off,        \* no track
  None,       \* nothing
  Last,       \* bound: positions are 0 .. Last
  Width,      \* how many positions a window holds
  MaxToken,   \* bound: playback tokens
  MaxLoads    \* bound: loads that wait at a time

(* What Parts assumes of the constants.                                     *)
BoundsAreNatural ==
  Last \in Nat /\ Width \in Nat \ {0} /\ MaxToken \in Nat /\ MaxLoads \in Nat
NoneIsNoKey == None \notin Streams \X Nat

Times == 0 .. Last
(* buildSubtitleWindowRequestForPlayback: what a window fetched for t holds. *)
Window(t) == t .. (t + Width - 1)

Mounted == [stream : Streams, seek : Times, full : BOOLEAN, from : Times]
Load == [stream : Streams, seek : Times, target : Times, token : 0 .. MaxToken,
         kind : {"plain", "refresh", "startup"}]

VARIABLES
  video,    \* the playback: token, session start, position, selected track, revealed
  mount,    \* subtitleMountState, None or a member of Mounted
  seen,     \* subtitlePlaybackSyncState: None or the crossing that was noticed
  cache,    \* full and window caches
  loads,    \* calls of applySubtitlesForSeek that wait for a window
  refresh,  \* subtitlePlaybackRefreshInFlightKey
  batch,    \* the batch request: whether it runs, and the token that waits for it
  failure   \* subtitleFailureState = 'error'

vars == <<video, mount, seen, cache, loads, refresh, batch, failure>>

TypeOK ==
  /\ video \in [token : 0 .. MaxToken, start : Times, position : Times,
                selected : Streams \cup {Off}, revealed : BOOLEAN]
  /\ mount \in Mounted \cup {None}
  /\ seen \in [stream : Streams, token : 0 .. MaxToken, out : BOOLEAN, failed : BOOLEAN] \cup {None}
  /\ cache \in [full : SUBSET Streams, windows : SUBSET (Streams \X Times)]
  /\ loads \subseteq Load
  /\ refresh \in (Streams \X (0 .. MaxToken)) \cup {None}
  /\ batch \in [running : BOOLEAN, for : 0 .. MaxToken]
  /\ failure \in BOOLEAN

Init ==
  /\ video \in [token : {0}, start : {0}, position : {0}, selected : Streams, revealed : {TRUE}]
  /\ mount = None /\ seen = None
  /\ cache = [full |-> {}, windows |-> {}]
  /\ loads = {} /\ refresh = None
  /\ batch = [running |-> FALSE, for |-> 0] /\ failure = FALSE

-----------------------------------------------------------------------------
(* subtitleMountCoversTarget                                                *)
Covers(stream, seek, t) ==
  /\ mount # None /\ mount.stream = stream /\ mount.seek = seek
  /\ mount.full \/ t \in Window(mount.from)

(* cachedSubtitleSourceForSeek: the whole text, else the window that starts *)
(* last of those that hold t.                                               *)
Fitting(stream, t, c) == {w \in Times : <<stream, w>> \in c.windows /\ t \in Window(w)}
Latest(windows) == CHOOSE w \in windows : \A x \in windows : x <= w
HasText(stream, t, c) == stream \in c.full \/ Fitting(stream, t, c) # {}

(* clearSubtitleTrack                                                       *)
Clear == mount' = None /\ seen' = None /\ failure' = FALSE

(* mountSubtitleTrackForItem for a text that is there                       *)
MountText(stream, seek, t, c) ==
  /\ mount' = [stream |-> stream, seek |-> seek, full |-> stream \in c.full,
               from |-> IF stream \in c.full THEN 0 ELSE Latest(Fitting(stream, t, c))]
  /\ seen' = None /\ failure' = FALSE

(* applySubtitlesForSeek of a token that is current, up to its request      *)
Apply(stream, seek, t, token, kind, waiting) ==
  \/ /\ stream = Off /\ Clear /\ loads' = waiting
  \/ /\ stream # Off /\ Covers(stream, seek, t)
     /\ loads' = waiting /\ UNCHANGED <<mount, seen, failure>>
  \/ /\ stream # Off /\ ~Covers(stream, seek, t) /\ HasText(stream, t, cache)
     /\ MountText(stream, seek, t, cache) /\ loads' = waiting
  \/ /\ stream # Off /\ ~Covers(stream, seek, t) /\ ~HasText(stream, t, cache)
     /\ loads' = waiting \cup {[stream |-> stream, seek |-> seek, target |-> t,
                                token |-> token, kind |-> kind]}
     /\ Cardinality(loads') <= MaxLoads
     /\ failure' = FALSE /\ UNCHANGED <<mount, seen>>

-----------------------------------------------------------------------------
(* A session is attached at t (after a start or a seek restart): the track  *)
(* is cleared and scheduleSubtitlesAfterPlaybackReady asks for all texts    *)
(* (preloadAllSubtitleVttsForItem) and shows the selected one after that.   *)
Attach(t) ==
  /\ video.token < MaxToken
  /\ video' = [video EXCEPT !.token = @ + 1, !.start = t, !.position = t, !.revealed = FALSE]
  /\ IF cache.full = Streams /\ video.selected # Off
     THEN MountText(video.selected, t, t, cache) /\ UNCHANGED batch
     ELSE /\ Clear
          /\ batch' = IF cache.full = Streams THEN batch
                      ELSE [running |-> TRUE, for |-> video.token + 1]
  /\ UNCHANGED <<cache, loads, refresh>>

(* revealCompatibilityPlaybackWhenReady: the first fragments are there and  *)
(* the window of the start is fetched before the picture is shown.          *)
Reveal ==
  /\ ~video.revealed /\ video' = [video EXCEPT !.revealed = TRUE]
  /\ IF \/ video.selected = Off
        \/ <<video.selected, video.start>> \in cache.windows
        \/ Covers(video.selected, video.start, video.start)
     THEN Apply(video.selected, video.start, video.start, video.token, "plain", loads)
     ELSE /\ loads' = loads \cup {[stream |-> video.selected, seek |-> video.start,
                                   target |-> video.start, token |-> video.token, kind |-> "startup"]}
          /\ Cardinality(loads') <= MaxLoads
          /\ failure' = FALSE /\ UNCHANGED <<mount, seen>>
  /\ UNCHANGED <<cache, refresh, batch>>

(* A seek inside the session                                                *)
SeekTo(t) ==
  /\ video.token \in 1 .. MaxToken - 1 /\ t >= video.start
  /\ video' = [video EXCEPT !.token = @ + 1, !.position = t]
  /\ Apply(video.selected, video.start, t, video.token + 1, "plain", loads)
  /\ UNCHANGED <<cache, refresh, batch>>

(* handleSubtitleTrackChange: its load carries no playback token.           *)
SelectTrack(k) ==
  /\ video.token > 0 /\ k # video.selected
  /\ video' = [video EXCEPT !.selected = k]
  /\ Apply(k, video.start, video.position, 0, "plain", loads)
  /\ UNCHANGED <<cache, refresh, batch>>

(* timeupdate: syncSubtitlesForCurrentPlaybackTime with                     *)
(* shouldRefreshSubtitlesForPlaybackTime.  A crossing's failed is history,  *)
(* read by no action: whether a failure was shown since it was noticed.     *)
Crossing == [stream |-> video.selected, token |-> video.token, out |-> TRUE, failed |-> FALSE]
SameMount == seen # None /\ seen.stream = video.selected /\ seen.token = video.token
Noticed == SameMount /\ seen.out
Tick ==
  /\ video.token > 0 /\ video.position < Last
  /\ LET t == video.position + 1
     IN  /\ video' = [video EXCEPT !.position = t]
         /\ IF video.selected = Off \/ mount = None \/ failure
            THEN UNCHANGED <<mount, seen, loads, refresh, failure>>
            ELSE IF Covers(video.selected, mount.seek, t)
            THEN seen' = [Crossing EXCEPT !.out = FALSE] /\ UNCHANGED <<mount, loads, refresh, failure>>
            ELSE IF Noticed
            THEN UNCHANGED <<mount, seen, loads, refresh, failure>>
            ELSE IF refresh = <<video.selected, video.token>>
            THEN seen' = Crossing /\ UNCHANGED <<mount, loads, refresh, failure>>
            ELSE IF HasText(video.selected, t, cache)
            THEN MountText(video.selected, mount.seek, t, cache) /\ UNCHANGED <<loads, refresh>>
            ELSE /\ seen' = Crossing /\ failure' = FALSE /\ UNCHANGED mount
                 /\ refresh' = <<video.selected, video.token>>
                 /\ loads' = loads \cup {[stream |-> video.selected, seek |-> mount.seek, target |-> t,
                                          token |-> video.token, kind |-> "refresh"]}
                 /\ Cardinality(loads') <= MaxLoads
  /\ UNCHANGED <<cache, batch>>

(* preloadSubtitleWindowForStream: loads with the same key share a request. *)
Sharing(l) == {m \in loads : m.stream = l.stream /\ m.target = l.target /\ m.token = l.token}
EndRefresh(ls) ==
  refresh' = IF \E l \in ls : l.kind = "refresh" /\ refresh = <<l.stream, l.token>> THEN None ELSE refresh

(* The window arrives: it is kept, and shown unless the playback token of   *)
(* its load is out of date.                                                 *)
Fetched(l) ==
  LET ls == Sharing(l)
      c == [cache EXCEPT !.windows = @ \cup {<<l.stream, l.target>>}]
  IN  /\ cache' = c /\ EndRefresh(ls)
      /\ IF l.token \notin {0, video.token} THEN loads' = loads \ ls /\ UNCHANGED <<mount, seen, failure>>
         ELSE IF l.kind # "startup"
         THEN MountText(l.stream, l.seek, l.target, c) /\ loads' = loads \ ls
         ELSE IF l.stream = video.selected
         THEN /\ loads' = loads \ ls
              /\ IF Covers(l.stream, l.seek, l.target) \/ failure THEN UNCHANGED <<mount, seen, failure>>
                 ELSE MountText(l.stream, l.seek, l.target, c)
         ELSE Apply(video.selected, video.start, video.start, video.token, "plain", loads \ ls)
      /\ UNCHANGED <<video, batch>>
(* Slip: a failure of a load that playback asked for is not shown.          *)
FetchFailsUnseen(l) ==
  /\ loads' = loads \ Sharing(l) /\ EndRefresh(Sharing(l))
  /\ UNCHANGED <<video, mount, seen, cache, batch, failure>>
(* The window cannot be had: the failure is shown, whoever asked.           *)
FetchFailed(l) ==
  /\ loads' = loads \ Sharing(l) /\ EndRefresh(Sharing(l)) /\ failure' = TRUE
  /\ seen' = IF seen = None THEN None ELSE [seen EXCEPT !.failed = TRUE]
  /\ UNCHANGED <<video, mount, cache, batch>>

(* The batch arrives, with S of the tracks (storeFullSubtitleVtt); a window *)
(* that is mounted for the selected track becomes the whole text            *)
(* (maybeUpgradeMountedWindowToFullCache).                                  *)
Upgrades(S) ==
  mount # None /\ ~mount.full /\ mount.stream \in S /\ mount.stream = video.selected
BatchDone(S) ==
  LET c == [cache EXCEPT !.full = @ \cup S]
      shown == batch.for = video.token /\ video.selected # Off
  IN  /\ batch.running /\ batch' = [running |-> FALSE, for |-> 0] /\ cache' = c
      /\ IF Upgrades(S) /\ ~(shown /\ mount.seek # video.start)
         THEN MountText(mount.stream, mount.seek, video.position, c) /\ UNCHANGED loads
         ELSE IF ~shown \/ Covers(video.selected, video.start, video.start)
         THEN UNCHANGED <<mount, seen, failure, loads>>
         ELSE IF HasText(video.selected, video.start, c)
         THEN MountText(video.selected, video.start, video.start, c) /\ UNCHANGED loads
         ELSE Apply(video.selected, video.start, video.start, video.token, "plain", loads)
      /\ UNCHANGED <<video, refresh>>

Next ==
  \/ \E t \in Times : Attach(t) \/ SeekTo(t)
  \/ Reveal \/ Tick
  \/ \E k \in Streams \cup {Off} : SelectTrack(k)
  \/ \E l \in loads : Fetched(l) \/ FetchFailed(l)
  \/ \E S \in SUBSET Streams : BatchDone(S)

Spec == Init /\ [][Next]_vars

-----------------------------------------------------------------------------
(* A crossing that was noticed is never forgotten: a timeupdate that does   *)
(* not ask for a window because playback left the mounted one before finds  *)
(* the refresh of the selected track under way, or that a window cannot be  *)
(* had was shown since (docs/video-player.md: one refresh for an uncovered  *)
(* boundary crossing).                                                      *)
RefreshIsUnderWay ==
  Noticed /\ ~seen.failed =>
    \E l \in loads : l.kind = "refresh" /\ l.stream = video.selected /\ l.token = video.token

-----------------------------------------------------------------------------
(* What every step keeps, with the property above.  T is the set of tokens, *)
(* so that it does not depend on their bound.                               *)
Typed(T) ==
  /\ video \in [token : T, start : Int, position : Int, selected : Streams \cup {Off}, revealed : BOOLEAN]
  /\ seen \in [stream : Streams, token : T, out : BOOLEAN, failed : BOOLEAN] \cup {None}
  /\ \A l \in loads : l.target \in Int /\ l.token \in T
  /\ failure \in BOOLEAN

(* Tokens only grow; at the current one a session starts to be shown at its *)
(* start, and is only refreshed behind it.                                  *)
LoadsAreSessions ==
  /\ video.start <= video.position
  /\ \A l \in loads :
       /\ l.token <= video.token
       /\ l.token = video.token /\ l.kind = "startup" => l.target = video.start
       /\ l.token = video.token /\ l.kind = "refresh" => l.target > video.start
  /\ seen # None => seen.token <= video.token

(* subtitlePlaybackRefreshInFlightKey is that of a refresh under way.       *)
Refreshes(stream, token) == \E l \in loads : l.kind = "refresh" /\ l.stream = stream /\ l.token = token
KeyIsRefreshs == refresh # None => \E s \in Streams, k \in Nat : refresh = <<s, k>> /\ Refreshes(s, k)

(* The crossing, also while another track is selected.                      *)
CrossingIsServed ==
  seen # None /\ seen.out /\ seen.token = video.token =>
    IF seen.failed THEN TRUE ELSE ~failure /\ Refreshes(seen.stream, seen.token)

IInv == Typed(Nat) /\ LoadsAreSessions /\ KeyIsRefreshs /\ CrossingIsServed
=============================================================================
