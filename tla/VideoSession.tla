---------------------------- MODULE VideoSession ----------------------------
(***************************************************************************)
(* The video pane and its HLS sessions: video/compatibility.js,             *)
(* video/playback.js, video/pane.js, and the seek, track and style requests *)
(* of video/controls.js and video/tracks.js.                                *)
(*                                                                         *)
(* Starting an item and seeking out of the encoded range are chains of      *)
(* requests (stop the old session, probe, create the new one) that run      *)
(* while the user goes on.  Every chain takes a new playback token and      *)
(* looks, after each answer, whether it is still the newest; a session that *)
(* comes back to an older chain is stopped.  The server may lose a session  *)
(* at any time.  A session is named by the token of the chain that made it. *)
(***************************************************************************)
EXTENDS Integers, FiniteSets

CONSTANTS
  Items,      \* videos in the queue
  Times,      \* positions, in order; 0 is the start
  None,       \* no video, no session, no position
  MaxToken    \* bound: playback tokens

(* What Parts assumes of the constants.                                   *)
TimesHaveStart == 0 \in Times

Token == 1 .. MaxToken
(* A session and a chain of requests, for a set of tokens.                  *)
Session(T) == [id : T, path : Items, start : Times, copy : BOOLEAN, burn : BOOLEAN]
Chain(T) == [token : T, item : Items \cup {None}, kind : {"start", "restart", "clear"},
             target : Times, forced : BOOLEAN, transcode : BOOLEAN, burn : BOOLEAN,
             at : {"stopping", "probing", "creating"}]

VARIABLES
  player,     \* what the page's ctx.state says, and the requests it waits for
  pane,       \* paneActive
  probed,     \* probeCache
  polls,      \* status requests of handleCompatibilityHlsError: session ids
  server      \* the sessions the server keeps

vars == <<player, pane, probed, polls, server>>

(* The fields of player are: the newest token, the active item, the position *)
(* of the picture, the session that is attached and the mode the page has   *)
(* noted for it, the queued seek, seekRestartInProgress, the scheduled      *)
(* recovery, the subtitle track that is selected, the style and track       *)
(* changes that wait for a restart, the fallbacks that were tried, the      *)
(* chains under way and the stop requests under way.                        *)
Player(T) ==
  [token : T \cup {0}, item : Items \cup {None}, position : Times, local : Session(T) \cup {None},
   mode : {"", "copy", "transcode"}, requested : Times \cup {None}, seeking : BOOLEAN,
   recovery : [target : Times, forced : BOOLEAN, transcode : BOOLEAN] \cup {None},
   track : {"text", "burn"}, restyle : BOOLEAN, retrack : BOOLEAN,
   tried : SUBSET (Items \X Times), chains : SUBSET Chain(T),
   stops : SUBSET [id : T, chain : T \cup {0}]]

TypeOK ==
  /\ player \in Player(Token)
  /\ pane \in BOOLEAN /\ probed \subseteq Items /\ polls \subseteq Token /\ server \subseteq Session(Token)

Init ==
  /\ player = [token |-> 0, item |-> None, position |-> 0, local |-> None, mode |-> "",
               requested |-> None, seeking |-> FALSE, recovery |-> None, track |-> "text",
               restyle |-> FALSE, retrack |-> FALSE, tried |-> {}, chains |-> {}, stops |-> {}]
  /\ pane \in BOOLEAN /\ probed = {} /\ polls = {} /\ server = {}

-----------------------------------------------------------------------------
Live == {s.id : s \in server}

(* clearLocalCompatibilitySessionState                                      *)
ClearLocal(p) == [p EXCEPT !.local = None, !.mode = "", !.recovery = None]

(* resetPlaybackSurface                                                     *)
ResetSurface(p) ==
  [p EXCEPT !.position = 0, !.mode = "", !.requested = None, !.seeking = FALSE,
            !.recovery = None, !.retrack = FALSE, !.tried = {}]

(* scheduleCompatibilityRecovery: one recovery at a time, none while a seek *)
(* restarts the session.                                                    *)
Recover(p, t, forced, transcode) ==
  IF p.item = None \/ p.recovery # None \/ p.seeking THEN p
  ELSE [p EXCEPT !.recovery = [target |-> t, forced |-> forced, transcode |-> transcode]]

(* handleMissingCompatibilitySession with failCompatibilityPlayback         *)
Missing(p) == IF p.item = None THEN p ELSE ResetSurface(ClearLocal(p))

(* stopCompatibilitySession up to its request; c waits for the answer.      *)
StopLocal(p, c) ==
  [p EXCEPT !.stops = @ \cup {[id |-> p.local.id, chain |-> c.token]},
            !.chains = @ \cup {[c EXCEPT !.at = "stopping"]}]

(* createCompatibilitySession up to its request                             *)
Ask(p, c) ==
  [p EXCEPT !.chains = @ \cup {[c EXCEPT !.at = "creating", !.burn = p.track = "burn"]}]

(* syncPlaybackForActiveItem up to its first request                        *)
SyncTo(p, i) ==
  LET q == [p EXCEPT !.token = @ + 1, !.recovery = None, !.item = i]
      r == IF i = None THEN q ELSE ResetSurface(q)
      c == [token |-> q.token, item |-> i, kind |-> IF i = None THEN "clear" ELSE "start",
            target |-> 0, forced |-> FALSE, transcode |-> FALSE, burn |-> FALSE, at |-> "probing"]
  IN  IF i = None
      THEN IF q.local = None THEN ResetSurface(q) ELSE StopLocal(q, c)
      ELSE IF r.local # None /\ r.local.path # i THEN StopLocal(r, c)
      ELSE IF i \in probed THEN Ask(r, c)
      ELSE [r EXCEPT !.chains = @ \cup {c}]

(* compatibilityInSessionSeekDecision: whether the encoded range can serve  *)
(* the target is the server's progress, a choice of Located.                *)
InSession(p) == p.local # None /\ p.local.path = p.item /\ p.local.burn = (p.track = "burn")

(* The part of restartCompatibilityAt behind the probe, up to the create    *)
(* request or, where a session has to go first, the stop request.           *)
Reopen(p, c) ==
  LET q == [p EXCEPT !.requested = c.target, !.seeking = TRUE]
  IN  IF q.local = None THEN Ask(q, c)
      ELSE [StopLocal(q, c) EXCEPT !.local = None, !.mode = "", !.recovery = None]
Located(p, c) ==
  {Reopen(p, c)}
    \cup (IF ~c.forced /\ InSession(p) THEN {[p EXCEPT !.position = c.target]} ELSE {})

(* restartCompatibilityAt up to its first request                           *)
Restart(p, t, forced, transcode) ==
  LET q == [p EXCEPT !.token = @ + 1, !.recovery = None]
      c == [token |-> q.token, item |-> q.item, kind |-> "restart", target |-> t,
            forced |-> forced, transcode |-> transcode, burn |-> FALSE, at |-> "probing"]
  IN  IF p.item = None THEN {p}
      ELSE IF p.item \in probed THEN Located(q, c)
      ELSE {[q EXCEPT !.chains = @ \cup {c}]}

(* handleSubtitleTrackChange for a track that is not "off"                  *)
Retrack(p) ==
  IF p.seeking THEN {[p EXCEPT !.retrack = TRUE]}
  ELSE IF p.track = "burn" \/ (p.local # None /\ p.local.burn)
  THEN Restart(p, p.position, FALSE, FALSE)
  ELSE {p}

(* attachCompatibilityVideo: it clears the video source first.              *)
Attach(p, s) == [ResetSurface(p) EXCEPT !.position = s.start]

(* The newest chain has its session: it is attached and, after a restart,   *)
(* one of the changes that waited for it is made.                           *)
Adopt(p, c, s) ==
  LET q == [p EXCEPT !.local = s, !.mode = IF s.copy THEN "copy" ELSE "transcode"]
      a == Attach(q, s)
      b == [a EXCEPT !.seeking = FALSE, !.requested = None]
  IN  IF c.kind = "start" THEN {a}
      ELSE IF b.restyle THEN Restart([b EXCEPT !.restyle = FALSE], b.position, TRUE, FALSE)
      ELSE IF q.requested \notin {None, c.target} THEN Restart(b, q.requested, FALSE, FALSE)
      ELSE IF b.retrack THEN Retrack([b EXCEPT !.retrack = FALSE])
      ELSE {b}

(* The catch blocks: a capacity error gives up, any other is retried.       *)
NoSession(p, c) ==
  LET q == [p EXCEPT !.local = None]
      r == [q EXCEPT !.seeking = FALSE, !.requested = None]
  IN  IF c.kind = "start" THEN {Recover(q, 0, TRUE, FALSE)}
      ELSE {ResetSurface(r), Recover(r, c.target, FALSE, FALSE), Recover(r, c.target, TRUE, FALSE)}

-----------------------------------------------------------------------------
Room == player.token < MaxToken
Drop(c) == [player EXCEPT !.chains = @ \ {c}]
(* Slip: every answer is taken for the newest chain's.                      *)
AnyChain(c) == c.token # 0
(* isStalePlaybackToken                                                     *)
Newest(c) == c.token = player.token

(* The user: plays an item or clears the current one, seeks, changes the    *)
(* audio track, applies a subtitle style, selects a subtitle track.         *)
Play(i) ==
  /\ Room /\ player' = SyncTo(player, i)
  /\ UNCHANGED <<pane, probed, polls, server>>
Seek(t) ==
  /\ pane /\ player.item # None
  /\ IF player.seeking THEN player' = [player EXCEPT !.requested = t]
     ELSE Room /\ player' \in Restart(player, t, FALSE, FALSE)
  /\ UNCHANGED <<pane, probed, polls, server>>
ChangeAudio ==
  /\ pane /\ player.item \in probed /\ Room
  /\ player' \in Restart(player, player.position, TRUE, FALSE)
  /\ UNCHANGED <<pane, probed, polls, server>>
ApplyStyle ==
  /\ pane /\ player.item \in probed /\ player.track = "burn"
  /\ IF player.seeking THEN player' = [player EXCEPT !.restyle = TRUE]
     ELSE /\ Room
          /\ player' \in Restart([player EXCEPT !.restyle = FALSE], player.position, TRUE, FALSE)
  /\ UNCHANGED <<pane, probed, polls, server>>
SelectTrack(k) ==
  /\ pane /\ player.item \in probed /\ k # player.track /\ Room
  /\ player' \in Retrack([player EXCEPT !.track = k])
  /\ UNCHANGED <<pane, probed, polls, server>>

(* syncPaneMode                                                             *)
LeavePane ==
  /\ pane /\ pane' = FALSE
  /\ player' = ResetSurface(IF player.local = None THEN player
                            ELSE [player EXCEPT !.stops = @ \cup {[id |-> player.local.id, chain |-> 0]}])
  /\ UNCHANGED <<probed, polls, server>>
EnterPane ==
  /\ ~pane /\ pane' = TRUE /\ Room
  /\ player' = SyncTo(player, player.item)
  /\ UNCHANGED <<probed, polls, server>>

(* The answer to a stop request, and the chain that waited for it.          *)
Stopped(s) ==
  LET p == [(IF player.local # None /\ player.local.id = s.id THEN ClearLocal(player) ELSE player)
              EXCEPT !.stops = @ \ {s}]
      waiting == {c \in player.chains : c.token = s.chain /\ c.at = "stopping"}
  IN  /\ server' = {x \in server : x.id # s.id}
      /\ IF waiting = {} THEN player' = p
         ELSE \E c \in waiting :
                LET q == [p EXCEPT !.chains = @ \ {c}]
                IN  player' = CASE c.kind = "clear" -> ResetSurface(q)
                                [] c.kind # "clear" /\ ~Newest(c) -> q
                                [] c.kind = "start" /\ Newest(c) /\ c.item \notin probed ->
                                     [q EXCEPT !.chains = @ \cup {[c EXCEPT !.at = "probing"]}]
                                [] OTHER -> Ask(q, c)
      /\ UNCHANGED <<pane, probed, polls>>

(* The answer to a probe                                                    *)
Probed(c) ==
  /\ c.at = "probing" /\ probed' = probed \cup {c.item}
  /\ IF ~Newest(c) THEN player' = Drop(c)
     ELSE IF c.kind = "start" THEN player' = Ask(Drop(c), c)
     ELSE player' \in Located(Drop(c), c)
  /\ UNCHANGED <<pane, polls, server>>
ProbeFailed(c) ==
  /\ c.at = "probing" /\ c.item \notin probed
  /\ player' = IF Newest(c) /\ c.kind = "restart"
               THEN [Drop(c) EXCEPT !.requested = c.target, !.seeking = FALSE] ELSE Drop(c)
  /\ UNCHANGED <<pane, probed, polls, server>>

(* The answer to a create request                                           *)
Made(c) == [id |-> c.token, path |-> c.item, start |-> c.target,
            copy |-> ~c.transcode /\ ~c.burn, burn |-> c.burn]
Created(c) ==
  /\ c.at = "creating" /\ server' = server \cup {Made(c)}
  /\ IF Newest(c)
     THEN player' \in Adopt(Drop(c), c, Made(c)) /\ player'.token <= MaxToken
     ELSE player' = [Drop(c) EXCEPT !.stops = @ \cup {[id |-> c.token, chain |-> 0]}]
  /\ UNCHANGED <<pane, probed, polls>>
CreateFailed(c) ==
  /\ c.at = "creating"
  /\ player' \in IF Newest(c) THEN NoSession(Drop(c), c) ELSE {Drop(c)}
  /\ UNCHANGED <<pane, probed, polls, server>>

(* The recovery timer fires.                                                *)
RecoveryFires ==
  /\ player.recovery # None /\ Room
  /\ player' \in Restart(player, player.recovery.target, player.recovery.forced, player.recovery.transcode)
  /\ UNCHANGED <<pane, probed, polls, server>>

(* A fatal media error: scheduleCompatibilityVideoCopyFallback, else        *)
(* recoverMediaError (HLS) or a recovery (the video element).               *)
MediaError ==
  /\ player.local # None
  /\ LET key == <<player.item, player.position>>
         p == Recover(player, player.position, TRUE, TRUE)
     IN  IF player.mode = "copy" /\ key \notin player.tried /\ p # player
         THEN player' = [p EXCEPT !.tried = @ \cup {key}]
         ELSE player' \in {player, Recover(player, player.position, TRUE, FALSE)}
  /\ UNCHANGED <<pane, probed, polls, server>>
(* The 'playing' event                                                      *)
Plays ==
  /\ player.local # None
  /\ player' = [player EXCEPT !.recovery = None, !.tried = {}]
  /\ UNCHANGED <<pane, probed, polls, server>>

(* A segment is missing: handleCompatibilityHlsError asks for the session.  *)
SegmentMissing ==
  /\ player.local # None /\ polls = {} /\ polls' = {player.local.id}
  /\ UNCHANGED <<player, pane, probed, server>>
Polled(id) ==
  /\ id \in polls /\ polls' = polls \ {id}
  /\ player' = IF id \in Live THEN Recover(player, player.position, TRUE, FALSE) ELSE Missing(player)
  /\ UNCHANGED <<pane, probed, server>>
(* A progress report is told that its session is gone.                      *)
ReportedMissing ==
  /\ pane /\ player.local # None /\ player.local.id \notin Live /\ player.local.path = player.item
  /\ player' = Missing(player)
  /\ UNCHANGED <<pane, probed, polls, server>>
(* The server evicts or expires a session.                                  *)
Lose(s) ==
  /\ server' = server \ {s}
  /\ UNCHANGED <<player, pane, probed, polls>>

Next ==
  \/ \E i \in Items \cup {None} : Play(i)
  \/ \E t \in Times : Seek(t)
  \/ ChangeAudio \/ ApplyStyle \/ \E k \in {"text", "burn"} : SelectTrack(k)
  \/ LeavePane \/ EnterPane
  \/ \E s \in player.stops : Stopped(s)
  \/ \E c \in player.chains : Probed(c) \/ ProbeFailed(c) \/ Created(c) \/ CreateFailed(c)
  \/ RecoveryFires \/ MediaError \/ Plays
  \/ SegmentMissing \/ \E id \in polls : Polled(id)
  \/ ReportedMissing \/ \E s \in server : Lose(s)

Spec == Init /\ [][Next]_vars

-----------------------------------------------------------------------------
(* The session that is attached plays the active item; while it does not,   *)
(* a stop of it is under way: compatibility.js and playback.js look at the  *)
(* playback token after every request.                                      *)
PlaysActive(p) ==
  p.local # None => p.local.path = p.item \/ \E s \in p.stops : s.id = p.local.id
SessionIsActives == PlaysActive(player)

(* The player never waits for a seek that nobody carries out: while         *)
(* seekRestartInProgress is set (every further seek is only queued), the    *)
(* newest chain is a restart that will end it.                              *)
Restarts(p) == \E c \in p.chains : c.kind = "restart" /\ c.token = p.token
SeekIsServed == player.seeking => Restarts(player)

(* docs/video-player.md: "If a video_copy session hits a fatal media/codec  *)
(* playback failure, the client restarts session creation with              *)
(* force_video_transcode=1".  The code never does: attaching a session      *)
(* clears the noted mode.                                                   *)
CopyFallsBack ==
  [][MediaError /\ pane /\ player.local.copy /\ player.recovery = None /\ player.tried = {} /\ ~player.seeking
       => player'.recovery # None /\ player'.recovery.transcode]_vars

(* What keeps the two.  There is one chain of each token, the newest one is *)
(* for the active item, and a chain that was started to clear the player    *)
(* does nothing but stop its session;                                       *)
ChainsApart(p) ==
  /\ \A c \in p.chains :
       /\ c.token <= p.token /\ (c.token = p.token => c.item = p.item)
       /\ c.kind = "clear" => c.at = "stopping"
       /\ c.kind # "clear" => c.item # None
  /\ \A c, d \in p.chains : c.token = d.token => c = d
(* a session is given up before a seek restarts it.                         *)
Seeking(p) == p.seeking => p.local = None /\ Restarts(p)

IInv == player \in Player(Nat) /\ ChainsApart(player) /\ PlaysActive(player) /\ Seeking(player)
=============================================================================
