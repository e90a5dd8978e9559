---------------------------- MODULE HlsSessions ----------------------------
(***************************************************************************)
(* The HLS sessions the server keeps: VideoSessionManager of video.py.      *)
(*                                                                         *)
(* Creating a session takes long: a slot is reserved under the lock, the    *)
(* file is probed and ffmpeg started without it, the session is registered  *)
(* under it, and the request waits for the first segments without it.  In   *)
(* between the client stops, or has moved on to another video, and its      *)
(* requests arrive in any order.  Whatever removes a session only puts it   *)
(* aside; the thread that did so kills its ffmpeg and deletes its directory *)
(* once it has left the lock (a drain), so that nobody waits for a process  *)
(* with the lock held.  The manager's shutdown, the last thing that the     *)
(* server does, is left out.                                                *)
(*                                                                         *)
(* A session is named by the position of its create request.                *)
(***************************************************************************)
EXTENDS Integers, Sequences, FiniteSets

CONSTANTS
  Clients,      \* video panes, each with a client id of its own
  MaxSessions,  \* max_concurrent_sessions
  None,         \* no transition token, or no session id
  MaxToken,     \* bound: transition tokens
  MaxCreates,   \* bound: create requests
  MaxStops      \* bound: stops of a client that count as a generation

(* create_session makes it at least 1; the bounds are numbers.              *)
SessionsAssumption ==
  MaxSessions \in Nat \ {0} /\ MaxToken \in Nat /\ MaxCreates \in Nat /\ MaxStops \in Nat

Token == 0 .. MaxToken
Create == [client : Clients, token : Token \cup {None}, gen : 0 .. MaxStops,
           at : {"probing", "waiting", "answered", "stopped", "ended"},
           seen : {"playing", "used", "old"}, ffmpeg : {"none", "runs", "exited"}]

VARIABLES
  creates,     \* the create requests, in the order of their reservation
  sessions,    \* _sessions
  pending,     \* _pending_session_creations
  deferred,    \* _deferred_session_stops
  drain,       \* a thread has left the lock and will take them
  clients,     \* _client_stop_generations, _transition_tokens, _stop_tokens
  superseded   \* history: what a client has stopped, or has moved on from
               \* before it was registered

vars == <<creates, sessions, pending, deferred, drain, clients, superseded>>

Ids == DOMAIN creates

TypeOK ==
  /\ creates \in Seq(Create) /\ Len(creates) <= MaxCreates
  /\ sessions \subseteq Ids /\ deferred \subseteq Ids
  /\ superseded \subseteq Ids
  /\ pending \in 0 .. MaxCreates /\ drain \in BOOLEAN
  /\ clients \in [Clients -> [gen : 0 .. MaxStops, transition : -1 .. MaxToken,
                              stop : -1 .. MaxToken]]

Init ==
  /\ creates = <<>> /\ sessions = {} /\ pending = 0
  /\ deferred = {} /\ drain = FALSE /\ superseded = {}
  /\ clients = [c \in Clients |-> [gen |-> 0, transition |-> -1, stop |-> -1]]

-----------------------------------------------------------------------------
Probing == {i \in Ids : creates[i].at = "probing"}
UnderWay(c) == {i \in Probing : creates[i].client = c}
Owned(c) == {i \in sessions : creates[i].client = c}
Later(a, b) == IF a > b THEN a ELSE b

(* _cleanup_expired_locked: every locked section but a few begins with it.  *)
Fresh == {i \in sessions : creates[i].seen # "old"}

(* _remove_session_locked: those that are not kept wait for the drain.      *)
Keep(kept) == sessions' = kept /\ deferred' = deferred \cup (sessions \ kept)

(* A thread leaves the lock to drain; if there is nothing to take, it is    *)
(* not worth a state.                                                       *)
Leave == drain' = (deferred' # {})

(* not _session_is_recently_active_locked                                   *)
Idle(S) == {i \in S : creates[i].seen # "playing" \/ creates[i].ffmpeg # "runs"}

(* A session does not know the token and the generation of its request.     *)
Settled(r, at) == [r EXCEPT !.token = None, !.gen = 0, !.at = at]
Running(r, at) == [Settled(r, at) EXCEPT !.ffmpeg = "runs"]

(* create_session up to the reservation.  Which idle session is the oldest  *)
(* is a choice.                                                             *)
Reserve(c, t) ==
  LET newest == clients[c].transition
      full(S) == Cardinality(S) + pending >= MaxSessions
      request == [client |-> c, token |-> t, gen |-> clients[c].gen, at |-> "probing",
                  seen |-> "used", ffmpeg |-> "none"]
      overtaken == {i \in UnderWay(c) : creates[i].token < t}
                     \cup (IF t < newest THEN {Len(creates) + 1} ELSE {})
  IN  /\ Len(creates) < MaxCreates
      /\ clients' = [clients EXCEPT ![c].transition = Later(newest, t)]
      /\ \E kept \in IF full(Fresh) /\ Idle(Fresh) # {}
                     THEN {Fresh \ {i} : i \in Idle(Fresh)} ELSE {Fresh} :
           /\ Keep(kept)
           /\ IF full(kept)
              THEN /\ creates' = Append(creates, Settled(request, "ended"))
                   /\ superseded' = superseded \cup (overtaken \cap Ids)
                   /\ UNCHANGED <<pending, drain>>
              ELSE /\ creates' = Append(creates, request)
                   /\ superseded' = superseded \cup overtaken
                   /\ pending' = pending + 1 /\ Leave

(* Burn-in cannot be prepared or there is no ffmpeg: the reservation ends.  *)
StartFails(i) ==
  /\ creates[i].at = "probing"
  /\ creates' = [creates EXCEPT ![i] = Settled(@, "ended")]
  /\ pending' = pending - 1 /\ superseded' = superseded \ {i}
  /\ UNCHANGED <<sessions, deferred, clients>> /\ Leave

(* Slip: the tokens are thought to tell everything.                         *)
CancelledByToken(r) ==
  r.token < clients[r.client].transition \/ r.token < clients[r.client].stop
(* client_stop_cancelled                                                    *)
Cancelled(r) ==
  \/ clients[r.client].gen # r.gen
  \/ r.token < clients[r.client].transition
  \/ r.token < clients[r.client].stop

(* ffmpeg is started, and then the session is registered, or refused: its   *)
(* ffmpeg is for this thread to stop.                                       *)
Register(i) ==
  /\ creates[i].at = "probing"
  /\ pending' = pending - 1
  /\ IF Cancelled(creates[i])
     THEN /\ creates' = [creates EXCEPT ![i] = Running(@, "stopped")]
          /\ Keep(Fresh)
     ELSE /\ creates' = [creates EXCEPT ![i] = Running(@, "waiting")]
          /\ sessions' = Fresh \cup {i} /\ deferred' = deferred \cup (sessions \ Fresh)
  /\ Leave
  /\ UNCHANGED <<clients, superseded>>

(* _wait_for_playlist sees the first segments; whether the session is still *)
(* registered is not looked at.                                             *)
Answer(i) ==
  /\ creates[i].at = "waiting" /\ creates[i].ffmpeg # "none"
  /\ creates' = [creates EXCEPT ![i].at = "answered"]
  /\ UNCHANGED <<sessions, pending, deferred, drain, clients, superseded>>

(* ffmpeg has exited before them, or they take too long.                    *)
AnswerFails(i) ==
  /\ creates[i].at = "waiting"
  /\ creates' = [creates EXCEPT ![i].at = "ended"]
  /\ Keep(sessions \ {i}) /\ Leave
  /\ UNCHANGED <<pending, clients, superseded>>

(* stop_session of a client, perhaps for one session only.                  *)
Stop(c, id, t) ==
  LET newest == clients[c].transition
      stale == t # None /\ t < newest
      bumps == ~stale /\ (id = None \/ t # None)
  IN  /\ bumps => clients[c].gen < MaxStops
      /\ clients' = [clients EXCEPT ![c] =
           [gen |-> IF bumps THEN @.gen + 1 ELSE @.gen,
            transition |-> IF t = None \/ stale THEN @.transition ELSE t,
            stop |-> IF t = None \/ stale THEN @.stop ELSE Later(@.stop, t)]]
      /\ Keep(Fresh \ (IF id # None THEN {id} ELSE IF stale THEN {} ELSE Owned(c)))
      /\ superseded' = superseded \cup
           (IF ~bumps THEN {} ELSE UnderWay(c) \cup (IF id = None THEN Owned(c) ELSE {}))
      /\ Leave
      /\ UNCHANGED <<creates, pending>>

(* The entry points that read: status, active session, the start of an      *)
(* asset request, the input of ffmpeg and its throttle.  (An asset request  *)
(* for a name that no playlist has leaves without draining; nobody sends    *)
(* one.)                                                                    *)
Look ==
  /\ Fresh # sessions
  /\ Keep(Fresh) /\ Leave
  /\ UNCHANGED <<creates, pending, clients, superseded>>

(* The end of an asset request, which does not expire sessions any more.    *)
Served(i) ==
  /\ i \in sessions /\ creates[i].seen = "old"
  /\ creates' = [creates EXCEPT ![i].seen = "used"]
  /\ UNCHANGED <<sessions, pending, deferred, drain, clients, superseded>>

(* update_session_progress; a report of "unknown" counts as a use.          *)
Progress(i, report) ==
  /\ i \in Fresh /\ creates[i].at = "answered"
  /\ creates' = [creates EXCEPT ![i].seen = report]
  /\ Keep(Fresh) /\ Leave
  /\ UNCHANGED <<pending, clients, superseded>>

(* session_idle_ttl_seconds pass since the last report, or the last use.    *)
TimePasses(i) ==
  /\ i \in sessions /\ creates[i].seen # "old"
  /\ \E s \in {"used", "old"} : creates' = [creates EXCEPT ![i].seen = s]
  /\ UNCHANGED <<sessions, pending, deferred, drain, clients, superseded>>

(* ffmpeg has read all of its input, or fails.  While nobody plays, whether *)
(* it runs makes no difference.                                             *)
Exits(i) ==
  /\ creates[i].ffmpeg = "runs" /\ creates[i].seen = "playing"
  /\ creates' = [creates EXCEPT ![i].ffmpeg = "exited"]
  /\ UNCHANGED <<sessions, pending, deferred, drain, clients, superseded>>

(* _stop_session_resources; a creation that waits goes on to find out.      *)
Kill(S) ==
  [i \in Ids |-> IF i \notin S THEN creates[i]
                 ELSE [creates[i] EXCEPT !.ffmpeg = "none", !.seen = "used",
                                         !.at = IF @ = "waiting" THEN @ ELSE "ended"]]

(* _drain_deferred_session_stops.  Taking the sessions and killing them one *)
(* by one is one step: nothing in between can tell.                         *)
Drain ==
  /\ drain /\ drain' = FALSE
  /\ creates' = Kill(deferred) /\ deferred' = {}
  /\ superseded' = superseded \ deferred
  /\ UNCHANGED <<sessions, pending, clients>>

(* The creation that was refused stops its own ffmpeg.                      *)
Discard(i) ==
  /\ creates[i].at = "stopped"
  /\ creates' = Kill({i})
  /\ superseded' = superseded \ {i}
  /\ UNCHANGED <<sessions, pending, deferred, drain, clients>>

Creation == \E i \in Ids :
  StartFails(i) \/ Register(i) \/ Answer(i) \/ AnswerFails(i) \/ Discard(i)
Use == \E i \in Ids :
  Served(i) \/ (\E r \in {"playing", "used"} : Progress(i, r)) \/ TimePasses(i) \/ Exits(i)
(* The ids a client has been told, among others that mean nothing any more. *)
Known(c) == {i \in Ids : creates[i].client = c /\ creates[i].at \in {"answered", "ended"}}

(* What video/compatibility.js and video.js send: a create carries a token, *)
(* a stop a session or a token or both.  They arrive in any order.  (The    *)
(* Photo Map's preview never uses tokens, and stops by session only.)       *)
Request(c) ==
  \/ \E t \in Token : Reserve(c, t) \/ Stop(c, None, t)
  \/ \E id \in Known(c), t \in Token \cup {None} : Stop(c, id, t)

Next ==
  \/ \E c \in Clients : Request(c)
  \/ Creation \/ Use \/ Look \/ Drain

Spec == Init /\ [][Next]_vars

-----------------------------------------------------------------------------
(* video.py 2043-2072: sessions and reservations stay within the limit,     *)
(* whatever expires, is evicted or stopped meanwhile, and a reservation is  *)
(* given back exactly once, when its creation registers, is refused or      *)
(* fails.                                                                   *)
LimitHolds ==
  /\ Cardinality(sessions) + pending <= MaxSessions
  /\ pending = Cardinality(Probing)

(* video.py 2949-2956: an ffmpeg that runs, or has left its directory       *)
(* behind, is that of a registered session, or will be stopped by a thread  *)
(* that is on its way.  A creation refused at the limit does not drain, but *)
(* then it has put nothing aside.                                           *)
NothingLeaks ==
  /\ \A i \in Ids : creates[i].ffmpeg \in {"runs", "exited"} =>
       creates[i].at = "stopped" \/ i \in sessions \cup deferred
  /\ deferred # {} => drain

(* video.py 2286-2301 with docs/video-player.md 170-192: a session that its *)
(* client has stopped, while it was created or since, or has moved on from  *)
(* before it was registered, is not kept, however late it is ready; and a   *)
(* late request of an older transition does not refuse a newer creation.    *)
(* (A registered session that a newer one replaces stays until its own      *)
(* stop, its expiry or its eviction.)                                       *)
StopIsFinal ==
  /\ sessions \cap superseded = {}
  /\ \A i \in Ids : creates[i].at = "stopped" => i \in superseded

(* What keeps the three: a request that is on its way is superseded exactly *)
(* when its registration will refuse it,                                    *)
RequestsKnow ==
  \A i \in Probing :
    /\ creates[i].token \in Token /\ creates[i].gen <= clients[creates[i].client].gen
    /\ i \in superseded <=> Cancelled(creates[i])

(* a stop never runs ahead of the transition it came with,                  *)
StopsFollow == \A c \in Clients : clients[c].stop <= clients[c].transition

(* and what is registered or waits for the drain has been started.          *)
KeptAreStarted ==
  \A i \in sessions \cup deferred : creates[i].at \in {"waiting", "answered", "ended"}

IInv ==
  /\ TypeOK /\ LimitHolds /\ NothingLeaks /\ StopIsFinal
  /\ RequestsKnow /\ StopsFollow /\ KeptAreStarted
=============================================================================
