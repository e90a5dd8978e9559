------------------------------ MODULE Waveform ------------------------------
(***************************************************************************)
(* The waveform panel of the music player: music/waveform/controller.js,    *)
(* worker.js and cache.js.                                                  *)
(*                                                                         *)
(* When the panel is open and the song plays, its file is fetched, decoded  *)
(* and handed to a worker, which posts a coarse summary and then the exact  *)
(* one; a complete summary is kept in the browser.  Every step awaits, and  *)
(* meanwhile the song changes, the panel closes or the user reloads: cancel *)
(* moves the request token on and late results find that out.               *)
(***************************************************************************)
EXTENDS Integers, Sequences, FiniteSets, Functions

CONSTANTS
  Songs,      \* the identities of songs: path, size and modification time
  None,       \* nothing
  Limit,      \* waveformCacheEntryLimit
  MaxToken,   \* bound: how often work is cancelled
  MaxTasks    \* bound: fetches and decodes at a time; one late message at a time


VARIABLES
  song,       \* the song of the audio element, or None
  playing,    \* whether it plays
  wave,       \* the state of the controller
  tasks,      \* fetches and decodes that are awaited, current or not
  late,       \* messages of terminated workers that are still queued
  stored      \* the cache records, the one used last in front

vars == <<song, playing, wave, tasks, late, stored>>

Task == [song : Songs, token : 0 .. MaxToken, step : {"fetch", "resume", "decode"}, again : BOOLEAN]
Worker == [song : Songs, token : 0 .. MaxToken, posted : {"nothing", "preview", "exact"}]
Busy == {"fetching", "loaded", "decoding", "processing"}
Stages == Busy \cup {"idle", "waiting", "ready", "error"}

(* What Parts assumes of the constants.                                     *)
LimitAndNone == Limit \in Nat /\ MaxToken \in Nat /\ None \notin Songs \cup Worker

TypeOK ==
  /\ song \in Songs \cup {None} /\ playing \in BOOLEAN
  /\ wave \in [open : BOOLEAN, active : Songs \cup {None}, token : 0 .. MaxToken,
               stage : Stages, source : Songs \cup {None}, bytes : BOOLEAN,
               summary : [song : Songs, exact : BOOLEAN] \cup {None},
               worker : Worker \cup {None}]
  /\ tasks \subseteq Task /\ late \subseteq Worker
  /\ stored \in Seq([key : Songs, of : Songs]) /\ Len(stored) <= Limit

Init ==
  /\ song = None /\ playing = FALSE
  /\ wave \in [open : BOOLEAN, active : {None}, token : {0}, stage : {"idle"}, source : {None},
               bytes : {FALSE}, summary : {None}, worker : {None}]
  /\ tasks = {} /\ late = {} /\ stored = <<>>

-----------------------------------------------------------------------------
(* cancel: the worker is terminated, what was fetched and drawn is dropped. *)
Cancelled(w) ==
  [open |-> w.open, active |-> w.active, token |-> w.token + 1, stage |-> "idle",
   source |-> None, bytes |-> FALSE, summary |-> None, worker |-> None]
Terminated(w) == IF w.worker = None THEN late ELSE late \cup {w.worker}

(* setActiveSong                                                            *)
Activated(w, s) ==
  IF w.active = s THEN w
  ELSE [Cancelled(w) EXCEPT !.active = s, !.stage = IF w.open /\ s # None THEN "waiting" ELSE "idle"]

(* isCurrentRequest                                                         *)
IsCurrent(s, t) == wave.open /\ wave.token = t /\ wave.active = s

(* mergeWaveformCacheRecord and evictWaveformCacheEntries; a key has one    *)
(* record at most.                                                          *)
RemovedAt(s, i) == SubSeq(s, 1, i - 1) \o SubSeq(s, i + 1, Len(s))
Without(s, kept) ==
  IF \E i \in DOMAIN kept : kept[i].key = s
    THEN RemovedAt(kept, CHOOSE i \in DOMAIN kept : kept[i].key = s) ELSE kept
Merged(r, kept) ==
  LET all == <<r>> \o Without(r.key, kept) IN SubSeq(all, 1, IF Len(all) > Limit THEN Limit ELSE Len(all))
Kept(s, kept) == {r \in Range(kept) : r.key = s}

(* startForCurrentSong, for a controller w and the cache records kept: the  *)
(* work that runs goes on, bytes that are there are decoded, a record is    *)
(* shown, or the file is fetched.                                           *)
Start(w, kept, on) ==
  LET a == Activated(w, song)
      underWay == a.source = song /\ a.stage \in Busy \cup {"ready"}
      NewTask(step, again) == [song |-> song, token |-> a.token, step |-> step, again |-> again]
  IN  \/ /\ ~w.open /\ wave' = w /\ stored' = kept /\ UNCHANGED tasks
      \/ /\ w.open /\ (song = None \/ ~on)
         /\ wave' = [w EXCEPT !.stage = "waiting"] /\ stored' = kept /\ UNCHANGED tasks
      \/ /\ w.open /\ song # None /\ on /\ a.token <= MaxToken
         /\ \/ /\ underWay /\ wave' = a /\ stored' = kept
               /\ tasks' = IF a.stage = "loaded" /\ a.bytes THEN tasks \cup {NewTask("resume", TRUE)} ELSE tasks
            \/ /\ ~underWay
               /\ \E r \in Kept(song, kept) :
                    /\ wave' = [a EXCEPT !.source = song, !.stage = "ready", !.bytes = FALSE,
                                         !.summary = [song |-> r.of, exact |-> TRUE]]
                    /\ stored' = Merged(r, kept) /\ UNCHANGED tasks
            \/ /\ ~underWay /\ Kept(song, kept) = {}
               /\ wave' = [a EXCEPT !.source = song, !.stage = "fetching", !.bytes = FALSE]
               /\ tasks' = tasks \cup {NewTask("fetch", FALSE)} /\ stored' = kept
         /\ Cardinality(tasks') <= MaxTasks

-----------------------------------------------------------------------------
Room == wave.token < MaxToken
EndWorker ==
  late' = IF wave.worker # None /\ wave'.worker = None /\ late = {} THEN {wave.worker} ELSE late

(* playSongAt, and clearCurrentSong for s = None                            *)
PlaySong(s) ==
  /\ Room /\ s # song /\ song' = s /\ playing' = FALSE
  /\ wave' = Activated(wave, s) /\ EndWorker
  /\ UNCHANGED <<tasks, stored>>

(* handleAudioEmptied: the event comes after the source was replaced.       *)
Emptied ==
  /\ Room /\ ~playing /\ wave.active # None
  /\ wave' = Activated(wave, None) /\ EndWorker
  /\ UNCHANGED <<song, playing, tasks, stored>>

(* handleAudioPlaying                                                       *)
Playing ==
  /\ song # None /\ playing' = TRUE
  /\ Start(wave, stored, TRUE) /\ EndWorker /\ UNCHANGED song
Pause == playing /\ playing' = FALSE /\ UNCHANGED <<song, wave, tasks, late, stored>>

(* handleDetailsToggle, and activate or deactivate of an open panel         *)
Open ==
  /\ ~wave.open /\ Start([wave EXCEPT !.open = TRUE], stored, playing)
  /\ EndWorker /\ UNCHANGED <<song, playing>>
Close ==
  /\ Room /\ wave.open /\ wave' = Cancelled([wave EXCEPT !.open = FALSE])
  /\ EndWorker /\ UNCHANGED <<song, playing, tasks, stored>>

(* clearAndReload                                                           *)
Reload ==
  /\ Room
  /\ LET s == IF song # None THEN song ELSE wave.active
         kept == Without(s, stored)
         w == Cancelled(wave)
     IN  Start(IF song # None /\ playing /\ w.open THEN [w EXCEPT !.active = s, !.stage = "waiting"] ELSE w,
               kept, playing)
  /\ EndWorker /\ UNCHANGED <<song, playing>>

-----------------------------------------------------------------------------
(* The file is there: it is decoded when the audio context has resumed.     *)
Continued(t, step) == (tasks \ {t}) \cup {[t EXCEPT !.step = step]}
FetchDone(t) ==
  /\ t.step = "fetch"
  /\ IF IsCurrent(t.song, t.token)
     THEN /\ wave' = [wave EXCEPT !.stage = "loaded", !.bytes = TRUE]
          /\ tasks' = Continued(t, "resume")
     ELSE tasks' = tasks \ {t} /\ UNCHANGED wave
  /\ UNCHANGED <<song, playing, late, stored>>

(* context.resume: nothing looks whether the request is still current.      *)
Resumed(t) ==
  /\ t.step = "resume"
  /\ wave' = [wave EXCEPT !.stage = "decoding", !.bytes = FALSE]
  /\ tasks' = Continued(t, "decode")
  /\ UNCHANGED <<song, playing, late, stored>>

(* decodeAndReduce after the decoder, and createWorker                      *)
Decoded(t) ==
  /\ t.step = "decode" /\ tasks' = tasks \ {t}
  /\ IF IsCurrent(t.song, t.token)
     THEN wave' = [wave EXCEPT !.stage = "processing", !.summary = None,
                               !.worker = [song |-> t.song, token |-> t.token, posted |-> "nothing"]]
     ELSE UNCHANGED wave
  /\ UNCHANGED <<song, playing, late, stored>>

(* The catch clauses of startForCurrentSong and decodeAndReduce             *)
TaskFails(t) ==
  /\ t.step # "resume" /\ tasks' = tasks \ {t}
  /\ IF IsCurrent(t.song, t.token)
     THEN wave' = [wave EXCEPT !.stage = "error", !.bytes = FALSE,
                               !.worker = IF t.step = "decode" THEN None ELSE @]
     ELSE UNCHANGED wave
  /\ EndWorker /\ UNCHANGED <<song, playing, stored>>

(* What the worker computes from the samples of its song: one extremum and  *)
(* one loudness per column, first from a few samples, then from all.        *)
SummaryOf(k, posted) == [song |-> k.song, exact |-> posted = "exact"]

(* handleWorkerMessage, for the next message of a worker k: the coarse      *)
(* summary, the exact one, then complete (saveCompletedCache).              *)
Workers == late \cup ({wave.worker} \ {None})
(* Slip: any worker is heard while there is one.                            *)
IsAnyWorker(k) == wave.open /\ wave.worker # None /\ k.token <= wave.token
(* The check of the worker's token                                          *)
IsHeard(k) == IsCurrent(k.song, k.token) /\ wave.worker # None /\ wave.worker.token = k.token
Summary(k) ==
  LET posted == IF k.posted = "nothing" THEN "preview" ELSE "exact"
  IN  /\ k.posted # "exact" /\ late' = late \ {k} /\ UNCHANGED <<song, playing, tasks, stored>>
      /\ IF IsHeard(k)
         THEN wave' = [wave EXCEPT !.stage = "processing", !.worker.posted = posted,
                                   !.summary = SummaryOf(k, posted)]
         ELSE UNCHANGED wave
Complete(k) ==
  /\ k.posted = "exact" /\ late' = late \ {k} /\ UNCHANGED <<song, playing, tasks>>
  /\ IF IsHeard(k)
     THEN /\ wave' = [wave EXCEPT !.stage = "ready", !.worker = None]
          /\ stored' = IF wave.summary = None THEN stored
                       ELSE Merged([key |-> k.song, of |-> wave.summary.song], stored)
     ELSE UNCHANGED <<wave, stored>>
(* handleWorkerFailure                                                      *)
WorkerFails ==
  /\ wave.worker # None /\ wave' = [wave EXCEPT !.stage = "error", !.worker = None]
  /\ UNCHANGED <<song, playing, tasks, late, stored>>

Next ==
  \/ \E s \in Songs \cup {None} : PlaySong(s)
  \/ Emptied \/ Playing \/ Pause \/ Open \/ Close \/ Reload
  \/ \E t \in tasks : FetchDone(t) \/ Resumed(t) \/ Decoded(t) \/ TaskFails(t)
  \/ \E k \in Workers : Summary(k) \/ Complete(k)
  \/ WorkerFails

Spec == Init /\ [][Next]_vars

-----------------------------------------------------------------------------
(* What is drawn, and what is kept under the name of a song, was computed   *)
(* from the file of that song, however late a result comes                  *)
(* (docs/music-player.md: "suppresses late results").                       *)
SummaryIsSongs ==
  /\ wave.summary # None => wave.open /\ wave.summary.song = wave.active
  /\ \A r \in Range(stored) : r.of = r.key

(* A stage that says that work is under way has that work: the fetch of the *)
(* current request, its decode, or the worker that will post.  Nothing else *)
(* would ever leave the stage: startForCurrentSong takes it as done.  (It   *)
(* does not hold of decoding, which a late Resumed can set.)                *)
StageHasWork ==
  /\ wave.stage = "fetching" => \E t \in tasks : IsCurrent(t.song, t.token) /\ t.step = "fetch"
  /\ wave.stage = "processing" => wave.worker # None /\ IsHeard(wave.worker)

(* What keeps these, of a controller w, tasks ts and cache records kept: the *)
(* worker is the current request's, and a key has one record.               *)
Controllers ==
  [open : BOOLEAN, active : Songs \cup {None}, token : Nat,
   stage : Stages, source : Songs \cup {None}, bytes : BOOLEAN,
   summary : [song : Songs, exact : BOOLEAN] \cup {None}, worker : Worker \cup {None}]
Coherent(w, ts) ==
  /\ w.summary # None => w.open /\ w.summary.song = w.active
  /\ w.worker # None => w.open /\ w.worker.song = w.active /\ w.worker.token = w.token
  /\ w.stage = "processing" => w.worker # None
  /\ w.stage = "fetching" =>
       w.open /\ \E t \in ts : t.song = w.active /\ t.token = w.token /\ t.step = "fetch"
IsControlled(w, ts) == w \in Controllers /\ Coherent(w, ts)
AreRecords(kept) ==
  /\ kept \in Seq([key : Songs, of : Songs]) /\ Len(kept) <= Limit
  /\ \A i \in DOMAIN kept : kept[i].of = kept[i].key
  /\ \A i, j \in DOMAIN kept : kept[i].key = kept[j].key => i = j
IInv ==
  /\ TypeOK /\ IsControlled(wave, tasks) /\ AreRecords(stored)
=============================================================================
