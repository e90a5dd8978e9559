-------------------------- MODULE HlsSessionsProofs --------------------------
(****************************************************************************)
(* Proofs about HlsSessions, for any clients, any limit and any number of   *)
(* requests.                                                                *)
(*                                                                          *)
(* The argument: what is pending is counted by the requests that are on     *)
(* their way, and whoever takes one off its way, with a session, a failure  *)
(* or a refusal, takes it off the count in the same lock section. What a    *)
(* request on its way is told at the end, its registration could compute at *)
(* any time: it is superseded exactly when its token or its generation is   *)
(* behind its client's. Every ffmpeg that is taken from the registered      *)
(* sessions is put aside for the drain by the same hand.                    *)
(****************************************************************************)
EXTENDS HlsSessions, FiniteSetTheorems, TLAPS

(* What the lemmas below need of cardinalities.                             *)
LEMMA HlsCount ==
  ASSUME NEW S, IsFiniteSet(S)
  PROVE  /\ Cardinality(S) \in Nat
         /\ \A T : T \subseteq S => IsFiniteSet(T) /\ Cardinality(T) <= Cardinality(S)
         /\ \A T : T \subseteq S /\ Cardinality(T) = Cardinality(S) => T = S
         /\ \A x \in S : Cardinality(S \ {x}) = Cardinality(S) - 1
         /\ \A x : IsFiniteSet(S \cup {x})
         /\ \A x : x \notin S => Cardinality(S \cup {x}) = Cardinality(S) + 1
  BY FS_CardinalityType, FS_Subset, FS_RemoveElement, FS_AddElement

(* The numbers up to n are n.                                                *)
LEMMA HlsFinite == \A n \in Nat : IsFiniteSet(1..n) /\ Cardinality(1..n) = n
  BY FS_Interval

(* And there is nothing in the empty set.                                    *)
LEMMA HlsEmpty == IsFiniteSet({}) /\ Cardinality({}) = 0
  BY FS_EmptySet

(* The type of the requests, index by index.                                *)
Requested ==
  /\ Len(creates) \in 0..MaxCreates /\ Ids = 1..Len(creates)
  /\ \A i \in Ids : creates[i] \in Create

-----------------------------------------------------------------------------
(* No client has asked for a session.                                        *)
LEMMA InitIInv == SessionsAssumption /\ Init => IInv
<1> SUFFICES ASSUME SessionsAssumption, Init PROVE IInv
  OBVIOUS
<1>1. creates = <<>> /\ Len(creates) = 0 /\ creates \in Seq(Create) BY DEF Init
<1>2. DOMAIN creates = 1..0 BY <1>1
<1>2b. \A i : i \notin Ids BY <1>2 DEF Ids
<1>2a. Ids = {} /\ Probing = {} BY <1>2b DEF Probing
<1>3. TypeOK
  <2>1. clients \in [Clients -> [gen : 0 .. MaxStops, transition : -1 .. MaxToken, stop : -1 .. MaxToken]]
    BY DEF Init, SessionsAssumption
  <2>2. creates \in Seq(Create) /\ Len(creates) <= MaxCreates /\ pending \in 0..MaxCreates
    BY <1>1 DEF Init, SessionsAssumption
  <2>3. sessions = {} /\ deferred = {} /\ superseded = {} /\ drain = FALSE BY DEF Init
  <2>4. QED BY <2>1, <2>2, <2>3 DEF TypeOK
<1>4. LimitHolds BY <1>2a, HlsEmpty DEF LimitHolds, Init, SessionsAssumption
<1>5. QED
  BY <1>2a, <1>3, <1>4
  DEF Init, IInv, NothingLeaks, StopIsFinal, RequestsKnow, StopsFollow, KeptAreStarted

(* What the lemmas use of the invariant.                                    *)
LEMMA HlsFacts ==
  ASSUME SessionsAssumption, IInv
  PROVE  /\ Requested
         /\ pending = Cardinality(Probing) /\ Probing \subseteq 1..Len(creates)
         /\ sessions \subseteq 1..Len(creates)
         /\ IsFiniteSet(Probing) /\ IsFiniteSet(sessions)
         /\ Cardinality(sessions) \in Nat /\ pending \in Nat
<1>1. Requested BY DEF IInv, TypeOK, Ids, Requested, SessionsAssumption
<1>2. /\ Probing \subseteq 1..Len(creates) /\ sessions \subseteq 1..Len(creates)
      /\ Len(creates) \in Nat
  BY <1>1 DEF Requested, Probing, IInv, TypeOK, SessionsAssumption
<1>3. /\ IsFiniteSet(Probing) /\ IsFiniteSet(sessions)
      /\ Cardinality(sessions) \in Nat /\ Cardinality(Probing) \in Nat
  <2>1. IsFiniteSet(1..Len(creates)) BY <1>2, HlsFinite
  <2>2. IsFiniteSet(Probing) /\ IsFiniteSet(sessions) BY <1>2, <2>1, HlsCount
  <2>3. QED BY <2>2, HlsCount
<1>4. pending = Cardinality(Probing) BY DEF IInv, LimitHolds
<1>5. QED BY <1>1, <1>2, <1>3, <1>4

(* Back from the type index by index.                                       *)
LEMMA HlsTyped ==
  ASSUME NEW n \in Nat, creates' \in [1..n -> Create], n <= MaxCreates,
         sessions' \subseteq Ids', deferred' \subseteq Ids', superseded' \subseteq Ids',
         pending' \in 0..MaxCreates, drain' \in BOOLEAN,
         clients' \in [Clients -> [gen : 0 .. MaxStops, transition : -1 .. MaxToken, stop : -1 .. MaxToken]]
  PROVE  TypeOK'
  BY DEF TypeOK

(* A step that neither makes a request nor takes one off its way.           *)
LEMMA HlsKeeps ==
  ASSUME SessionsAssumption, IInv,
         creates' \in [Ids -> Create], UNCHANGED <<clients, pending>>, drain' \in BOOLEAN,
         \A i \in Ids : creates[i].at = "probing" \/ creates'[i].at = "probing" => creates'[i] = creates[i],
         sessions' \subseteq sessions, deferred' \subseteq deferred \cup sessions,
         superseded' \subseteq superseded, superseded \cap Probing \subseteq superseded',
         \A i \in Ids : creates'[i].at = "stopped" => i \in superseded',
         KeptAreStarted', NothingLeaks'
  PROVE  IInv'
<1>1. Requested /\ sessions \subseteq Ids /\ deferred \subseteq Ids /\ superseded \subseteq Ids
  BY HlsFacts DEF IInv, TypeOK
<1>2. Ids' = Ids BY DEF Ids
<1>3. TypeOK'
  <2>1. /\ Len(creates) \in Nat /\ creates' \in [1..Len(creates) -> Create]
        /\ Len(creates) <= MaxCreates
    BY <1>1 DEF Requested, SessionsAssumption
  <2>2. UNCHANGED <<clients, pending>> /\ TypeOK BY DEF IInv
  <2>3. sessions' \subseteq Ids' /\ deferred' \subseteq Ids' /\ superseded' \subseteq Ids'
    BY <1>1, <1>2
  <2>4. /\ pending' \in 0..MaxCreates
        /\ clients' \in [Clients -> [gen : 0 .. MaxStops, transition : -1 .. MaxToken,
                                     stop : -1 .. MaxToken]]
    BY <2>2 DEF TypeOK
  <2>5. QED BY <2>1, <2>3, <2>4, HlsTyped
<1>4. Probing' = Probing BY <1>2 DEF Probing
<1>5. LimitHolds'
  <2>1. Cardinality(sessions') <= Cardinality(sessions) /\ Cardinality(sessions') \in Nat
    BY HlsFacts, HlsCount
  <2>2. Cardinality(sessions) + pending <= MaxSessions /\ pending = Cardinality(Probing)
    BY DEF IInv, LimitHolds
  <2>3. QED BY <1>4, <2>1, <2>2, HlsFacts DEF LimitHolds, SessionsAssumption
<1>6. StopIsFinal' BY <1>2 DEF IInv, StopIsFinal
<1>7. RequestsKnow'
  BY <1>1, <1>2, <1>4 DEF IInv, RequestsKnow, Cancelled, Probing
<1>8. StopsFollow' BY DEF IInv, StopsFollow
<1>9. QED BY <1>3, <1>5, <1>6, <1>7, <1>8 DEF IInv

-----------------------------------------------------------------------------
(* The first segments; the clock, the player and the server's readers.      *)
LEMMA HlsUsed ==
  ASSUME SessionsAssumption, IInv, NEW i \in Ids, NEW r \in Create,
         creates[i].at \notin {"probing", "stopped"}, r.at \in {"waiting", "answered", "ended"},
         r.ffmpeg # "none" => creates[i].ffmpeg # "none",
         creates' = [creates EXCEPT ![i] = r], UNCHANGED <<clients, pending, superseded>>,
         sessions' \subseteq sessions, deferred' = deferred \cup (sessions \ sessions'),
         drain' \in BOOLEAN, deferred' # {} => drain'
  PROVE  IInv'
<1>1. Requested /\ Ids' = Ids BY HlsFacts DEF Ids
<1>2. creates' \in [Ids -> Create] /\ creates'[i] = r /\ \A j \in Ids : j # i => creates'[j] = creates[j]
  BY <1>1, HlsFacts DEF Requested, Ids, IInv, TypeOK
<1>3. sessions' \cup deferred' = sessions \cup deferred OBVIOUS
<1>4. KeptAreStarted' BY <1>1, <1>2, <1>3 DEF IInv, KeptAreStarted, TypeOK
<1>5. NothingLeaks'
  BY <1>1, <1>2, <1>3 DEF IInv, NothingLeaks, Requested, Create
<1>6. \A j \in Ids : creates'[j].at = "stopped" => j \in superseded'
  BY <1>2 DEF IInv, StopIsFinal
<1>7. QED BY <1>2, <1>4, <1>5, <1>6, HlsKeeps

(* A segment is read, the player reports, time passes, or an ffmpeg exits.   *)
LEMMA HlsUse == ASSUME SessionsAssumption, IInv, Use PROVE IInv'
<1>1. PICK i \in Ids : Served(i) \/ (\E r \in {"playing", "used"} : Progress(i, r)) \/ TimePasses(i) \/ Exits(i)
  BY DEF Use
<1>2. Requested /\ creates[i] \in Create BY HlsFacts DEF Requested
<1>3. i \in sessions => /\ creates[i].at \notin {"probing", "stopped"}
                        /\ creates[i].at \in {"waiting", "answered", "ended"}
  BY DEF IInv, KeptAreStarted
<1>4. deferred # {} => drain BY DEF IInv, NothingLeaks
<1>5. CASE Served(i)
  <2>1. creates' = [creates EXCEPT ![i] = [creates[i] EXCEPT !.seen = "used"]]
    BY <1>5, <1>2 DEF Served
  <2>2. [creates[i] EXCEPT !.seen = "used"] \in Create BY <1>2 DEF Create
  <2>3. /\ sessions' \subseteq sessions /\ deferred' = deferred \cup (sessions \ sessions')
        /\ drain' \in BOOLEAN /\ (deferred' # {} => drain') /\ i \in sessions
        /\ UNCHANGED <<clients, pending, superseded>>
    BY <1>4, <1>5 DEF Served, IInv, TypeOK
  <2>4. QED BY <1>2, <1>3, <2>1, <2>2, <2>3, HlsUsed DEF Create
<1>6. ASSUME NEW r \in {"playing", "used"}, Progress(i, r) PROVE IInv'
  <2>1. creates' = [creates EXCEPT ![i] = [creates[i] EXCEPT !.seen = r]]
    BY <1>6, <1>2 DEF Progress
  <2>2. [creates[i] EXCEPT !.seen = r] \in Create BY <1>2 DEF Create
  <2>3. /\ sessions' \subseteq sessions /\ deferred' = deferred \cup (sessions \ sessions')
        /\ drain' \in BOOLEAN /\ (deferred' # {} => drain') /\ i \in sessions
        /\ UNCHANGED <<clients, pending, superseded>>
    BY <1>6 DEF Progress, Keep, Fresh, Leave
  <2>4. QED BY <1>2, <1>3, <2>1, <2>2, <2>3, HlsUsed DEF Create
<1>7. CASE TimePasses(i)
  <2>1. PICK r \in {"used", "old"} : creates' = [creates EXCEPT ![i] = [creates[i] EXCEPT !.seen = r]]
    BY <1>7, <1>2 DEF TimePasses
  <2>2. [creates[i] EXCEPT !.seen = r] \in Create BY <1>2, <2>1 DEF Create
  <2>3. drain \in BOOLEAN BY DEF IInv, TypeOK
  <2>4. QED BY <1>2, <1>3, <1>4, <1>7, <2>1, <2>2, <2>3, HlsUsed DEF TimePasses, Create
<1>8. CASE Exits(i)
  <2>1. creates' = [creates EXCEPT ![i] = [creates[i] EXCEPT !.ffmpeg = "exited"]]
    BY <1>8, <1>2 DEF Exits
  <2>2. [creates[i] EXCEPT !.ffmpeg = "exited"] \in Create BY <1>2 DEF Create
  <2>0. creates[i].at # "probing"
    BY <1>8 DEF Exits, IInv, NothingLeaks, KeptAreStarted
  <2>a. creates \in [Ids -> Create] BY <1>2 DEF Requested, IInv, TypeOK, Ids
  <2>b. [creates[i] EXCEPT !.ffmpeg = "exited"].at = creates[i].at BY <1>2 DEF Create
  <2>3. /\ creates' \in [Ids -> Create] /\ creates[i].at # "probing"
        /\ \A j \in Ids : creates'[j].at = creates[j].at
        /\ \A j \in Ids : j # i => creates'[j] = creates[j]
    BY <2>0, <2>1, <2>2, <2>a, <2>b
  <2>4. /\ sessions' = sessions /\ deferred' = deferred /\ superseded' = superseded
        /\ drain' = drain /\ drain' \in BOOLEAN /\ UNCHANGED <<clients, pending>> /\ Ids' = Ids
    BY <1>8, <2>1 DEF Exits, IInv, TypeOK, Ids
  <2>5. NothingLeaks'
    BY <1>8, <2>1, <2>3, <2>4 DEF Exits, IInv, NothingLeaks
  <2>6. KeptAreStarted' BY <2>3, <2>4 DEF IInv, KeptAreStarted, TypeOK
  <2>7. \A j \in Ids : creates'[j].at = "stopped" => j \in superseded'
    BY <2>3, <2>4 DEF IInv, StopIsFinal
  <2>8. QED BY <2>3, <2>4, <2>5, <2>6, <2>7, HlsKeeps
<1>9. QED BY <1>1, <1>5, <1>6, <1>7, <1>8

(* A reader expires sessions.                                               *)
LEMMA HlsLook == ASSUME SessionsAssumption, IInv, Look PROVE IInv'
<1>1. Requested /\ creates' = creates /\ Ids' = Ids BY HlsFacts DEF Look, Ids
<1>2. creates \in [Ids -> Create] BY <1>1 DEF Requested, IInv, TypeOK, Ids
<1>3. /\ sessions' \subseteq sessions /\ deferred' = deferred \cup (sessions \ sessions')
      /\ drain' \in BOOLEAN /\ (deferred' # {} => drain') /\ UNCHANGED <<clients, pending, superseded>>
  BY DEF Look, Keep, Fresh, Leave
<1>4. sessions' \cup deferred' = sessions \cup deferred BY <1>3
<1>5. NothingLeaks' BY <1>1, <1>3, <1>4 DEF IInv, NothingLeaks
<1>6. KeptAreStarted' BY <1>1, <1>4 DEF IInv, KeptAreStarted
<1>7. \A j \in Ids : creates'[j].at = "stopped" => j \in superseded'
  BY <1>1, <1>3 DEF IInv, StopIsFinal
<1>8. QED BY <1>1, <1>2, <1>3, <1>5, <1>6, <1>7, HlsKeeps

-----------------------------------------------------------------------------
(* A thread kills what it has taken, or its own refused ffmpeg.             *)
LEMMA HlsKill ==
  ASSUME SessionsAssumption, IInv, NEW S \in SUBSET Ids, S \cap Probing = {},
         creates' = Kill(S), UNCHANGED <<sessions, pending, clients>>,
         deferred' \subseteq deferred, deferred \ deferred' \subseteq S,
         drain' \in BOOLEAN, deferred' # {} => drain',
         superseded' = superseded \ S
  PROVE  IInv'
<1>1. Requested /\ Ids' = Ids BY HlsFacts DEF Ids, Kill
<1>2. \A i \in S : [creates[i] EXCEPT !.ffmpeg = "none", !.seen = "used",
                                      !.at = IF @ = "waiting" THEN @ ELSE "ended"] \in Create
  <2> TAKE i \in S
  <2> DEFINE at == IF creates[i].at = "waiting" THEN "waiting" ELSE "ended"
  <2>1. creates[i] \in Create BY <1>1 DEF Requested
  <2>2. [creates[i] EXCEPT !.ffmpeg = "none", !.seen = "used", !.at = IF @ = "waiting" THEN @ ELSE "ended"]
        = [creates[i] EXCEPT !.ffmpeg = "none", !.seen = "used", !.at = at]
    BY <2>1 DEF Create
  <2>3. at \in {"probing", "waiting", "answered", "stopped", "ended"} OBVIOUS
  <2> HIDE DEF at
  <2>4. QED BY <2>1, <2>2, <2>3 DEF Create
<1>3. creates' \in [Ids -> Create] /\ (\A i \in Ids \ S : creates'[i] = creates[i])
  BY <1>1, <1>2 DEF Requested, Kill
<1>4. \A i \in S : creates'[i].ffmpeg = "none" /\ creates'[i].at \in {"waiting", "ended"}
  <2> TAKE i \in S
  <2>1. creates'[i] = [creates[i] EXCEPT !.ffmpeg = "none", !.seen = "used",
                                         !.at = IF @ = "waiting" THEN @ ELSE "ended"]
    BY <1>1 DEF Kill
  <2>2. creates[i] \in Create BY <1>1 DEF Requested
  <2>3. QED BY <2>1, <2>2 DEF Create
<1>5. NothingLeaks'
  BY <1>1, <1>3, <1>4 DEF IInv, NothingLeaks
<1>6. KeptAreStarted' BY <1>1, <1>3, <1>4 DEF IInv, KeptAreStarted, TypeOK
<1>7. \A i \in Ids : creates'[i].at = "stopped" => i \in superseded'
  BY <1>3, <1>4 DEF IInv, StopIsFinal
<1>8. \A i \in Ids : creates[i].at = "probing" \/ creates'[i].at = "probing" => creates'[i] = creates[i]
  BY <1>3, <1>4 DEF Probing
<1>9. QED BY <1>3, <1>5, <1>6, <1>7, <1>8, HlsKeeps

(* The drain kills what was put aside,                                       *)
LEMMA HlsDrain == ASSUME SessionsAssumption, IInv, Drain PROVE IInv'
<1>1. deferred \subseteq Ids /\ deferred \cap Probing = {}
  BY DEF IInv, TypeOK, KeptAreStarted, Probing
<1>2. QED BY <1>1, HlsKill DEF Drain

(* and a refused request its own ffmpeg.                                     *)
LEMMA HlsDiscard == ASSUME SessionsAssumption, IInv, NEW i \in Ids, Discard(i) PROVE IInv'
<1>1. creates[i].at = "stopped" /\ {i} \cap Probing = {} BY DEF Discard, Probing
<1>2. drain \in BOOLEAN /\ (deferred # {} => drain) BY DEF IInv, TypeOK, NothingLeaks
<1>3. QED BY <1>1, <1>2, HlsKill DEF Discard

(* The first segments, or a player that gives up.                           *)
LEMMA HlsAnswer == ASSUME SessionsAssumption, IInv, NEW i \in Ids, Answer(i) PROVE IInv'
<1>1. creates[i] \in Create BY HlsFacts DEF Requested
<1>2. [creates[i] EXCEPT !.at = "answered"] \in Create BY <1>1 DEF Create
<1>3. creates' = [creates EXCEPT ![i] = [creates[i] EXCEPT !.at = "answered"]]
  BY <1>1 DEF Answer
<1>4. drain \in BOOLEAN /\ (deferred # {} => drain) BY DEF IInv, TypeOK, NothingLeaks
<1>5. UNCHANGED <<sessions, pending, deferred, drain, clients, superseded>>
      /\ creates[i].at = "waiting" /\ creates[i].ffmpeg # "none"
  BY DEF Answer
<1>6. [creates[i] EXCEPT !.at = "answered"].at = "answered" BY <1>1 DEF Create
<1>7. sessions' \subseteq sessions /\ deferred' = deferred \cup (sessions \ sessions') BY <1>5
<1>8. QED BY <1>2, <1>3, <1>4, <1>5, <1>6, <1>7, HlsUsed

(* A player that gives up, or an ffmpeg that does.                           *)
LEMMA HlsAnswerFails ==
  ASSUME SessionsAssumption, IInv, NEW i \in Ids, AnswerFails(i)
  PROVE  IInv'
<1>1. creates[i] \in Create BY HlsFacts DEF Requested
<1>2. [creates[i] EXCEPT !.at = "ended"] \in Create BY <1>1 DEF Create
<1>3. creates' = [creates EXCEPT ![i] = [creates[i] EXCEPT !.at = "ended"]]
  BY <1>1 DEF AnswerFails
<1>4. /\ sessions' \subseteq sessions /\ deferred' = deferred \cup (sessions \ sessions')
      /\ drain' \in BOOLEAN /\ (deferred' # {} => drain') /\ UNCHANGED <<clients, pending, superseded>>
  BY DEF AnswerFails, Keep, Leave
<1>5. QED BY <1>1, <1>2, <1>3, <1>4, HlsUsed DEF AnswerFails, Create

-----------------------------------------------------------------------------
(* A request leaves its way: it fails, is refused or is registered.         *)
LEMMA HlsLeavesWay ==
  ASSUME SessionsAssumption, IInv, NEW i \in Probing, NEW r \in Create,
         creates' = [creates EXCEPT ![i] = r], r.at \in {"waiting", "stopped", "ended"},
         pending' = pending - 1, UNCHANGED clients,
         sessions' \subseteq sessions \cup {i}, i \in sessions' => r.at = "waiting" /\ i \notin superseded',
         deferred' = deferred \cup (sessions \ sessions'),
         drain' \in BOOLEAN, deferred' # {} => drain',
         superseded' \subseteq superseded, superseded \ superseded' \subseteq {i},
         r.ffmpeg # "none" => r.at = "stopped" \/ i \in sessions',
         r.at = "stopped" => i \in superseded'
  PROVE  IInv'
<1>1. Requested /\ i \in Ids /\ Ids' = Ids BY HlsFacts DEF Ids, Probing
<1>2. /\ creates' \in [Ids -> Create] /\ creates'[i] = r
      /\ \A j \in Ids : j # i => creates'[j] = creates[j]
  BY <1>1 DEF Requested, Ids, IInv, TypeOK
<1>3. sessions \subseteq Ids /\ deferred \subseteq Ids /\ superseded \subseteq Ids /\ i \notin sessions \cup deferred
  BY DEF IInv, TypeOK, KeptAreStarted, Probing
<1>4. Probing' = Probing \ {i} BY <1>1, <1>2 DEF Probing
<1>5. pending' = Cardinality(Probing') /\ pending' \in Nat
  <2>1. IsFiniteSet(Probing) /\ pending = Cardinality(Probing) BY HlsFacts
  <2>2. IsFiniteSet(Probing') /\ Cardinality(Probing') = Cardinality(Probing) - 1
    BY <1>4, <2>1, HlsCount
  <2>3. QED BY <2>1, <2>2, HlsCount
<1>6. LimitHolds'
  <2>1. IsFiniteSet(sessions) /\ Cardinality(sessions) \in Nat BY HlsFacts
  <2>2. IsFiniteSet(sessions \cup {i}) /\ Cardinality(sessions \cup {i}) = Cardinality(sessions) + 1
    BY <1>3, <2>1, HlsCount
  <2>3. Cardinality(sessions') \in Nat /\ Cardinality(sessions') <= Cardinality(sessions) + 1
    BY <2>2, HlsCount
  <2>4. Cardinality(sessions) + pending <= MaxSessions BY DEF IInv, LimitHolds
  <2>5. QED BY <1>5, <2>1, <2>3, <2>4, HlsFacts DEF LimitHolds, SessionsAssumption
<1>7. TypeOK'
  <2>1. /\ Len(creates) \in Nat /\ creates' \in [1..Len(creates) -> Create]
        /\ Len(creates) <= MaxCreates
    BY <1>1, <1>2 DEF Requested, SessionsAssumption
  <2>2. sessions' \subseteq Ids' /\ deferred' \subseteq Ids' /\ superseded' \subseteq Ids'
    BY <1>1, <1>3
  <2>3. pending' \in 0..MaxCreates BY <1>5 DEF IInv, TypeOK, SessionsAssumption
  <2>4. clients' \in [Clients -> [gen : 0 .. MaxStops, transition : -1 .. MaxToken, stop : -1 .. MaxToken]]
    BY DEF IInv, TypeOK
  <2>5. QED BY <2>1, <2>2, <2>3, <2>4, HlsTyped
<1>8. NothingLeaks'
  BY <1>1, <1>2, <1>3 DEF IInv, NothingLeaks, Create
<1>9. StopIsFinal'
  BY <1>1, <1>2, <1>3 DEF IInv, StopIsFinal
<1>10. RequestsKnow' BY <1>1, <1>2, <1>4 DEF IInv, RequestsKnow, Cancelled, Probing
<1>11. StopsFollow' BY DEF IInv, StopsFollow
<1>12. KeptAreStarted' BY <1>1, <1>2, <1>3 DEF IInv, KeptAreStarted
<1>13. QED BY <1>6, <1>7, <1>8, <1>9, <1>10, <1>11, <1>12 DEF IInv

(* What a session keeps of its request.                                     *)
LEMMA HlsSettled ==
  ASSUME SessionsAssumption, NEW r \in Create, NEW at \in {"waiting", "stopped", "ended"}
  PROVE  /\ Settled(r, at) \in Create /\ Settled(r, at).at = at
         /\ Settled(r, at).ffmpeg = r.ffmpeg
         /\ Running(r, at) \in Create /\ Running(r, at).at = at
<1>a. 0 \in 0..MaxStops BY DEF SessionsAssumption
<1>b. ASSUME NEW q \in Create PROVE [q EXCEPT !.gen = 0] \in Create BY <1>a DEF Create
<1>c. [r EXCEPT !.token = None] \in Create BY DEF Create
<1>d. [[r EXCEPT !.token = None] EXCEPT !.gen = 0] \in Create BY <1>b, <1>c
<1>e. [[[r EXCEPT !.token = None] EXCEPT !.gen = 0] EXCEPT !.at = at] \in Create
  BY <1>d DEF Create
<1>1. [r EXCEPT !.token = None, !.gen = 0, !.at = at] \in Create BY <1>e
<1>2. Settled(r, at) = [r EXCEPT !.token = None, !.gen = 0, !.at = at] BY DEF Settled
<1>3. Settled(r, at).at = at /\ Settled(r, at).ffmpeg = r.ffmpeg BY <1>2 DEF Create
<1>4. Running(r, at) = [Settled(r, at) EXCEPT !.ffmpeg = "runs"] BY DEF Running
<1>5. Running(r, at) \in Create /\ Running(r, at).at = at
  <2>1. Settled(r, at) \in Create BY <1>1, <1>2
  <2>2. [Settled(r, at) EXCEPT !.ffmpeg = "runs"] \in Create BY <2>1 DEF Create
  <2>3. [Settled(r, at) EXCEPT !.ffmpeg = "runs"].at = at BY <1>3, <2>1 DEF Create
  <2>4. QED BY <1>4, <2>2, <2>3
<1>6. QED BY <1>1, <1>2, <1>3, <1>5

(* A start that fails leaves its way,                                        *)
LEMMA HlsStartFails ==
  ASSUME SessionsAssumption, IInv, NEW i \in Ids, StartFails(i)
  PROVE  IInv'
<1>1. creates[i] \in Create /\ i \in Probing /\ creates[i].ffmpeg = "none"
  BY HlsFacts DEF Requested, StartFails, Probing, IInv, NothingLeaks, KeptAreStarted, Create
<1>2. Settled(creates[i], "ended") \in Create /\ Settled(creates[i], "ended").at = "ended"
      /\ Settled(creates[i], "ended").ffmpeg = "none"
  BY <1>1, HlsSettled
<1>3. creates' = [creates EXCEPT ![i] = Settled(creates[i], "ended")]
  BY <1>1 DEF StartFails
<1>4. i \notin sessions /\ (deferred' # {} => drain') /\ drain' \in BOOLEAN
  BY <1>1 DEF IInv, KeptAreStarted, Probing, StartFails, Leave
<1>5. QED BY <1>1, <1>2, <1>3, <1>4, HlsLeavesWay DEF StartFails

(* and so does one that is registered or refused.                            *)
LEMMA HlsRegister == ASSUME SessionsAssumption, IInv, NEW i \in Ids, Register(i) PROVE IInv'
<1>1. creates[i] \in Create /\ i \in Probing
  BY HlsFacts DEF Requested, Register, Probing
<1>2. ASSUME NEW at \in {"stopped", "waiting"}
      PROVE Running(creates[i], at) \in Create /\ Running(creates[i], at).at = at
  BY <1>1, HlsSettled
<1>3. (deferred' # {} => drain') /\ drain' \in BOOLEAN /\ UNCHANGED <<clients, superseded>>
      /\ pending' = pending - 1
  BY DEF Register, Leave
<1>4. i \notin sessions /\ (i \in superseded <=> Cancelled(creates[i]))
  BY <1>1 DEF IInv, KeptAreStarted, Probing, RequestsKnow
<1>5. CASE Cancelled(creates[i])
  <2>1. creates' = [creates EXCEPT ![i] = Running(creates[i], "stopped")]
        /\ sessions' \subseteq sessions /\ deferred' = deferred \cup (sessions \ sessions')
    BY <1>1, <1>5 DEF Register, Keep, Fresh
  <2>2. QED BY <1>1, <1>2, <1>3, <1>4, <1>5, <2>1, HlsLeavesWay
<1>6. CASE ~Cancelled(creates[i])
  <2>1. creates' = [creates EXCEPT ![i] = Running(creates[i], "waiting")]
        /\ sessions' \subseteq sessions \cup {i} /\ deferred' = deferred \cup (sessions \ sessions')
        /\ i \in sessions'
    BY <1>1, <1>4, <1>6 DEF Register, Fresh
  <2>2. QED BY <1>1, <1>2, <1>3, <1>4, <1>6, <2>1, HlsLeavesWay
<1>7. QED BY <1>5, <1>6

-----------------------------------------------------------------------------
(* A client stops.                                                          *)
LEMMA HlsStop ==
  ASSUME SessionsAssumption, IInv, NEW c \in Clients, NEW id, NEW t \in Token \cup {None},
         Stop(c, id, t)
  PROVE  IInv'
<1> DEFINE newest == clients[c].transition
           stale == t # None /\ t < newest
           bumps == ~stale /\ (id = None \/ t # None)
<1>1. Requested /\ creates' = creates /\ Ids' = Ids /\ pending' = pending /\ Probing' = Probing
  BY HlsFacts DEF Stop, Ids, Probing
<1>2. /\ clients \in [Clients -> [gen : 0 .. MaxStops, transition : -1 .. MaxToken, stop : -1 .. MaxToken]]
      /\ sessions \subseteq Ids /\ deferred \subseteq Ids /\ superseded \subseteq Ids /\ pending \in 0..MaxCreates
  BY DEF IInv, TypeOK
<1>3. /\ sessions' \subseteq sessions /\ deferred' = deferred \cup (sessions \ sessions')
      /\ drain' \in BOOLEAN /\ (deferred' # {} => drain')
  BY DEF Stop, Keep, Fresh, Leave
<1>4. /\ (bumps => clients[c].gen < MaxStops)
      /\ superseded' = superseded \cup
           (IF ~bumps THEN {} ELSE UnderWay(c) \cup (IF id = None THEN Owned(c) ELSE {}))
      /\ clients' = [clients EXCEPT ![c] =
           [gen |-> IF bumps THEN clients[c].gen + 1 ELSE clients[c].gen,
            transition |-> IF t = None \/ stale THEN clients[c].transition ELSE t,
            stop |-> IF t = None \/ stale THEN clients[c].stop ELSE Later(clients[c].stop, t)]]
  BY <1>2 DEF Stop
<1>5. /\ clients' \in [Clients -> [gen : 0 .. MaxStops, transition : -1 .. MaxToken, stop : -1 .. MaxToken]]
      /\ clients'[c].stop <= clients'[c].transition
      /\ \A d \in Clients : d # c => clients'[d] = clients[d]
      /\ bumps => clients'[c].gen > clients[c].gen
      /\ ~bumps => /\ clients'[c].gen = clients[c].gen /\ clients'[c].stop = clients[c].stop
                   /\ clients'[c].transition = clients[c].transition
  <2>1. clients[c].gen \in 0..MaxStops /\ newest \in -1..MaxToken /\ clients[c].stop \in -1..MaxToken
        /\ clients[c].stop <= newest
    BY <1>2 DEF IInv, StopsFollow
  <2>2. CASE t = None \/ stale
    BY <1>2, <1>4, <2>1, <2>2 DEF SessionsAssumption
  <2>3. CASE t # None /\ ~stale
    <3>1. t \in 0..MaxToken /\ newest <= t BY <2>1, <2>3 DEF Token, SessionsAssumption
    <3>2. Later(clients[c].stop, t) = t BY <2>1, <3>1 DEF Later, SessionsAssumption
    <3>3. QED BY <1>2, <1>4, <2>1, <2>3, <3>1, <3>2 DEF SessionsAssumption
  <2>4. QED BY <2>2, <2>3
<1>6. /\ superseded \subseteq superseded' /\ superseded' \subseteq Ids
      /\ ~bumps => superseded' = superseded
      /\ bumps => UnderWay(c) \subseteq superseded'
      /\ superseded' \subseteq superseded \cup UnderWay(c) \cup Owned(c)
      /\ sessions' \cap superseded' = {}
  <2>1. UnderWay(c) \subseteq Probing /\ Owned(c) \subseteq sessions /\ Probing \subseteq Ids
    BY DEF UnderWay, Owned, Probing
  <2>2. sessions \cap Probing = {} /\ sessions \cap superseded = {}
    BY DEF IInv, KeptAreStarted, Probing, StopIsFinal
  <2>3. id = None /\ ~stale => sessions' \cap Owned(c) = {} BY DEF Stop, Keep
  <2>4. QED BY <1>2, <1>3, <1>4, <2>1, <2>2, <2>3
<1>7. sessions' \cup deferred' = sessions \cup deferred BY <1>3
<1> HIDE DEF bumps, stale, newest
<1>8. TypeOK'
  BY <1>1, <1>2, <1>3, <1>5, <1>6 DEF IInv, TypeOK
<1>9. LimitHolds'
  <2>1. Cardinality(sessions') <= Cardinality(sessions) /\ Cardinality(sessions') \in Nat
    BY <1>3, HlsFacts, HlsCount
  <2>2. Cardinality(sessions) + pending <= MaxSessions /\ pending = Cardinality(Probing)
    BY DEF IInv, LimitHolds
  <2>3. QED BY <1>1, <2>1, <2>2, HlsFacts DEF LimitHolds, SessionsAssumption
<1>10. NothingLeaks' BY <1>1, <1>3, <1>7 DEF IInv, NothingLeaks
<1>11. StopIsFinal' BY <1>1, <1>6 DEF IInv, StopIsFinal
<1>12. RequestsKnow'
  <2> SUFFICES ASSUME NEW i \in Probing
               PROVE  /\ creates[i].token \in Token
                      /\ creates[i].gen <= clients'[creates[i].client].gen
                      /\ i \in superseded' <=> Cancelled(creates[i])'
    BY <1>1 DEF RequestsKnow
  <2>1. /\ creates[i].token \in Token /\ creates[i].gen <= clients[creates[i].client].gen
        /\ i \in superseded <=> Cancelled(creates[i])
        /\ creates[i].client \in Clients /\ i \notin sessions /\ creates[i].gen \in 0..MaxStops
    BY <1>1 DEF IInv, RequestsKnow, Requested, Create, KeptAreStarted, Probing
  <2>2. CASE creates[i].client # c
    BY <1>1, <1>5, <1>6, <2>1, <2>2 DEF UnderWay, Owned, Cancelled
  <2>3. CASE creates[i].client = c /\ bumps
    <3>1. i \in superseded' BY <1>6, <2>3 DEF UnderWay
    <3>2. clients'[c].gen # creates[i].gen
      BY <1>2, <1>5, <2>1, <2>3 DEF SessionsAssumption
    <3>3. creates[i].gen <= clients'[c].gen
      BY <1>2, <1>5, <2>1, <2>3 DEF SessionsAssumption
    <3>4. QED BY <1>1, <2>1, <2>3, <3>1, <3>2, <3>3 DEF Cancelled
  <2>4. CASE creates[i].client = c /\ ~bumps
    BY <1>1, <1>5, <1>6, <2>1, <2>4 DEF Cancelled
  <2>5. QED BY <2>2, <2>3, <2>4
<1>13. StopsFollow' BY <1>5 DEF IInv, StopsFollow
<1>14. KeptAreStarted' BY <1>1, <1>7 DEF IInv, KeptAreStarted
<1>15. QED BY <1>8, <1>9, <1>10, <1>11, <1>12, <1>13, <1>14 DEF IInv

(* A client asks for a session: a slot is reserved, or there is none.       *)
LEMMA HlsReserve ==
  ASSUME SessionsAssumption, IInv, NEW c \in Clients, NEW t \in Token, Reserve(c, t)
  PROVE  IInv'
<1> DEFINE newest == clients[c].transition
           n == Len(creates) + 1
           request == [client |-> c, token |-> t, gen |-> clients[c].gen, at |-> "probing",
                       seen |-> "used", ffmpeg |-> "none"]
           refused == Settled(request, "ended")
           overtaken == {i \in UnderWay(c) : creates[i].token < t} \cup (IF t < newest THEN {n} ELSE {})
<1>1. Requested /\ Len(creates) \in Nat /\ creates \in Seq(Create)
  BY HlsFacts DEF Requested, SessionsAssumption, IInv, TypeOK
<1>2. /\ clients \in [Clients -> [gen : 0 .. MaxStops, transition : -1 .. MaxToken, stop : -1 .. MaxToken]]
      /\ sessions \subseteq Ids /\ deferred \subseteq Ids /\ superseded \subseteq Ids /\ pending \in 0..MaxCreates
      /\ drain \in BOOLEAN /\ (deferred # {} => drain) /\ t \in 0..MaxToken
  BY DEF IInv, TypeOK, NothingLeaks, Token
<1>3. /\ clients[c].gen \in 0..MaxStops /\ newest \in -1..MaxToken /\ clients[c].stop \in -1..MaxToken
      /\ clients[c].stop <= newest
  BY <1>2 DEF IInv, StopsFollow
<1>4. PICK kept \in (IF Cardinality(Fresh) + pending >= MaxSessions /\ Idle(Fresh) # {}
                     THEN {Fresh \ {i} : i \in Idle(Fresh)} ELSE {Fresh}) :
        /\ Keep(kept)
        /\ IF Cardinality(kept) + pending >= MaxSessions
           THEN /\ creates' = Append(creates, refused)
                /\ superseded' = superseded \cup (overtaken \cap Ids)
                /\ UNCHANGED <<pending, drain>>
           ELSE /\ creates' = Append(creates, request)
                /\ superseded' = superseded \cup overtaken
                /\ pending' = pending + 1 /\ Leave
  BY DEF Reserve
<1>5. request \in Create /\ refused \in Create /\ refused.at = "ended" /\ refused.ffmpeg = "none"
     /\ refused.client = c
  <2>1. request \in Create BY <1>2, <1>3 DEF Create, Token
  <2>2. refused.client = c BY DEF Settled
  <2>3. QED BY <2>1, <2>2, HlsSettled
<1>6. PICK r \in {request, refused} : creates' = Append(creates, r)
  BY <1>4
<1>7. /\ Ids' = Ids \cup {n} /\ n \notin Ids /\ creates'[n] = r /\ n \in Nat
      /\ n <= MaxCreates /\ creates' \in [1..n -> Create]
      /\ \A i \in Ids : creates'[i] = creates[i]
  <2>1. Len(creates) < MaxCreates BY DEF Reserve
  <2>2. r \in Create BY <1>5, <1>6
  <2>3. creates' \in Seq(Create) /\ Len(creates') = n BY <1>1, <1>6, <2>2
  <2>4. DOMAIN creates' = 1..n /\ DOMAIN creates = 1..Len(creates) BY <1>1, <2>3
  <2>5. creates' \in [1..n -> Create] BY <2>3
  <2>6. creates'[n] = r /\ \A i \in 1..Len(creates) : creates'[i] = creates[i]
    BY <1>1, <1>6, <2>2
  <2>7. 1..n = 1..Len(creates) \cup {n} /\ n \notin 1..Len(creates) /\ n \in Nat /\ n <= MaxCreates
    BY <1>1, <2>1 DEF SessionsAssumption
  <2>8. QED BY <2>4, <2>5, <2>6, <2>7 DEF Ids
<1>8. /\ clients' \in [Clients -> [gen : 0 .. MaxStops, transition : -1 .. MaxToken, stop : -1 .. MaxToken]]
      /\ clients'[c].transition = Later(newest, t) /\ clients'[c].stop = clients[c].stop
      /\ clients'[c].gen = clients[c].gen
      /\ \A d \in Clients : d # c => clients'[d] = clients[d]
      /\ Later(newest, t) >= newest /\ Later(newest, t) >= t /\ Later(newest, t) \in {newest, t}
  <2>1. clients' = [clients EXCEPT ![c].transition = Later(newest, t)] BY DEF Reserve
  <2>2. /\ Later(newest, t) >= newest /\ Later(newest, t) >= t /\ Later(newest, t) \in {newest, t}
        /\ Later(newest, t) \in -1..MaxToken
    BY <1>2, <1>3 DEF Later, SessionsAssumption
  <2>3. QED BY <1>2, <2>1, <2>2
<1>9. /\ kept \subseteq sessions /\ sessions' = kept /\ deferred' = deferred \cup (sessions \ kept)
      /\ sessions' \cup deferred' = sessions \cup deferred
      /\ Cardinality(kept) \in Nat
      /\ Cardinality(kept) + pending >= MaxSessions => kept = sessions
  <2>1. kept \subseteq sessions BY <1>4 DEF Fresh
  <2>2. sessions' = kept /\ deferred' = deferred \cup (sessions \ kept) BY <1>4 DEF Keep
  <2>3. IsFiniteSet(sessions) /\ Cardinality(sessions) \in Nat BY HlsFacts
  <2>4. IsFiniteSet(kept) /\ Cardinality(kept) <= Cardinality(sessions) BY <2>1, <2>3, HlsCount
  <2>5. Cardinality(kept) \in Nat BY <2>4, HlsCount
  <2>6. Cardinality(kept) = Cardinality(sessions) => kept = sessions BY <2>1, <2>3, HlsCount
  <2>7. Cardinality(sessions) + pending <= MaxSessions BY DEF IInv, LimitHolds
  <2>8. QED BY <1>2, <2>1, <2>2, <2>3, <2>4, <2>5, <2>6, <2>7 DEF SessionsAssumption
<1>10. overtaken \subseteq Probing \cup {n} /\ Probing \subseteq Ids BY DEF UnderWay, Probing
<1>11. sessions \cap Probing = {} /\ sessions \cap superseded = {} /\ n \notin sessions \cup deferred \cup superseded
  BY <1>2, <1>7 DEF IInv, KeptAreStarted, Probing, StopIsFinal
<1>12. \A i \in Probing :
         /\ creates[i].token \in Token /\ creates[i].gen <= clients[creates[i].client].gen
         /\ i \in superseded <=> Cancelled(creates[i])
         /\ creates[i].client \in Clients
  BY <1>1 DEF IInv, RequestsKnow, Requested, Create, Probing
<1>13. \A i \in Probing :
         /\ creates'[i] = creates[i]
         /\ creates[i].gen <= clients'[creates[i].client].gen
         /\ Cancelled(creates[i])' <=> i \in superseded \/ (creates[i].client = c /\ creates[i].token < t)
  <2> TAKE i \in Probing
  <2>1. creates'[i] = creates[i] BY <1>7, <1>10
  <2>2. CASE creates[i].client # c BY <1>8, <1>12, <2>1, <2>2 DEF Cancelled
  <2>3. CASE creates[i].client = c
    BY <1>2, <1>3, <1>8, <1>12, <2>1, <2>3 DEF Cancelled, Token, SessionsAssumption
  <2>4. QED BY <2>2, <2>3
<1>14. /\ request.client = c /\ request.ffmpeg = "none" /\ request.at = "probing"
       /\ request.token = t /\ request.gen = clients[c].gen
       /\ n \in overtaken <=> t < newest
       /\ \A i \in Probing : i \in overtaken <=> creates[i].client = c /\ creates[i].token < t
  BY <1>7, <1>10 DEF UnderWay
<1> HIDE DEF newest, request, refused, overtaken
<1>16. NothingLeaks'
  <2>1. deferred' # {} => drain'
    BY <1>2, <1>4, <1>9 DEF Leave
  <2>2. r.ffmpeg = "none" BY <1>5, <1>6, <1>14
  <2>3. QED BY <1>7, <1>9, <2>1, <2>2 DEF IInv, NothingLeaks
<1>17. StopIsFinal'
  <2>1. superseded' \subseteq superseded \cup overtaken /\ superseded \subseteq superseded' BY <1>4
  <2>2. r.at # "stopped" BY <1>5, <1>6, <1>14
  <2>3. QED BY <1>7, <1>9, <1>10, <1>11, <2>1, <2>2 DEF IInv, StopIsFinal
<1>18. StopsFollow'
  <2>1. clients'[c].stop <= clients'[c].transition
    BY <1>2, <1>3, <1>8 DEF SessionsAssumption
  <2>2. QED BY <1>8, <2>1 DEF IInv, StopsFollow
<1>19. KeptAreStarted' BY <1>2, <1>7, <1>9 DEF IInv, KeptAreStarted
<1>20. ASSUME Cardinality(kept) + pending >= MaxSessions
       PROVE  LimitHolds' /\ RequestsKnow' /\ pending' \in 0..MaxCreates
  <2>1. /\ creates'[n] = refused /\ superseded' = superseded \cup (overtaken \cap Ids)
        /\ pending' = pending /\ sessions' = sessions
    BY <1>1, <1>4, <1>5, <1>7, <1>9, <1>20
  <2>2. Probing' = Probing BY <1>5, <1>7, <2>1 DEF Probing
  <2>3. LimitHolds' BY <2>1, <2>2 DEF IInv, LimitHolds
  <2>4. RequestsKnow'
    BY <1>10, <1>12, <1>13, <1>14, <2>1, <2>2 DEF RequestsKnow
  <2>5. QED BY <1>2, <2>1, <2>3, <2>4
<1>21. ASSUME ~(Cardinality(kept) + pending >= MaxSessions)
       PROVE  LimitHolds' /\ RequestsKnow' /\ pending' \in 0..MaxCreates
  <2>1. /\ creates'[n] = request /\ superseded' = superseded \cup overtaken
        /\ pending' = pending + 1 /\ sessions' = kept
    BY <1>1, <1>4, <1>5, <1>7, <1>9, <1>21
  <2>2. Probing' = Probing \cup {n} /\ n \notin Probing
    BY <1>7, <1>10, <1>14, <2>1 DEF Probing
  <2>3. pending' = Cardinality(Probing')
    <3>1. IsFiniteSet(Probing) /\ pending = Cardinality(Probing) BY HlsFacts
    <3>2. QED BY <2>1, <2>2, <3>1, HlsCount
  <2>4. LimitHolds'
    BY <1>2, <1>9, <1>21, <2>1, <2>3 DEF LimitHolds, SessionsAssumption
  <2>5. pending' \in 0..MaxCreates
    <3>1. Probing' \subseteq 1..n BY <1>7 DEF Probing, Ids
    <3>2. IsFiniteSet(1..n) /\ Cardinality(1..n) = n BY <1>7, HlsFinite
    <3>3. Cardinality(Probing') <= n BY <3>1, <3>2, HlsCount
    <3>4. QED BY <1>2, <1>7, <2>1, <2>3, <3>3 DEF SessionsAssumption
  <2>6. RequestsKnow'
    <3> SUFFICES ASSUME NEW i \in Probing'
                 PROVE  /\ creates'[i].token \in Token
                        /\ creates'[i].gen <= clients'[creates'[i].client].gen
                        /\ i \in superseded' <=> Cancelled(creates[i])'
      BY DEF RequestsKnow
    <3>1. CASE i \in Probing
      BY <1>10, <1>12, <1>13, <1>14, <1>7, <2>1, <2>2, <3>1
    <3>2. CASE i = n
      <4>1. /\ creates'[i].client = c /\ creates'[i].token = t /\ creates'[i].gen = clients[c].gen
        BY <1>14, <2>1, <3>2
      <4>2. t < newest <=> (t < Later(newest, t) \/ t < clients[c].stop)
        BY <1>2, <1>3, <1>8 DEF SessionsAssumption
      <4>3. Cancelled(creates[i])' <=> t < newest
        BY <1>8, <4>1, <4>2 DEF Cancelled
      <4>4. i \in superseded' <=> t < newest BY <1>11, <1>14, <2>1, <3>2
      <4>5. QED BY <1>2, <1>3, <1>8, <4>1, <4>3, <4>4 DEF SessionsAssumption, Token
    <3>3. QED BY <2>2, <3>1, <3>2
  <2>7. QED BY <2>4, <2>5, <2>6
<1>22. LimitHolds' /\ RequestsKnow' /\ pending' \in 0..MaxCreates BY <1>20, <1>21
<1>23. TypeOK'
  <2>1. drain' \in BOOLEAN BY <1>2, <1>4 DEF Leave
  <2>2. sessions' \subseteq Ids' /\ deferred' \subseteq Ids' /\ superseded' \subseteq Ids'
    BY <1>2, <1>4, <1>7, <1>9, <1>10
  <2>3. QED BY <1>7, <1>8, <1>22, <2>1, <2>2, HlsTyped
<1>24. QED BY <1>16, <1>17, <1>18, <1>19, <1>22, <1>23 DEF IInv

-----------------------------------------------------------------------------
(* Every action keeps the invariant.                                         *)
LEMMA NextStep == SessionsAssumption /\ IInv /\ [Next]_vars => IInv'
<1> SUFFICES ASSUME SessionsAssumption, IInv, [Next]_vars PROVE IInv'
  OBVIOUS
<1>1. CASE Next
  BY <1>1, HlsReserve, HlsStop, HlsStartFails, HlsRegister, HlsAnswer, HlsAnswerFails,
     HlsDiscard, HlsUse, HlsLook, HlsDrain
  DEF Next, Request, Creation
<1>2. CASE UNCHANGED vars
  <2>1. /\ creates' = creates /\ sessions' = sessions /\ pending' = pending /\ deferred' = deferred
        /\ drain' = drain /\ clients' = clients /\ superseded' = superseded
    BY <1>2 DEF vars
  <2>2. Ids' = Ids /\ Probing' = Probing BY <2>1 DEF Ids, Probing
  <2>3. QED BY <2>1, <2>2
    DEF IInv, TypeOK, LimitHolds, NothingLeaks, StopIsFinal, RequestsKnow, Cancelled, StopsFollow,
        KeptAreStarted
<1>3. QED BY <1>1, <1>2
=============================================================================
