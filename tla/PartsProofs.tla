---------------------------- MODULE PartsProofs ----------------------------
(***************************************************************************)
(* What is proved of the parts that Parts composes, for all constants that  *)
(* its assumption allows.                                                   *)
(*                                                                         *)
(* A part has an inductive invariant, IInv; that its steps keep it is shown *)
(* in PageProofs or in the part's own module of proofs (PhotoScanProofs,    *)
(* PhotoThumbsProofs, HlsSessionsProofs, CacheFlushProofs).  It is carried  *)
(* over to the behaviours of Parts, in which a step of any other part       *)
(* leaves the implication part = "..." => ... as it is.  Where IInv says    *)
(* less than the types, what is missing is shown here.                      *)
(***************************************************************************)
EXTENDS Parts, PageProofs, WellFoundedInduction

(* A behaviour stays with its part, and a step is one of that part or       *)
(* leaves its variables as they are.                                        *)
LEMMA StepOfPart ==
  ASSUME [Next]_vars
  PROVE  /\ part' = part
         /\ part = "playlists" => [Playlists!Next]_(Playlists!vars)
         /\ part = "queue" => [Queue!Next]_(Queue!vars)
         /\ part = "playback" => [Playback!Next]_(Playback!vars)
         /\ part = "playing" => [Playing!Next]_(Playing!vars)
         /\ part = "library" => [Library!Next]_(Library!vars)
         /\ part = "search" => [Search!Next]_(Search!vars)
         /\ part = "video" => [Video!Next]_(Video!vars)
         /\ part = "subtitles" => [Subtitles!Next]_(Subtitles!vars)
         /\ part = "waveform" => [Waveform!Next]_(Waveform!vars)
         /\ part = "scan" => [Scan!Next]_(Scan!vars)
         /\ part = "thumbs" => [Thumbs!Next]_(Thumbs!vars)
         /\ part = "browse" => [Browse!Next]_(Browse!vars)
         /\ part = "hls" => [Hls!Next]_(Hls!vars)
         /\ part = "cache" => [Cache!Next]_(Cache!vars)
<1>1. CASE Next
  BY <1>1 DEF Next, PlaylistsStep, QueueStep, PlaybackStep, PlayingStep, LibraryStep,
     SearchStep, VideoStep, SubtitlesStep, WaveformStep, ScanStep, ThumbsStep, BrowseStep,
     HlsStep, CacheStep
<1>2. CASE UNCHANGED vars
  BY <1>2 DEF vars, after4, Playlists!vars, Queue!vars, Playback!vars, Playing!vars,
     Library!vars, Search!vars, Video!vars, Subtitles!vars, Waveform!vars, Scan!vars,
     Thumbs!vars, Browse!vars, Hls!vars, Cache!vars
<1>3. QED BY <1>1, <1>2

-----------------------------------------------------------------------------
(* The inductive invariants of the parts, carried over.                     *)
PlaylistsInv == part = "playlists" => Playlists!IInv
QueueInv == part = "queue" => Queue!IInv
PlaybackInv == part = "playback" => Playback!IInv
PlayingInv == part = "playing" => Playing!IInv
LibraryInv == part = "library" => Library!IInv
SearchInv == part = "search" => Search!IInv
VideoInv == part = "video" => Video!IInv
SubtitlesInv == part = "subtitles" => Subtitles!IInv
WaveformInv == part = "waveform" => Waveform!IInv
ScanInv == part = "scan" => Scan!IInv
ThumbsInv == part = "thumbs" => Thumbs!IInv
BrowseInv == part = "browse" => Browse!IInv
HlsInv == part = "hls" => Hls!IInv
CacheInv == part = "cache" => Cache!IInv
PartsInv ==
  /\ PlaylistsInv /\ QueueInv /\ PlaybackInv /\ PlayingInv /\ LibraryInv /\ SearchInv
  /\ VideoInv /\ SubtitlesInv /\ WaveformInv /\ ScanInv /\ ThumbsInv
  /\ BrowseInv /\ HlsInv /\ CacheInv

(* They hold at the start, a step keeps them, and so they hold always.      *)
LEMMA PartsStart == Init => PartsInv
<1> SUFFICES ASSUME Init PROVE PartsInv OBVIOUS
<1>1. PlaylistsInv BY PlaylistsInit, PartsAssumption DEF PartsAssumption, Init, PlaylistsInv
<1>2. QueueInv BY QueueInit, PartsAssumption DEF PartsAssumption, Init, QueueInv
<1>3. PlaybackInv BY PlaybackInit, PartsAssumption DEF PartsAssumption, Init, PlaybackInv
<1>4. PlayingInv BY PlayingInit, PartsAssumption DEF PartsAssumption, Init, PlayingInv
<1>5. LibraryInv BY LibraryInit, PartsAssumption DEF PartsAssumption, Init, LibraryInv
<1>6. SearchInv BY SearchInit, PartsAssumption DEF PartsAssumption, Init, SearchInv
<1>7. VideoInv BY VideoInit, PartsAssumption DEF PartsAssumption, Init, VideoInv
<1>8. SubtitlesInv BY SubtitlesInit, PartsAssumption DEF PartsAssumption, Init, SubtitlesInv
<1>9. WaveformInv BY WaveformInit, PartsAssumption DEF PartsAssumption, Init, WaveformInv
<1>10. ScanInv BY Scan!InitIInv, PartsAssumption DEF PartsAssumption, Init, ScanInv
<1>11. ThumbsInv BY Thumbs!InitIInv, PartsAssumption DEF PartsAssumption, Init, ThumbsInv
<1>12. BrowseInv BY BrowseInit, PartsAssumption DEF PartsAssumption, Init, BrowseInv
<1>13. HlsInv BY Hls!InitIInv, PartsAssumption DEF PartsAssumption, Init, HlsInv
<1>14. CacheInv BY Cache!InitIInv, PartsAssumption DEF PartsAssumption, CacheAssumption, Init, CacheInv
<1>15. QED
  BY <1>1, <1>2, <1>3, <1>4, <1>5, <1>6, <1>7, <1>8, <1>9, <1>10, <1>11, <1>12, <1>13, <1>14 DEF PartsInv

LEMMA PartsStep == PartsInv /\ [Next]_vars => PartsInv'
<1>1. PlaylistsInv /\ [Next]_vars => PlaylistsInv'
  BY StepOfPart, PlaylistsNext, PartsAssumption DEF PartsAssumption, PlaylistsInv
<1>2. QueueInv /\ [Next]_vars => QueueInv'
  BY StepOfPart, QueueNext, PartsAssumption DEF PartsAssumption, QueueInv
<1>3. PlaybackInv /\ [Next]_vars => PlaybackInv'
  BY StepOfPart, PlaybackNext, PartsAssumption DEF PartsAssumption, PlaybackInv
<1>4. PlayingInv /\ [Next]_vars => PlayingInv'
  BY StepOfPart, PlayingNext, PartsAssumption DEF PartsAssumption, PlayingInv
<1>5. LibraryInv /\ [Next]_vars => LibraryInv'
  BY StepOfPart, LibraryNext, PartsAssumption DEF PartsAssumption, LibraryInv
<1>6. SearchInv /\ [Next]_vars => SearchInv'
  BY StepOfPart, SearchNext, PartsAssumption DEF PartsAssumption, SearchInv
<1>7. VideoInv /\ [Next]_vars => VideoInv'
  BY StepOfPart, VideoNext, PartsAssumption DEF PartsAssumption, VideoInv
<1>8. SubtitlesInv /\ [Next]_vars => SubtitlesInv'
  BY StepOfPart, SubtitlesNext, PartsAssumption DEF PartsAssumption, SubtitlesInv
<1>9. WaveformInv /\ [Next]_vars => WaveformInv'
  BY StepOfPart, WaveformNext, PartsAssumption DEF PartsAssumption, WaveformInv
<1>10. ScanInv /\ [Next]_vars => ScanInv'
  BY StepOfPart, Scan!NextStep, PartsAssumption DEF PartsAssumption, ScanInv
<1>11. ThumbsInv /\ [Next]_vars => ThumbsInv'
  BY StepOfPart, Thumbs!NextStep, PartsAssumption DEF PartsAssumption, ThumbsInv
<1>12. BrowseInv /\ [Next]_vars => BrowseInv'
  BY StepOfPart, BrowseNext, PartsAssumption DEF PartsAssumption, BrowseInv
<1>13. HlsInv /\ [Next]_vars => HlsInv'
  BY StepOfPart, Hls!NextStep, PartsAssumption DEF PartsAssumption, HlsInv
<1>14. CacheInv /\ [Next]_vars => CacheInv'
  BY StepOfPart, Cache!NextStep, PartsAssumption DEF PartsAssumption, CacheAssumption, CacheInv
<1>15. QED
  BY <1>1, <1>2, <1>3, <1>4, <1>5, <1>6, <1>7, <1>8, <1>9, <1>10, <1>11, <1>12, <1>13, <1>14 DEF PartsInv

LEMMA PartsKept == Spec => []PartsInv
  BY PartsStart, PartsStep, PTL DEF Spec

-----------------------------------------------------------------------------
(* Whatever dialogs, deletions, imports and restored records do: a playlist *)
(* without the dirty mark is what is saved under its name, in memory, and   *)
(* in localStorage unless a write failed or another tab wrote there         *)
(* (playlist.js).                                                           *)
THEOREM SavedStaysKept == Spec => []SavedIsKept
<1>1. PartsInv => SavedIsKept
  BY DEF PartsInv, PlaylistsInv, SavedIsKept, Playlists!IInv, Playlists!Typed, Playlists!DiskFollows,
     Playlists!SignatureIsSaved, Playlists!CleanIsSigned, Playlists!SavedIsKept
<1>2. QED BY <1>1, PartsKept, PTL

(* A library that is not complete is asked for again as long as the pane    *)
(* that shows it is visible, a disabled Load button has something under     *)
(* way, and a visible pane shows the last answer (library.js).              *)
THEOREM LibraryStaysUpToDate == Spec => []LibraryKeepsUp
<1>1. PartsInv => LibraryKeepsUp
  BY DEF PartsInv, LibraryInv, LibraryKeepsUp, Library!IInv, Library!KeepsPolling, Library!PaintedUnlessDirty,
     Library!ScreenIsCurrent
<1>2. QED BY <1>1, PartsKept, PTL

(* However many searches were started, stopped, overtaken and aborted, and  *)
(* whatever answers still come for them: what the pane shows are results of *)
(* its search, and all of them once it says so (file-search.js).            *)
THEOREM ResultsBelongToSearch == Spec => []ResultsAreSearchs
<1>1. PartsInv => ResultsAreSearchs
  BY PartsAssumption
  DEF PartsInv, PartsAssumption, SearchInv, ResultsAreSearchs, Search!IInv, Search!ResultsLoaded,
      Search!ResultsAreSearchs, Search!Shown, Search!NoneIsNothing
<1>2. QED BY <1>1, PartsKept, PTL

(* The shuffle walk goes over the whole playlist and stands at the song     *)
(* that is played, however it was edited, and a retry that waits is of that *)
(* song (playback.js, shuffle-helpers.js).                                  *)
THEOREM WalkStaysAtSong == Spec => []WalkIsAtSong
<1>1. PartsInv => WalkIsAtSong
  BY DEF PartsInv, PlaybackInv, WalkIsAtSong, Playback!IInv
<1>2. QED BY <1>1, PartsKept, PTL

(* The card in the system's media controls shows what its owner published   *)
(* last, whatever covers and titles load late (media-session.js).           *)
THEOREM CardStaysOwners == Spec => []CardIsOwners
<1>1. PartsInv => CardIsOwners
  BY DEF PartsInv, PlayingInv, CardIsOwners, Playing!IInv
<1>2. QED BY <1>1, PartsKept, PTL

(* Address, rows and pollers are one folder's, whatever fetches are         *)
(* abandoned and however the history is walked (browse/main.js).            *)
THEOREM FolderStaysShown == Spec => []FolderIsShown
<1>1. PartsInv => FolderIsShown
  BY DEF PartsInv, BrowseInv, FolderIsShown, Browse!IInv
<1>2. QED BY <1>1, PartsKept, PTL

(* What is drawn and what is kept was computed from the song it is shown    *)
(* for, and a panel that says that it fetches or computes has that work     *)
(* under way (waveform/controller.js).                                      *)
THEOREM SummaryStaysSongs == Spec => []SummaryIsSongs
<1>1. PartsInv => SummaryIsSongs
  BY WaveformMeans DEF PartsInv, WaveformInv, SummaryIsSongs
<1>2. QED BY <1>1, PartsKept, PTL

(* A scan that ended has shown and saved every item of its folder, unless a *)
(* write failed, and no record is left behind, whatever generations are     *)
(* cancelled while their writes are under way (photo-map.js); every         *)
(* thumbnail in demand is answered or will be, the most urgent first, and   *)
(* what is loaded is shown (photo-map/thumbnails.js).                       *)
THEOREM PhotoMapStaysServed == Spec => []PhotoMapIsServed
<1>1. PartsInv => PhotoMapIsServed
  BY DEF PartsInv, ScanInv, ThumbsInv, PhotoMapIsServed, Scan!IInv, Thumbs!IInv
<1>2. QED BY <1>1, PartsKept, PTL

(* The session that is attached plays the active video or is being stopped, *)
(* and while seeks are only queued, the newest chain of requests is a       *)
(* restart that will end that (video/compatibility.js, playback.js).        *)
THEOREM SessionStaysServing == Spec => []SessionServesItem
<1>1. PartsInv => SessionServesItem
  BY DEF PartsInv, VideoInv, SessionServesItem, Video!IInv, Video!SessionIsActives,
     Video!SeekIsServed, Video!Seeking
<1>2. QED BY <1>1, PartsKept, PTL

(* Playback that left the mounted window and does not ask for another has a *)
(* refresh under way or was told that it failed (video/subtitles.js).       *)
THEOREM RefreshStaysUnderWay == Spec => []RefreshIsUnderWay
<1>1. PartsInv => RefreshIsUnderWay
  BY DEF PartsInv, SubtitlesInv, RefreshIsUnderWay, Subtitles!IInv, Subtitles!CrossingIsServed,
     Subtitles!RefreshIsUnderWay, Subtitles!Noticed, Subtitles!SameMount, Subtitles!Refreshes
<1>2. QED BY <1>1, PartsKept, PTL

(* The current row is the song that is heard, a drop moves the dragged      *)
(* block and nothing else, and a visible pane shows the queue and its       *)
(* selection (media-library/playlist.js).                                   *)
THEOREM QueueStaysHeardAndShown == Spec => []QueueIsHeardAndShown
<1>1. PartsInv => QueueIsHeardAndShown
  BY QueueMeans, PartsAssumption DEF PartsInv, PartsAssumption, QueueInv, QueueIsHeardAndShown
<1>2. QED BY <1>1, PartsKept, PTL

(* However many creations, stops and transitions of its clients overlap:    *)
(* the server keeps no more sessions than its limit, leaves no ffmpeg       *)
(* behind, and keeps no session that its client has stopped (video.py).     *)
THEOREM SessionsStayAccounted == Spec => []SessionsAreAccounted
<1>1. PartsInv => SessionsAreAccounted
  BY DEF PartsInv, HlsInv, SessionsAreAccounted, Hls!IInv
<1>2. QED BY <1>1, PartsKept, PTL

-----------------------------------------------------------------------------
(* Type correctness.                                                        *)

(* Every non-empty set of natural numbers has a least one.                  *)
LEMMA LeastNumber ==
  ASSUME NEW T \in SUBSET Nat, T # {}
  PROVE  \E n \in T : \A m \in T : n <= m
<1> DEFINE U == {0..n : n \in T}
<1>1. U \subseteq FiniteSubsetsOf(Nat)
  <2> SUFFICES ASSUME NEW n \in T PROVE IsFiniteSet(0..n) /\ 0..n \subseteq Nat
    BY DEF FiniteSubsetsOf
  <2>1. QED
    BY FS_Interval
<1>2. U # {}
  OBVIOUS
<1> DEFINE R == StrictSubsetOrdering(Nat)
<1>3. IsWellFoundedOn(R, FiniteSubsetsOf(Nat))
  BY FS_StrictSubsetOrderingWellFounded
<1> HIDE DEF R
<1>4. PICK u \in U : \A v \in U : <<v, u>> \notin R
  BY <1>1, <1>2, <1>3, WFMin
<1>5. PICK n \in T : u = 0..n
  OBVIOUS
<1>6. ASSUME NEW m \in T, m < n PROVE FALSE
  <2>1. 0..m \subseteq 0..n /\ n \notin 0..m /\ n \in 0..n
    BY <1>6
  <2>2. <<0..m, 0..n>> \in R
    BY <2>1 DEF R, StrictSubsetOrdering
  <2>3. QED
    BY <1>4, <1>5, <2>2
<1>7. QED
  BY <1>6

(* A set of numbers with an upper bound has a greatest one.                 *)
LEMMA HasGreatest ==
  ASSUME NEW n \in Nat, NEW S, S \subseteq 0 .. n, S # {}
  PROVE  \E x \in S : \A y \in S : y <= x
<1> DEFINE T == {n - x : x \in S}
<1>1. \A x \in S : x \in Int /\ n - x \in Nat OBVIOUS
<1>2. T \in SUBSET Nat /\ T # {} BY <1>1
<1>3. \A y \in S : n - y \in T OBVIOUS
<1>4. PICK m \in T : \A k \in T : m <= k
  <2> HIDE DEF T
  <2> QED BY <1>2, LeastNumber
<1>5. PICK x \in S : m = n - x BY <1>4
<1> HIDE DEF T
<1>6. \A y \in S : m <= n - y BY <1>3, <1>4
<1>7. QED BY <1>1, <1>5, <1>6

-----------------------------------------------------------------------------
(* The saved playlists: an import under way has a file left.                *)
PlaylistsTyped == Playlists!TypeOK /\ (v8 = None \/ v8 # <<>>)

(* A playlist of names and contents is shown as saved.                      *)
LEMMA AdoptTyped ==
  ASSUME NEW n \in Names \cup {None}, NEW list \in [name : Names, songs : Contents],
         Playlists!Adopt(n, list)
  PROVE  /\ v1' \in [name : Names, songs : Contents]
         /\ v2' \in [name : Names \cup {None}, sig : [name : Names, songs : Contents] \cup {None}]
         /\ v3' \in BOOLEAN
         /\ v9' \subseteq Names
BY DEF Playlists!Adopt

(* Saving and renaming, with the dialogs they may open instead.             *)
LEMMA SaveTyped ==
  ASSUME Playlists!NamesAndContents, PlaylistsTyped, NEW n \in Names, NEW skipAsk \in BOOLEAN,
         Playlists!Save(n, skipAsk) \/ Playlists!Rename(n, skipAsk), v8' = v8
  PROVE  PlaylistsTyped'
<1>1. ASSUME NEW old, Playlists!StoreActive(n, old), v7' = Playlists!NoAction,
             v6' = v6 \ {"rename", "save", "confirm"}
      PROVE  PlaylistsTyped'
  <2>1. Playlists!List(n, v1.songs) \in [name : Names, songs : Contents]
    BY DEF PlaylistsTyped, Playlists!TypeOK, Playlists!List
  <2>2. v4' \in Playlists!Stores /\ v5' \in Playlists!Stores /\ v10' \in BOOLEAN
    <3>1. v1.songs \in Contents /\ v4 \in Playlists!Stores /\ v5 \in Playlists!Stores
      BY DEF PlaylistsTyped, Playlists!TypeOK
    <3>2. v4' \in Playlists!Stores
      BY <1>1, <3>1 DEF Playlists!StoreActive, Playlists!Upsert, Playlists!Stores
    <3>3. QED BY <1>1, <3>1, <3>2 DEF Playlists!StoreActive, Playlists!Persist
  <2>3. Playlists!Adopt(n, Playlists!List(n, v1.songs)) BY <1>1 DEF Playlists!StoreActive
  <2>4. QED BY <1>1, <2>1, <2>2, <2>3, AdoptTyped DEF PlaylistsTyped, Playlists!TypeOK
<1>2. ASSUME NEW kind \in Playlists!ActionKinds, Playlists!Ask(kind, n) PROVE PlaylistsTyped'
  BY <1>2
  DEF Playlists!Ask, Playlists!lists, Playlists!storage, PlaylistsTyped, Playlists!TypeOK,
      Playlists!Dialogs
<1>3. CASE UNCHANGED <<Playlists!lists, Playlists!storage, v7>> /\ Playlists!Open("save")
  BY <1>3
  DEF Playlists!lists, Playlists!storage, PlaylistsTyped, Playlists!TypeOK, Playlists!Open,
      Playlists!Dialogs
<1>4. QED BY <1>1, <1>2, <1>3 DEF Playlists!Save, Playlists!Rename, Playlists!ActionKinds

(* Loading a saved playlist, and starting an empty one.                     *)
LEMMA LoadTyped ==
  ASSUME Playlists!NamesAndContents, PlaylistsTyped, NEW n \in Names,
         Playlists!Load(n) \/ Playlists!LoadNew, v8' = v8
  PROVE  PlaylistsTyped'
<1>1. CASE Playlists!Load(n) /\ v4[n] # None
  <2>1. Playlists!List(n, v4[n]) \in [name : Names, songs : Contents]
    BY <1>1 DEF PlaylistsTyped, Playlists!TypeOK, Playlists!List, Playlists!Stores
  <2>2. QED BY <1>1, <2>1, AdoptTyped
    DEF Playlists!Load, Playlists!storage, PlaylistsTyped, Playlists!TypeOK
<1>2. CASE Playlists!Load(n) /\ v4[n] = None
  BY <1>2
  DEF Playlists!Load, Playlists!lists, Playlists!storage, PlaylistsTyped, Playlists!TypeOK
<1>3. CASE Playlists!LoadNew
  <2>1. Playlists!List(Default, Empty) \in [name : Names, songs : Contents]
    BY DEF Playlists!NamesAndContents, Playlists!List
  <2>2. QED BY <1>3, <2>1, AdoptTyped
    DEF Playlists!LoadNew, Playlists!storage, PlaylistsTyped, Playlists!TypeOK
<1>4. QED BY <1>1, <1>2, <1>3

(* One file of an import: the last list of a name in the file is what is    *)
(* stored, and there is a last one.                                         *)
LEMMA MergeTyped ==
  ASSUME Playlists!ImportsAreFiles, PlaylistsTyped, Playlists!ImportFile
  PROVE  PlaylistsTyped'
<1> DEFINE F == UNION {Playlists!Range(b) : b \in Imports}
           file == Head(v8)
<1>1. v8 \in Seq(F) /\ v8 # <<>> BY DEF PlaylistsTyped, Playlists!TypeOK, Playlists!ImportFile
<1>2. file \in F /\ Tail(v8) \in Seq(F) BY <1>1
<1>3. file \in Playlists!Files
  BY <1>2 DEF Playlists!ImportsAreFiles, Playlists!Range
<1>4. v8' = None \/ (v8' = Tail(v8) /\ Tail(v8) # <<>>) BY DEF Playlists!ImportFile
<1>5. /\ Playlists!Merge(file) /\ UNCHANGED <<v1, v2, v3, v6, v7>>
      /\ \/ v5' = v5 /\ (v10' = TRUE \/ v10' = (v10 \/ v4' # v4))
         \/ v5' = v4' /\ v10' = FALSE
  BY DEF Playlists!ImportFile, Playlists!Persist
<1> HIDE DEF file, F
<1>6. ASSUME NEW n \in Names, Playlists!Named(file, n) # {}
      PROVE  file.lists[Playlists!Latest(file, n)].songs \in Contents
  <2>1. Len(file.lists) \in Nat /\ DOMAIN file.lists = 1 .. Len(file.lists)
        /\ file.lists \in Seq([name : Names, songs : Contents])
    BY <1>3 DEF Playlists!Files
  <2>2. Playlists!Named(file, n) \subseteq 0 .. Len(file.lists) BY <2>1 DEF Playlists!Named
  <2>3. \E i \in Playlists!Named(file, n) : \A j \in Playlists!Named(file, n) : j <= i
    BY <1>6, <2>1, <2>2, HasGreatest
  <2>4. Playlists!Latest(file, n) \in Playlists!Named(file, n) BY <2>3 DEF Playlists!Latest
  <2>5. Playlists!Latest(file, n) \in 1 .. Len(file.lists) BY <2>1, <2>4 DEF Playlists!Named
  <2>6. \A i \in 1 .. Len(file.lists) : file.lists[i].songs \in Contents
    <3>1. \A i \in 1 .. Len(file.lists) : file.lists[i] \in [name : Names, songs : Contents]
      BY <2>1, ElementOfSeq
    <3>2. QED BY <3>1
  <2>7. QED BY <2>5, <2>6
<1>7. v4' \in Playlists!Stores
  <2>1. v4 \in Playlists!Stores BY DEF PlaylistsTyped, Playlists!TypeOK
  <2>2. QED BY <1>5, <1>6, <2>1 DEF Playlists!Merge, Playlists!Stores
<1>8. v9' \subseteq Names
  <2>1. file.lists \in Seq([name : Names, songs : Contents]) /\ DOMAIN file.lists = 1 .. Len(file.lists)
    BY <1>3 DEF Playlists!Files
  <2>2. \A i \in DOMAIN file.lists : file.lists[i].name \in Names
    <3>1. \A i \in DOMAIN file.lists : file.lists[i] \in [name : Names, songs : Contents]
      BY <2>1, ElementOfSeq
    <3>2. QED BY <3>1
  <2>4. \A l \in Playlists!Range(file.lists) : l.name \in Names BY <2>2 DEF Playlists!Range
  <2>3. QED BY <1>5, <2>4 DEF Playlists!Merge, PlaylistsTyped, Playlists!TypeOK
<1>9. v8' \in Seq(F) \cup {None} /\ (v8' = None \/ v8' # <<>>) BY <1>1, <1>2, <1>4
<1>10. v5' \in Playlists!Stores /\ v10' \in BOOLEAN
  BY <1>5, <1>7 DEF PlaylistsTyped, Playlists!TypeOK
<1>11. QED BY <1>5, <1>7, <1>8, <1>9, <1>10 DEF PlaylistsTyped, Playlists!TypeOK, F

(* Nothing is saved yet.                                                    *)
LEMMA PlaylistsTypedInit == Playlists!NamesAndContents /\ Playlists!Init => PlaylistsTyped
<1> SUFFICES ASSUME Playlists!NamesAndContents, Playlists!Init PROVE PlaylistsTyped OBVIOUS
<1>1. Playlists!List(Default, Empty) \in [name : Names, songs : Contents]
  BY DEF Playlists!NamesAndContents, Playlists!List
<1>2. QED BY <1>1
  DEF Playlists!Init, Playlists!Blank, PlaylistsTyped, Playlists!TypeOK, Playlists!Stores

(* Every step of the saved playlists.                                       *)
LEMMA PlaylistsTypedNext ==
  ASSUME Playlists!NamesAndContents, Playlists!ImportsAreFiles, PlaylistsTyped,
         [Playlists!Next]_(Playlists!vars)
  PROVE  PlaylistsTyped'
<1> USE DEF PlaylistsTyped, Playlists!TypeOK, Playlists!lists, Playlists!storage
<1>1. ASSUME NEW c \in Contents, Playlists!Edit(c) PROVE PlaylistsTyped'
  BY <1>1 DEF Playlists!Edit
<1>2. CASE Playlists!OpenDialog \/ Playlists!Cancel \/ \E d \in Playlists!Dialogs : Playlists!CloseDialog(d)
  BY <1>2 DEF Playlists!OpenDialog, Playlists!Cancel, Playlists!CloseDialog, Playlists!Open, Playlists!Dialogs
<1>3. CASE Playlists!SaveButton
  BY <1>3, SaveTyped DEF Playlists!SaveButton
<1>4. ASSUME NEW n \in Names, Playlists!NameGiven(n) PROVE PlaylistsTyped'
  BY <1>4, SaveTyped DEF Playlists!NameGiven
<1>5. ASSUME NEW n \in Names, NEW kind \in Playlists!ActionKinds, NEW ACTION load,
             Playlists!Discarding(kind, n, load), v8' = v8
      PROVE  load \/ PlaylistsTyped'
  <2>1. CASE load BY <2>1
  <2>2. CASE ~load
    <3>1. /\ v3' = TRUE /\ v7' = [kind |-> kind, name |-> n] /\ v6' = v6 \cup {"confirm"}
          /\ UNCHANGED <<v1, v2, v9, v4, v5, v10>>
      BY <1>5, <2>2 DEF Playlists!Discarding, Playlists!Open
    <3>2. QED BY <1>5, <3>1 DEF Playlists!Dialogs
  <2>3. QED BY <2>1, <2>2
<1>6. ASSUME NEW n \in Names, Playlists!LoadChosen(n) PROVE PlaylistsTyped'
  <2>1. "load" \in Playlists!ActionKinds BY DEF Playlists!ActionKinds
  <2>2. Playlists!Discarding("load", n, Playlists!Load(n)) /\ v8' = v8
    BY <1>6 DEF Playlists!LoadChosen
  <2>3. Playlists!Load(n) \/ PlaylistsTyped' BY <2>1, <2>2, <1>5
  <2>4. QED BY <2>2, <2>3, LoadTyped
<1>7. CASE Playlists!NewChosen
  <2>1. Default \in Names /\ "new" \in Playlists!ActionKinds
    BY DEF Playlists!NamesAndContents, Playlists!ActionKinds
  <2>2. Playlists!Discarding("new", Default, Playlists!LoadNew) /\ v8' = v8
    BY <1>7 DEF Playlists!NewChosen
  <2>3. Playlists!LoadNew \/ PlaylistsTyped' BY <2>1, <2>2, <1>5
  <2>4. QED BY <2>1, <2>2, <2>3, LoadTyped
<1>8. CASE Playlists!Confirm
  <2>1. v7.kind \in Playlists!ActionKinds /\ v8' = v8
    BY <1>8 DEF Playlists!Confirm, Playlists!ActionKinds
  <2>2. v7.name \in Names
    BY <2>1 DEF Playlists!NamesAndContents, Playlists!NoAction
  <2>3. QED BY <1>8, <2>1, <2>2, SaveTyped, LoadTyped DEF Playlists!Confirm
<1>9. ASSUME NEW n \in Names, Playlists!Delete(n) PROVE PlaylistsTyped'
  <2>1. v4' \in Playlists!Stores /\ v5' \in Playlists!Stores /\ v10' \in BOOLEAN
    BY <1>9 DEF Playlists!Delete, Playlists!Persist, Playlists!Stores
  <2>2. v2' \in [name : Names \cup {None}, sig : [name : Names, songs : Contents] \cup {None}]
        /\ v3' \in BOOLEAN
    <3>1. CASE v2.name = n BY <1>9, <3>1 DEF Playlists!Delete
    <3>2. CASE v2.name # n BY <1>9, <3>2 DEF Playlists!Delete
    <3>3. QED BY <3>1, <3>2
  <2>3. QED BY <1>9, <2>1, <2>2 DEF Playlists!Delete
<1>10. ASSUME NEW n \in Names, NEW song \in Contents, Playlists!RestoreRecent(n, song) PROVE PlaylistsTyped'
  <2>1. CASE v4[n] # None
    <3>1. Playlists!List(n, v4[n]) \in [name : Names, songs : Contents]
      BY <2>1 DEF Playlists!List, Playlists!Stores
    <3>2. QED BY <1>10, <2>1, <3>1, AdoptTyped DEF Playlists!RestoreRecent
  <2>2. CASE v4[n] = None
    <3>1. Playlists!List(Default, song) \in [name : Names, songs : Contents]
      BY DEF Playlists!List, Playlists!NamesAndContents
    <3>2. QED BY <1>10, <2>2, <3>1, AdoptTyped DEF Playlists!RestoreRecent
  <2>3. QED BY <2>1, <2>2
<1>11. ASSUME NEW b \in Imports, Playlists!ImportFiles(b) PROVE PlaylistsTyped'
  <2>1. b \in Seq(UNION {Playlists!Range(x) : x \in Imports}) /\ b # <<>>
    <3>1. b \in Seq(Playlists!Files) \ {<<>>} BY DEF Playlists!ImportsAreFiles
    <3>2. \A i \in 1 .. Len(b) : b[i] \in Playlists!Range(b)
      BY <3>1 DEF Playlists!Range
    <3>3. QED BY <3>1, <3>2
  <2>2. QED BY <1>11, <2>1 DEF Playlists!ImportFiles
<1>12. CASE Playlists!ImportFile BY <1>12, MergeTyped
<1>13. CASE Playlists!Reload
  <2>1. Playlists!List(Default, Empty) \in [name : Names, songs : Contents]
    BY DEF Playlists!List, Playlists!NamesAndContents
  <2>2. Playlists!Blank \in [name : Names \cup {None}, sig : [name : Names, songs : Contents] \cup {None}]
    BY <2>1 DEF Playlists!Blank
  <2>3. QED BY <1>13, <2>1, <2>2 DEF Playlists!Reload
<1>14. CASE Playlists!OtherTab BY <1>14 DEF Playlists!OtherTab
<1>15. CASE UNCHANGED Playlists!vars BY <1>15 DEF Playlists!vars
<1>16. QED
  BY <1>1, <1>2, <1>3, <1>4, <1>6, <1>7, <1>8, <1>9, <1>10, <1>11, <1>12, <1>13, <1>14, <1>15
  DEF Playlists!Next

-----------------------------------------------------------------------------
(* File search: what its inductive invariant does not say of the types. The *)
(* requests that nobody waits for any more are counted.                     *)
SearchTyped ==
  /\ v5 \in Folders \cup {None}
  /\ v11 \subseteq Search!Session /\ IsFiniteSet(v11) /\ Cardinality(v11) <= MaxStale
  /\ v13 \in Search!Scans

(* The size that file search counts with.                                   *)
LEMMA SearchCounts == \A S : Search!Cardinality(S) = Cardinality(S)
  BY DEF Search!Cardinality, Cardinality

(* With the inductive invariant these are the types: results are found by a *)
(* search, and what is read belongs to a session.                           *)
LEMMA SearchTypes == Search!IInv /\ SearchTyped => Search!TypeOK
<1> SUFFICES ASSUME Search!IInv, SearchTyped PROVE Search!TypeOK
  OBVIOUS
<1>1. v8 \subseteq Search!Rows
  <2>1. CASE v8 = {} BY <2>1
  <2>2. CASE v8 # {}
    <3>1. v5 \in Folders /\ v2 \in Queries /\ v8 \subseteq Matches[v5][v2]
      BY <2>2 DEF Search!IInv, Search!ResultsLoaded, Search!Shown
    <3>2. QED BY <3>1 DEF Search!Rows
  <2>3. QED BY <2>1, <2>2
<1>2. {v6, v10} \subseteq Search!Session \cup {None}
  BY DEF Search!IInv, Search!ListenedTo, Search!Reads
<1>3. v2 \in Queries \cup {None} /\ v1 \in Folders /\ {v3, v4, v7, v9, v12} \subseteq BOOLEAN
  BY DEF Search!IInv, Search!Typed
<1>4. QED BY <1>1, <1>2, <1>3, SearchCounts DEF Search!TypeOK, SearchTyped

(* No request is under way.                                                 *)
LEMMA SearchTypedInit == MaxStale \in Nat /\ Search!Init => SearchTyped
  BY FS_EmptySet DEF Search!Init, Search!Scans, SearchTyped

(* Every step of file search. An aborted request is counted before the abort*)
(* is let happen, and its answer takes it out again.                        *)
LEMMA SearchTypedNext ==
  ASSUME MaxStale \in Nat, Search!IInv, SearchTyped, [Search!Next]_(Search!vars)
  PROVE  SearchTyped'
<1>0. v10 = None \/ v10 \in Search!Session
  BY DEF Search!IInv, Search!ListenedTo, Search!Reads
<1> DEFINE Stopped == v11' = v11 \cup ({v10} \ {None}) /\ Cardinality(v11') <= MaxStale
<1>1. ASSUME Stopped, v5' \in Folders \cup {None}, v13' \in Search!Scans
      PROVE  SearchTyped'
  <2>1. IsFiniteSet({v10} \ {None}) BY FS_Singleton, FS_Subset
  <2>2. IsFiniteSet(v11') BY <1>1, <2>1, FS_Union DEF SearchTyped
  <2>3. QED BY <1>0, <1>1, <2>2 DEF SearchTyped
<1>2. ASSUME v11' = v11, v5' = v5, v13' \in Search!Scans PROVE SearchTyped' BY <1>2 DEF SearchTyped
<1>3. ASSUME NEW r \in v11, v11' = v11 \ {r}, v5' = v5, v13' = v13 PROVE SearchTyped'
  <2>1. IsFiniteSet(v11') /\ Cardinality(v11') = Cardinality(v11) - 1 /\ Cardinality(v11) \in Nat
    BY <1>3, FS_RemoveElement, FS_CardinalityType DEF SearchTyped
  <2>2. Cardinality(v11) <= MaxStale BY DEF SearchTyped
  <2>3. Cardinality(v11') <= MaxStale BY <2>1, <2>2
  <2>4. QED BY <1>3, <2>1, <2>3 DEF SearchTyped
<1>4. Search!IInv => v1 \in Folders BY DEF Search!IInv, Search!Typed
<1>5. v5 \in Folders \cup {None} /\ v13 \in Search!Scans BY DEF SearchTyped
<1> USE DEF Search!Abort, Search!fields, Search!snapshot
<1>6. CASE Search!Start BY SearchCounts, <1>6, <1>1, <1>2, <1>4, <1>5 DEF Search!Start, Search!Scans
<1>7. CASE Search!Stop BY SearchCounts, <1>7, <1>1, <1>5 DEF Search!Stop
<1>8. CASE Search!Reset BY SearchCounts, <1>8, <1>1, <1>5 DEF Search!Reset
<1>9. CASE Search!LeavePane BY SearchCounts, <1>9, <1>1, <1>5 DEF Search!LeavePane
<1>10. ASSUME NEW q, Search!Change(q) PROVE SearchTyped'
  BY SearchCounts, <1>10, <1>1, <1>2, <1>5 DEF Search!Change
<1>11. CASE \/ Search!EnterPane \/ Search!Poll \/ Search!ScanEnds \/ Search!Answered \/ Search!Fail
            \/ \E p \in Folders : Search!Navigate(p)
  BY <1>11, <1>2, <1>5
  DEF Search!EnterPane, Search!Poll, Search!ScanEnds, Search!Scans, Search!Answered, Search!Answer,
      Search!Fail, Search!Navigate
<1>12. ASSUME NEW r \in v11, Search!StaleAnswer(r) PROVE SearchTyped'
  BY <1>12, <1>3 DEF Search!StaleAnswer
<1>13. CASE UNCHANGED Search!vars
  <2>1. v11' = v11 /\ v5' = v5 /\ v13' = v13 BY <1>13 DEF Search!vars
  <2>2. QED BY <1>2, <1>5, <2>1
<1>14. QED BY <1>6, <1>7, <1>8, <1>9, <1>10, <1>11, <1>12, <1>13 DEF Search!Next

-----------------------------------------------------------------------------
(* The first listing is asked for.                                          *)
LEMMA BrowseTypedInit == MaxVersion \in Nat \ {0} /\ Browse!Init => Browse!TypeOK
<1> SUFFICES ASSUME MaxVersion \in Nat \ {0}, Browse!Init PROVE Browse!TypeOK OBVIOUS
<1>1. 1 \in 1 .. MaxVersion /\ 0 \in 0 .. MaxVersion OBVIOUS
<1>2. v6 \subseteq Browse!Loads BY <1>1 DEF Browse!Init, Browse!Loads
<1>3. v8 \in Seq(Folders) /\ Len(v8) = 1 BY DEF Browse!Init
<1>4. v3 \in [of : Folders \cup {None}, fetch : 0 .. MaxVersion] BY <1>1 DEF Browse!Init
<1>5. v9 \in 1 .. Len(v8) BY <1>3 DEF Browse!Init
<1>6. v1 \in Folders /\ v11 \in Folders /\ v2 = "loading" /\ v4 = "loading" /\ v5 = 1 /\ v7 = {} /\ v10 = FALSE
  BY DEF Browse!Init
<1>7. QED BY <1>1, <1>2, <1>3, <1>4, <1>5, <1>6 DEF Browse!TypeOK

(* Every step of the folder view: the types are inductive by themselves.    *)
LEMMA BrowseTypedNext ==
  ASSUME MaxVersion \in Nat, Browse!TypeOK, [Browse!Next]_(Browse!vars)
  PROVE  Browse!TypeOK'
<1> USE DEF Browse!TypeOK, Browse!table, Browse!fetching, Browse!history
<1>1. ASSUME NEW f \in Folders, NEW mode \in {"push", "replace", "none"}, NEW inPlace \in BOOLEAN,
             v5 < MaxVersion
      PROVE  /\ Browse!Load(f, v1, mode, inPlace) \in Browse!Loads
             /\ v5 + 1 \in 1 .. MaxVersion
  BY <1>1 DEF Browse!Load, Browse!Loads
<1>2. ASSUME NEW f \in Folders, Browse!Push(f) \/ Browse!Replace(f) \/ UNCHANGED <<v8, v9>>
      PROVE  v8' \in Seq(Folders) /\ v9' \in 1 .. Len(v8')
  <2>1. CASE Browse!Push(f)
    <3>1. SubSeq(v8, 1, v9) \in Seq(Folders) /\ Len(SubSeq(v8, 1, v9)) = v9 OBVIOUS
    <3>2. QED BY <2>1, <3>1 DEF Browse!Push
  <2>2. CASE Browse!Replace(f) BY <2>2 DEF Browse!Replace
  <2>3. QED BY <1>2, <2>1, <2>2
<1>3. ASSUME NEW f \in Folders, NEW mode \in {"push", "none"}, Browse!Navigate(f, mode),
             v8' \in Seq(Folders), v9' \in 1 .. Len(v8')
      PROVE  Browse!TypeOK'
  BY <1>1, <1>3 DEF Browse!Navigate
<1>4. CASE Browse!Click BY <1>3, <1>4 DEF Browse!Click
<1>5. CASE Browse!Traverse BY <1>3, <1>5 DEF Browse!Traverse
<1>6. CASE Browse!Refresh BY <1>1, <1>6 DEF Browse!Refresh
<1>7. CASE Browse!Listed
  <2>1. PICK l \in v6 :
          /\ v6' = v6 \ {l}
          /\ v1' = l.path /\ v2' = "ready" /\ v4' = "rows"
          /\ v3' = [of |-> l.path, fetch |-> l.version]
          /\ \E more \in {{}, {l.version}} : v7' = Browse!KeptPollers(l) \cup more
          /\ v11' = IF l.from = l.path THEN v11 ELSE l.path
          /\ Browse!WriteHistory(l.history, l.path)
          /\ UNCHANGED <<v5, v10>>
    BY <1>7 DEF Browse!Listed
  <2>2. l \in Browse!Loads OBVIOUS
  <2>3. l.path \in Folders /\ l.version \in 1 .. MaxVersion BY <2>2 DEF Browse!Loads
  <2>4. v8' \in Seq(Folders) /\ v9' \in 1 .. Len(v8') BY <2>1, <2>3, <1>2 DEF Browse!WriteHistory
  <2>5. v7' \subseteq 1 .. MaxVersion BY <2>1, <2>3 DEF Browse!KeptPollers
  <2>6. QED BY <2>1, <2>3, <2>4, <2>5
<1>8. CASE Browse!ListingFails BY <1>8 DEF Browse!ListingFails
<1>9. CASE Browse!Overtaken BY <1>9 DEF Browse!Overtaken
<1>10. CASE Browse!Polled BY <1>10 DEF Browse!Polled
<1>11. CASE Browse!Filter BY <1>2, <1>11 DEF Browse!Filter, Browse!Redraw
<1>12. CASE Browse!Type BY <1>12 DEF Browse!Type, Browse!Redraw
<1>13. CASE Browse!FilterTimer
  BY <1>2, <1>13 DEF Browse!FilterTimer, Browse!WriteHistory
<1>14. CASE Browse!Sort BY <1>2, <1>14 DEF Browse!Sort, Browse!Redraw
<1>15. CASE UNCHANGED Browse!vars BY <1>15 DEF Browse!vars
<1>16. QED
  BY <1>4, <1>5, <1>6, <1>7, <1>8, <1>9, <1>10, <1>11, <1>12, <1>13, <1>14, <1>15
  DEF Browse!Next

-----------------------------------------------------------------------------
(* The types of the subtitles, field by field.                              *)
ShownTypes == [full : SUBSET Streams, windows : SUBSET (Streams \X Subtitles!Times)]
CrossingTypes == [stream : Streams, token : 0 .. SubtitleTokens, out : BOOLEAN, failed : BOOLEAN]
VideoTypes == [token : 0 .. SubtitleTokens, start : Subtitles!Times, position : Subtitles!Times,
               selected : Streams \cup {Off}, revealed : BOOLEAN]

(* They are the types that Subtitles states.                                *)
LEMMA SubtitlesTypes ==
  Subtitles!TypeOK <=>
    /\ v1 \in VideoTypes /\ v2 \in Subtitles!Mounted \cup {None}
    /\ v3 \in CrossingTypes \cup {None} /\ v4 \in ShownTypes /\ v5 \subseteq Subtitles!Load
    /\ v6 \in (Streams \X (0 .. SubtitleTokens)) \cup {None}
    /\ v7 \in [running : BOOLEAN, for : 0 .. SubtitleTokens] /\ v8 \in BOOLEAN
BY DEF Subtitles!TypeOK, VideoTypes, CrossingTypes, ShownTypes

(* A mounted text is the whole text or the latest window that fits, and     *)
(* there is a latest one.                                                   *)
LEMMA MountTyped ==
  ASSUME Last \in Nat, NEW stream \in Streams, NEW seek \in Subtitles!Times, NEW t, NEW c \in ShownTypes,
         Subtitles!HasText(stream, t, c), Subtitles!MountText(stream, seek, t, c)
  PROVE  v2' \in Subtitles!Mounted /\ v3' = None /\ v8' = FALSE
<1>1. stream \in c.full \/ Subtitles!Latest(Subtitles!Fitting(stream, t, c)) \in Subtitles!Times
  <2> DEFINE W == Subtitles!Fitting(stream, t, c)
  <2>1. CASE stream \in c.full BY <2>1
  <2>2. CASE W # {}
    <3>1. W \subseteq 0 .. Last BY DEF Subtitles!Fitting, Subtitles!Times
    <3> HIDE DEF W
    <3>2. \E x \in W : \A y \in W : y <= x BY <2>2, <3>1, HasGreatest
    <3>3. Subtitles!Latest(W) \in W BY <3>2 DEF Subtitles!Latest
    <3>4. QED BY <3>1, <3>3 DEF W, Subtitles!Times
  <2>3. QED BY <2>1, <2>2 DEF Subtitles!HasText
<1>2. 0 \in Subtitles!Times BY DEF Subtitles!Times
<1>3. (IF stream \in c.full THEN 0 ELSE Subtitles!Latest(Subtitles!Fitting(stream, t, c))) \in Subtitles!Times
  BY <1>1, <1>2
<1>4. QED BY <1>3 DEF Subtitles!MountText, Subtitles!Mounted

(* A choice of the track is served at once or asked for.                    *)
LEMMA ApplyTyped ==
  ASSUME Last \in Nat, Subtitles!TypeOK, NEW stream \in Streams \cup {Off}, NEW seek \in Subtitles!Times,
         NEW t \in Subtitles!Times, NEW token \in 0 .. SubtitleTokens,
         NEW waiting \in SUBSET Subtitles!Load,
         Subtitles!Apply(stream, seek, t, token, "plain", waiting)
  PROVE  /\ v2' \in Subtitles!Mounted \cup {None} /\ v3' \in CrossingTypes \cup {None}
         /\ v8' \in BOOLEAN /\ v5' \subseteq Subtitles!Load
<1>0. /\ v2 \in Subtitles!Mounted \cup {None} /\ v3 \in CrossingTypes \cup {None}
      /\ v4 \in ShownTypes /\ v8 \in BOOLEAN
  BY SubtitlesTypes
<1>1. CASE stream = Off /\ Subtitles!Clear /\ v5' = waiting BY <1>1 DEF Subtitles!Clear
<1>2. CASE v5' = waiting /\ UNCHANGED <<v2, v3, v8>> BY <1>0, <1>2
<1>3. CASE stream # Off /\ Subtitles!HasText(stream, t, v4) /\ Subtitles!MountText(stream, seek, t, v4) /\ v5' = waiting
  BY <1>0, <1>3, MountTyped
<1>4. CASE /\ stream # Off
           /\ v5' = waiting \cup {[stream |-> stream, seek |-> seek, target |-> t,
                                   token |-> token, kind |-> "plain"]}
           /\ v8' = FALSE /\ UNCHANGED <<v2, v3>>
  <2>1. [stream |-> stream, seek |-> seek, target |-> t, token |-> token, kind |-> "plain"]
          \in Subtitles!Load
    BY <1>4 DEF Subtitles!Load
  <2>2. QED BY <1>0, <1>4, <2>1
<1>5. QED BY <1>1, <1>2, <1>3, <1>4 DEF Subtitles!Apply

(* Every step of the subtitles.                                             *)
LEMMA SubtitlesTypedNext ==
  ASSUME Subtitles!BoundsAreNatural, Subtitles!TypeOK, [Subtitles!Next]_(Subtitles!vars)
  PROVE  Subtitles!TypeOK'
<1>0. /\ v1 \in VideoTypes /\ v2 \in Subtitles!Mounted \cup {None}
      /\ v3 \in CrossingTypes \cup {None} /\ v4 \in ShownTypes /\ v5 \subseteq Subtitles!Load
      /\ v6 \in (Streams \X (0 .. SubtitleTokens)) \cup {None}
      /\ v7 \in [running : BOOLEAN, for : 0 .. SubtitleTokens] /\ v8 \in BOOLEAN
  BY SubtitlesTypes
<1>b. Last \in Nat /\ Width \in Nat \ {0} /\ SubtitleTokens \in Nat BY DEF Subtitles!BoundsAreNatural
<1>f. /\ v1.token \in 0 .. SubtitleTokens /\ v1.start \in Subtitles!Times
      /\ v1.position \in Subtitles!Times /\ v1.selected \in Streams \cup {Off}
  BY <1>0 DEF VideoTypes
<1> DEFINE Kinds == /\ v1' \in VideoTypes
                   /\ v2' \in Subtitles!Mounted \cup {None} /\ v3' \in CrossingTypes \cup {None}
                   /\ v4' \in ShownTypes /\ v5' \subseteq Subtitles!Load
                   /\ v6' \in (Streams \X (0 .. SubtitleTokens)) \cup {None}
                   /\ v7' \in [running : BOOLEAN, for : 0 .. SubtitleTokens] /\ v8' \in BOOLEAN
<1>s. Kinds => Subtitles!TypeOK'
  BY DEF Subtitles!TypeOK, VideoTypes, CrossingTypes, ShownTypes
<1>1. ASSUME NEW t \in Subtitles!Times, Subtitles!Attach(t) PROVE Subtitles!TypeOK'
  <2>0. /\ v1.token < SubtitleTokens
        /\ v1' = [v1 EXCEPT !.token = @ + 1, !.start = t, !.position = t, !.revealed = FALSE]
        /\ v4' = v4 /\ v5' = v5 /\ v6' = v6
    BY <1>1 DEF Subtitles!Attach
  <2>5. v1.token + 1 \in 0 .. SubtitleTokens BY <1>b, <1>f, <2>0
  <2>1. v1' \in VideoTypes /\ v4' = v4 /\ v5' = v5 /\ v6' = v6
    BY <1>0, <2>0, <2>5 DEF VideoTypes
  <2>2. CASE v4.full = Streams /\ v1.selected # Off
    <3>1. Subtitles!HasText(v1.selected, t, v4) /\ v1.selected \in Streams
      BY <2>2, <1>f DEF Subtitles!HasText
    <3>2. Subtitles!MountText(v1.selected, t, t, v4) /\ v7' = v7 BY <1>1, <2>2 DEF Subtitles!Attach
    <3>3. QED BY <1>0, <1>b, <1>s, <2>1, <3>1, <3>2, MountTyped
  <2>3. CASE ~(v4.full = Streams /\ v1.selected # Off)
    <3>1. Subtitles!Clear /\ v7' = IF v4.full = Streams THEN v7
                                  ELSE [running |-> TRUE, for |-> v1.token + 1]
      BY <1>1, <2>3 DEF Subtitles!Attach
    <3>2. v1.token + 1 \in 0 .. SubtitleTokens BY <1>1, <1>b, <1>f DEF Subtitles!Attach
    <3>3. v7' \in [running : BOOLEAN, for : 0 .. SubtitleTokens] BY <1>0, <3>1, <3>2
    <3>4. QED BY <1>0, <1>s, <2>1, <3>1, <3>3 DEF Subtitles!Clear
  <2>4. QED BY <2>2, <2>3
<1>2. CASE Subtitles!Reveal
  <2>1. v1' \in VideoTypes /\ UNCHANGED <<v4, v6, v7>>
    BY <1>0, <1>2 DEF Subtitles!Reveal, VideoTypes
  <2>2. CASE Subtitles!Apply(v1.selected, v1.start, v1.start, v1.token, "plain", v5)
    BY <1>0, <1>b, <1>f, <1>s, <2>1, <2>2, ApplyTyped
  <2>3. CASE ~Subtitles!Apply(v1.selected, v1.start, v1.start, v1.token, "plain", v5)
    <3>1. v1.selected # Off
          /\ v5' = v5 \cup {[stream |-> v1.selected, seek |-> v1.start, target |-> v1.start,
                             token |-> v1.token, kind |-> "startup"]}
          /\ v8' = FALSE /\ UNCHANGED <<v2, v3>>
      BY <1>2, <2>3 DEF Subtitles!Reveal
    <3>2. [stream |-> v1.selected, seek |-> v1.start, target |-> v1.start,
           token |-> v1.token, kind |-> "startup"] \in Subtitles!Load
      BY <3>1, <1>f DEF Subtitles!Load
    <3>3. QED BY <1>0, <1>s, <2>1, <3>1, <3>2
  <2>4. QED BY <2>2, <2>3
<1>3. ASSUME NEW t \in Subtitles!Times, Subtitles!SeekTo(t) PROVE Subtitles!TypeOK'
  <2>0. /\ v1.token \in 1 .. SubtitleTokens - 1
        /\ v1' = [v1 EXCEPT !.token = @ + 1, !.position = t] /\ UNCHANGED <<v4, v6, v7>>
    BY <1>3 DEF Subtitles!SeekTo
  <2>4. v1.token + 1 \in 0 .. SubtitleTokens BY <1>b, <1>f, <2>0
  <2>1. v1' \in VideoTypes /\ UNCHANGED <<v4, v6, v7>> /\ v1.token + 1 \in 0 .. SubtitleTokens
    BY <1>0, <2>0, <2>4 DEF VideoTypes
  <2>2. Subtitles!Apply(v1.selected, v1.start, t, v1.token + 1, "plain", v5)
    BY <1>3 DEF Subtitles!SeekTo
  <2>3. QED BY <1>0, <1>b, <1>f, <1>s, <2>1, <2>2, ApplyTyped
<1>4. ASSUME NEW k \in Streams \cup {Off}, Subtitles!SelectTrack(k) PROVE Subtitles!TypeOK'
  <2>1. v1' \in VideoTypes /\ UNCHANGED <<v4, v6, v7>>
    BY <1>0, <1>4 DEF Subtitles!SelectTrack, VideoTypes
  <2>2. Subtitles!Apply(k, v1.start, v1.position, 0, "plain", v5) /\ 0 \in 0 .. SubtitleTokens
    BY <1>4, <1>b DEF Subtitles!SelectTrack
  <2>3. QED BY <1>0, <1>b, <1>f, <1>s, <2>1, <2>2, ApplyTyped
<1>5. CASE Subtitles!Tick
  <2> DEFINE t == v1.position + 1
  <2>1. t \in Subtitles!Times /\ v1' \in VideoTypes /\ UNCHANGED <<v4, v7>>
    BY <1>0, <1>5, <1>b DEF Subtitles!Tick, VideoTypes, Subtitles!Times
  <2> HIDE DEF t
  <2>2. CASE UNCHANGED <<v2, v3, v5, v6, v8>> BY <1>0, <1>s, <2>1, <2>2
  <2>3. CASE ~(v1.selected = Off \/ v2 = None \/ v8)
    <3>1. v1.selected \in Streams /\ v2 \in Subtitles!Mounted /\ v2.seek \in Subtitles!Times
      BY <1>0, <1>f, <2>3 DEF Subtitles!Mounted
    <3>2. Subtitles!Crossing \in CrossingTypes /\ [Subtitles!Crossing EXCEPT !.out = FALSE] \in CrossingTypes
      BY <1>f, <3>1 DEF Subtitles!Crossing, CrossingTypes
    <3>3. CASE v3' \in {Subtitles!Crossing, [Subtitles!Crossing EXCEPT !.out = FALSE]} /\ UNCHANGED <<v2, v5, v6, v8>>
      BY <1>0, <1>s, <2>1, <3>2, <3>3
    <3>4. CASE /\ Subtitles!HasText(v1.selected, t, v4)
               /\ Subtitles!MountText(v1.selected, v2.seek, t, v4) /\ UNCHANGED <<v5, v6>>
      BY <1>0, <1>b, <1>s, <2>1, <3>1, <3>4, MountTyped
    <3>5. CASE /\ v3' = Subtitles!Crossing /\ v8' = FALSE /\ UNCHANGED v2
               /\ v6' = <<v1.selected, v1.token>>
               /\ v5' = v5 \cup {[stream |-> v1.selected, seek |-> v2.seek, target |-> t,
                                  token |-> v1.token, kind |-> "refresh"]}
      <4>1. [stream |-> v1.selected, seek |-> v2.seek, target |-> t,
             token |-> v1.token, kind |-> "refresh"] \in Subtitles!Load
        BY <1>f, <2>1, <3>1 DEF Subtitles!Load
      <4>2. <<v1.selected, v1.token>> \in Streams \X (0 .. SubtitleTokens) BY <1>f, <3>1
      <4>3. QED BY <1>0, <1>s, <2>1, <3>2, <3>5, <4>1, <4>2
    <3>6. QED BY <1>5, <2>2, <2>3, <3>3, <3>4, <3>5 DEF Subtitles!Tick, t
  <2>4. QED BY <1>5, <2>2, <2>3 DEF Subtitles!Tick
<1>6. ASSUME NEW ls, Subtitles!EndRefresh(ls)
      PROVE  v6' \in (Streams \X (0 .. SubtitleTokens)) \cup {None}
  BY <1>0, <1>6 DEF Subtitles!EndRefresh
<1>7. ASSUME NEW l \in v5, Subtitles!Fetched(l) PROVE Subtitles!TypeOK'
  <2> DEFINE ls == Subtitles!Sharing(l)
             c == [v4 EXCEPT !.windows = @ \cup {<<l.stream, l.target>>}]
  <2>1. l \in Subtitles!Load BY <1>0
  <2>2. l.stream \in Streams /\ l.seek \in Subtitles!Times /\ l.target \in Subtitles!Times
    BY <2>1 DEF Subtitles!Load
  <2>3. c \in ShownTypes /\ <<l.stream, l.target>> \in c.windows BY <1>0, <2>2 DEF ShownTypes
  <2>4. Subtitles!HasText(l.stream, l.target, c)
    <3>1. l.target \in Subtitles!Window(l.target)
      BY <1>b, <2>2 DEF Subtitles!Window, Subtitles!Times
    <3>2. l.target \in Subtitles!Fitting(l.stream, l.target, c)
      BY <2>2, <2>3, <3>1 DEF Subtitles!Fitting
    <3>3. QED BY <3>2 DEF Subtitles!HasText
  <2>5. v4' = c /\ UNCHANGED <<v1, v7>> /\ Subtitles!EndRefresh(ls)
    BY <1>7 DEF Subtitles!Fetched
  <2>6. v5 \ ls \subseteq Subtitles!Load BY <1>0
  <2>7. v6' \in (Streams \X (0 .. SubtitleTokens)) \cup {None} BY <1>6, <2>5
  <2> HIDE DEF ls, c
  <2>8. CASE v5' = v5 \ ls /\ UNCHANGED <<v2, v3, v8>>
    BY <1>0, <1>s, <2>3, <2>5, <2>6, <2>7, <2>8
  <2>9. CASE v5' = v5 \ ls /\ Subtitles!MountText(l.stream, l.seek, l.target, c)
    BY <1>0, <1>b, <1>s, <2>2, <2>3, <2>4, <2>5, <2>6, <2>7, <2>9, MountTyped
  <2>10. CASE Subtitles!Apply(v1.selected, v1.start, v1.start, v1.token, "plain", v5 \ ls)
    BY <1>0, <1>b, <1>f, <1>s, <2>3, <2>5, <2>6, <2>7, <2>10, ApplyTyped
  <2>11. QED BY <1>7, <2>8, <2>9, <2>10 DEF Subtitles!Fetched, ls, c
<1>8. ASSUME NEW l \in v5, Subtitles!FetchFailed(l) PROVE Subtitles!TypeOK'
  <2>1. v3' \in CrossingTypes \cup {None} BY <1>0, <1>8 DEF Subtitles!FetchFailed, CrossingTypes
  <2>2. v6' \in (Streams \X (0 .. SubtitleTokens)) \cup {None} BY <1>6, <1>8 DEF Subtitles!FetchFailed
  <2>3. QED BY <1>0, <1>s, <1>8, <2>1, <2>2 DEF Subtitles!FetchFailed
<1>9. ASSUME NEW S \in SUBSET Streams, Subtitles!BatchDone(S) PROVE Subtitles!TypeOK'
  <2> DEFINE c == [v4 EXCEPT !.full = @ \cup S]
  <2>1. c \in ShownTypes /\ S \subseteq c.full BY <1>0 DEF ShownTypes
  <2>2. v4' = c /\ UNCHANGED <<v1, v6>> /\ v7' \in [running : BOOLEAN, for : 0 .. SubtitleTokens]
    BY <1>9, <1>b DEF Subtitles!BatchDone
  <2> HIDE DEF c
  <2>3. CASE Subtitles!Upgrades(S) /\ Subtitles!MountText(v2.stream, v2.seek, v1.position, c) /\ v5' = v5
    <3>1. v2 \in Subtitles!Mounted /\ v2.stream \in S BY <1>0, <2>3 DEF Subtitles!Upgrades
    <3>2. Subtitles!HasText(v2.stream, v1.position, c) BY <2>1, <3>1 DEF Subtitles!HasText
    <3>3. v2.stream \in Streams /\ v2.seek \in Subtitles!Times BY <3>1 DEF Subtitles!Mounted
    <3>4. QED BY <1>0, <1>b, <1>s, <2>1, <2>2, <2>3, <3>2, <3>3, MountTyped
  <2>4. CASE UNCHANGED <<v2, v3, v8, v5>> BY <1>0, <1>s, <2>1, <2>2, <2>4
  <2>5. CASE /\ v1.selected # Off /\ Subtitles!HasText(v1.selected, v1.start, c)
             /\ Subtitles!MountText(v1.selected, v1.start, v1.start, c) /\ v5' = v5
    BY <1>0, <1>b, <1>f, <1>s, <2>1, <2>2, <2>5, MountTyped
  <2>6. CASE Subtitles!Apply(v1.selected, v1.start, v1.start, v1.token, "plain", v5)
    BY <1>0, <1>b, <1>f, <1>s, <2>1, <2>2, <2>6, ApplyTyped
  <2>7. QED BY <1>9, <2>3, <2>4, <2>5, <2>6 DEF Subtitles!BatchDone, c
<1>10. CASE UNCHANGED Subtitles!vars BY <1>0, <1>s, <1>10 DEF Subtitles!vars
<1>11. QED BY <1>1, <1>2, <1>3, <1>4, <1>5, <1>7, <1>8, <1>9, <1>10 DEF Subtitles!Next

(* The types hold at the start.                                             *)
LEMMA SubtitlesTypedInit ==
  ASSUME Subtitles!BoundsAreNatural, Subtitles!Init
  PROVE  Subtitles!TypeOK
<1>1. v1 \in VideoTypes
  <2>1. 0 \in 0 .. SubtitleTokens /\ 0 \in Subtitles!Times
    BY DEF Subtitles!BoundsAreNatural, Subtitles!Times
  <2>2. [token : {0}, start : {0}, position : {0}, selected : Streams, revealed : {TRUE}] \subseteq VideoTypes
    BY <2>1 DEF VideoTypes
  <2>3. QED BY <2>2 DEF Subtitles!Init
<1>2. v4 \in ShownTypes BY DEF Subtitles!Init, ShownTypes
<1>3. v7 \in [running : BOOLEAN, for : 0 .. SubtitleTokens]
  BY DEF Subtitles!Init, Subtitles!BoundsAreNatural
<1>4. QED BY <1>1, <1>2, <1>3, SubtitlesTypes DEF Subtitles!Init

-----------------------------------------------------------------------------
(* A player whose chains, sessions and stop requests are numbered by the    *)
(* tokens it has given out. The operators that make one player of another   *)
(* keep the record as it is, up to the fields they set.                     *)
PlayerNames == {"token", "item", "position", "local", "mode", "requested", "seeking", "recovery",
                "track", "restyle", "retrack", "tried", "chains", "stops"}
ChainNames == {"token", "item", "kind", "target", "forced", "transcode", "burn", "at"}
Made(r, F) == DOMAIN r = F /\ r = [f \in F |-> r[f]]

KnownChain(n, c) == Made(c, ChainNames) /\ c.token \in 1 .. n
Numbered(p) ==
  /\ Made(p, PlayerNames) /\ p.token \in Nat
  /\ \A c \in p.chains : KnownChain(p.token, c)
  /\ p.local # None => p.local.id \in 1 .. p.token
  /\ \A s \in p.stops : s.id \in 1 .. p.token /\ s.chain \in 0 .. p.token

(* A player within the bound of the tokens has the type that VideoSession   *)
(* states.                                                                  *)
LEMMA NumberedIsTyped ==
  ASSUME NEW p \in Video!Player(Nat), Numbered(p), p.token <= VideoTokens, VideoTokens \in Nat
  PROVE  p \in Video!Player(Video!Token)
<1> USE DEF Video!Token
<1>0. p.token \in Nat /\ 1 .. p.token \subseteq 1 .. VideoTokens /\ 0 .. p.token \subseteq 0 .. VideoTokens
  BY DEF Numbered
<1>1. p.chains \subseteq Video!Chain(1 .. VideoTokens)
  <2> SUFFICES ASSUME NEW c \in p.chains PROVE c \in Video!Chain(1 .. VideoTokens)
    OBVIOUS
  <2>1. c \in Video!Chain(Nat) /\ c.token \in 1 .. VideoTokens
    BY <1>0, PlayerFields DEF Numbered, KnownChain
  <2>2. QED BY <2>1 DEF Video!Chain
<1>2. p.local \in Video!Session(1 .. VideoTokens) \cup {None}
  BY <1>0, PlayerFields DEF Numbered, Video!Session
<1>3. p.stops \subseteq [id : 1 .. VideoTokens, chain : (1 .. VideoTokens) \cup {0}]
  <2> SUFFICES ASSUME NEW s \in p.stops PROVE s \in [id : 1 .. VideoTokens, chain : (1 .. VideoTokens) \cup {0}]
    OBVIOUS
  <2>1. s \in [id : Nat, chain : Nat] /\ s.id \in 1 .. VideoTokens /\ s.chain \in 0 .. VideoTokens
    BY <1>0, PlayerFields DEF Numbered
  <2>2. s.chain \in (1 .. VideoTokens) \cup {0} BY <2>1
  <2>3. QED BY <2>1, <2>2
<1>4. p.token \in (1 .. VideoTokens) \cup {0} BY <1>0
<1>5. QED BY <1>1, <1>2, <1>3, <1>4 DEF Video!Player

(* What leaves chains, stops and the token alone.                           *)
LEMMA QuietNumbered ==
  ASSUME NEW p, Numbered(p), NEW q, Made(q, PlayerNames), q.token = p.token, q.chains \subseteq p.chains,
         q.stops \subseteq p.stops, q.local \in {p.local, None}
  PROVE  Numbered(q)
BY DEF Numbered

(* resetPlaybackSurface                                                     *)
LEMMA ResetNumbered ==
  ASSUME NEW p, Numbered(p)
  PROVE  /\ Numbered(Video!ResetSurface(p)) /\ Video!ResetSurface(p).token = p.token
         /\ Video!ResetSurface(p).local = p.local
<1> DEFINE q == Video!ResetSurface(p)
<1>1. /\ Made(q, PlayerNames) /\ q.token = p.token /\ q.chains = p.chains /\ q.stops = p.stops
      /\ q.local = p.local
  BY DEF Numbered, Made, PlayerNames, Video!ResetSurface
<1>2. QED BY <1>1, QuietNumbered

(* clearLocalCompatibilitySessionState                                      *)
LEMMA ClearNumbered ==
  ASSUME NEW p, Numbered(p)
  PROVE  Numbered(Video!ClearLocal(p)) /\ Video!ClearLocal(p).token = p.token
<1> DEFINE q == Video!ClearLocal(p)
<1>1. /\ Made(q, PlayerNames) /\ q.token = p.token /\ q.chains = p.chains /\ q.stops = p.stops
      /\ q.local = None
  BY DEF Numbered, Made, PlayerNames, Video!ClearLocal
<1>2. QED BY <1>1, QuietNumbered

(* scheduleCompatibilityRecovery                                            *)
LEMMA RecoverNumbered ==
  ASSUME NEW p, Numbered(p), NEW t, NEW f, NEW k
  PROVE  Numbered(Video!Recover(p, t, f, k)) /\ Video!Recover(p, t, f, k).token = p.token
<1> DEFINE q == [p EXCEPT !.recovery = [target |-> t, forced |-> f, transcode |-> k]]
<1>1. /\ Made(q, PlayerNames) /\ q.token = p.token /\ q.chains = p.chains /\ q.stops = p.stops
      /\ q.local = p.local
  BY DEF Numbered, Made, PlayerNames
<1>2. Numbered(q) BY <1>1, QuietNumbered
<1>3. QED BY <1>1, <1>2 DEF Video!Recover

(* A chain goes on to its next request.                                     *)
LEMMA AtIsKnown ==
  ASSUME NEW n, NEW c, KnownChain(n, c), NEW a, NEW b
  PROVE  KnownChain(n, [c EXCEPT !.at = a]) /\ KnownChain(n, [c EXCEPT !.at = a, !.burn = b])
BY DEF KnownChain, Made, ChainNames

(* A chain is put among the others.                                         *)
LEMMA JoinNumbered ==
  ASSUME NEW p, Numbered(p), NEW d, KnownChain(p.token, d), NEW q, Made(q, PlayerNames), q.token = p.token,
         q.chains = p.chains \cup {d}, q.stops = p.stops, q.local = p.local
  PROVE  Numbered(q)
BY DEF Numbered

(* A stop of the attached session is sent.                                  *)
LEMMA StopsNumbered ==
  ASSUME NEW p, Numbered(p), NEW n \in 0 .. p.token, p.local # None, NEW q, Made(q, PlayerNames),
         q.token = p.token, q.chains = p.chains, q.local = p.local,
         q.stops = p.stops \cup {[id |-> p.local.id, chain |-> n]}
  PROVE  Numbered(q)
BY DEF Numbered

(* A create request, a probe, and the stop of the attached session before   *)
(* one of them.                                                             *)
LEMMA AskNumbered ==
  ASSUME NEW p, Numbered(p), NEW c, KnownChain(p.token, c)
  PROVE  Numbered(Video!Ask(p, c)) /\ Video!Ask(p, c).token = p.token
<1> DEFINE b == p.track = "burn"
           d == [c EXCEPT !.at = "creating", !.burn = b]
           q == [p EXCEPT !.chains = @ \cup {d}]
<1>1. Video!Ask(p, c) = q BY DEF Video!Ask
<1>2. KnownChain(p.token, d) BY AtIsKnown
<1> HIDE DEF b, d
<1>3. /\ Made(q, PlayerNames) /\ q.token = p.token /\ q.chains = p.chains \cup {d}
      /\ q.stops = p.stops /\ q.local = p.local
  BY DEF Numbered, Made, PlayerNames
<1> HIDE DEF q
<1>4. Numbered(q) BY <1>2, <1>3, JoinNumbered
<1>5. QED BY <1>1, <1>3, <1>4

LEMMA ProbeNumbered ==
  ASSUME NEW p, Numbered(p), NEW c, KnownChain(p.token, c)
  PROVE  Numbered(Probe(p, c)) /\ Probe(p, c).token = p.token
<1> DEFINE d == [c EXCEPT !.at = "probing"]
           q == [p EXCEPT !.chains = @ \cup {d}]
<1>1. Probe(p, c) = q BY DEF Probe
<1>2. KnownChain(p.token, d) BY AtIsKnown
<1> HIDE DEF d
<1>3. /\ Made(q, PlayerNames) /\ q.token = p.token /\ q.chains = p.chains \cup {d}
      /\ q.stops = p.stops /\ q.local = p.local
  BY DEF Numbered, Made, PlayerNames
<1> HIDE DEF q
<1>4. Numbered(q) BY <1>2, <1>3, JoinNumbered
<1>5. QED BY <1>1, <1>3, <1>4

LEMMA StopNumbered ==
  ASSUME NEW p, Numbered(p), p.local # None, NEW c, KnownChain(p.token, c)
  PROVE  Numbered(Video!StopLocal(p, c)) /\ Video!StopLocal(p, c).token = p.token
<1> DEFINE d == [c EXCEPT !.at = "stopping"]
           s == [id |-> p.local.id, chain |-> c.token]
           m == [p EXCEPT !.stops = @ \cup {s}]
           q == [p EXCEPT !.stops = @ \cup {s}, !.chains = @ \cup {d}]
<1>1. Video!StopLocal(p, c) = q BY DEF Video!StopLocal
<1>2. KnownChain(p.token, d) BY AtIsKnown
<1>3. c.token \in 0 .. p.token BY DEF KnownChain, Numbered
<1> HIDE DEF d
<1>4. /\ Made(m, PlayerNames) /\ m.token = p.token /\ m.chains = p.chains
      /\ m.stops = p.stops \cup {s} /\ m.local = p.local
  BY DEF Numbered, Made, PlayerNames
<1>5. /\ Made(q, PlayerNames) /\ q.token = p.token /\ q.chains = p.chains \cup {d}
      /\ q.stops = p.stops \cup {s} /\ q.local = p.local
  BY DEF Numbered, Made, PlayerNames
<1> HIDE DEF m, q
<1>6. Numbered(m) BY <1>3, <1>4, StopsNumbered
<1>7. Numbered(q) BY <1>2, <1>4, <1>5, <1>6, JoinNumbered
<1>8. QED BY <1>1, <1>5, <1>7

(* The part of a restart behind the probe.                                  *)
LEMMA LocatedNumbered ==
  ASSUME NEW p, Numbered(p), NEW c, KnownChain(p.token, c), NEW r \in Video!Located(p, c)
  PROVE  Numbered(r) /\ r.token = p.token
<1> DEFINE q == [p EXCEPT !.requested = c.target, !.seeking = TRUE]
           m == [p EXCEPT !.position = c.target]
<1>1. /\ Made(q, PlayerNames) /\ q.token = p.token /\ q.chains = p.chains /\ q.stops = p.stops
      /\ q.local = p.local
  BY DEF Numbered, Made, PlayerNames
<1>2. /\ Made(m, PlayerNames) /\ m.token = p.token /\ m.chains = p.chains /\ m.stops = p.stops
      /\ m.local = p.local
  BY DEF Numbered, Made, PlayerNames
<1>3. Video!Reopen(p, c) = IF q.local = None THEN Video!Ask(q, c) ELSE Video!ClearLocal(Video!StopLocal(q, c))
  BY DEF Video!Reopen, Video!ClearLocal
<1>4. r = Video!Reopen(p, c) \/ r = m BY DEF Video!Located
<1> HIDE DEF q, m
<1>5. Numbered(q) /\ Numbered(m) BY <1>1, <1>2, QuietNumbered
<1>6. QED BY <1>1, <1>2, <1>3, <1>4, <1>5, AskNumbered, StopNumbered, ClearNumbered

(* A chain that starts has the next token.                                  *)
LEMMA NextNumbered ==
  ASSUME NEW p, Numbered(p), NEW q, Made(q, PlayerNames), q.token = p.token + 1,
         q.chains = p.chains, q.stops = p.stops, q.local = p.local
  PROVE  Numbered(q)
<1>1. p.token \in Nat /\ 1 .. p.token \subseteq 1 .. p.token + 1 /\ 0 .. p.token \subseteq 0 .. p.token + 1
  BY DEF Numbered
<1>2. QED BY <1>1 DEF Numbered, KnownChain

(* A restart, and the change of the track that asks for one.                *)
LEMMA RestartNumbered ==
  ASSUME NEW p, Numbered(p), NEW t, NEW f, NEW k, NEW r \in Video!Restart(p, t, f, k)
  PROVE  Numbered(r) /\ r.token \in {p.token, p.token + 1}
<1> DEFINE q == [p EXCEPT !.token = @ + 1, !.recovery = None]
           c == [token |-> q.token, item |-> q.item, kind |-> "restart", target |-> t,
                 forced |-> f, transcode |-> k, burn |-> FALSE, at |-> "probing"]
           n == [q EXCEPT !.chains = @ \cup {c}]
<1>1. /\ Made(q, PlayerNames) /\ q.token = p.token + 1 /\ q.chains = p.chains /\ q.stops = p.stops
      /\ q.local = p.local
  BY DEF Numbered, Made, PlayerNames
<1>2. r = p \/ r \in Video!Located(q, c) \/ r = n BY DEF Video!Restart
<1>3. c.token = q.token /\ Made(c, ChainNames) BY DEF Made, ChainNames
<1>4. q.token \in 1 .. q.token BY <1>1 DEF Numbered
<1> HIDE DEF c
<1>5. KnownChain(q.token, c) BY <1>3, <1>4 DEF KnownChain
<1>6. Numbered(q) BY <1>1, NextNumbered
<1> HIDE DEF q
<1>7. /\ Made(n, PlayerNames) /\ n.token = q.token /\ n.chains = q.chains \cup {c}
      /\ n.stops = q.stops /\ n.local = q.local
  BY <1>6 DEF Numbered, Made, PlayerNames
<1> HIDE DEF n
<1>8. Numbered(n) BY <1>5, <1>6, <1>7, JoinNumbered
<1>9. QED BY <1>1, <1>2, <1>5, <1>6, <1>7, <1>8, LocatedNumbered

LEMMA RetrackNumbered ==
  ASSUME NEW p, Numbered(p), NEW r \in Video!Retrack(p)
  PROVE  Numbered(r) /\ r.token \in {p.token, p.token + 1}
<1> DEFINE q == [p EXCEPT !.retrack = TRUE]
<1>1. /\ Made(q, PlayerNames) /\ q.token = p.token /\ q.chains = p.chains /\ q.stops = p.stops
      /\ q.local = p.local
  BY DEF Numbered, Made, PlayerNames
<1>2. Numbered(q) BY <1>1, QuietNumbered
<1>3. QED BY <1>1, <1>2, RestartNumbered DEF Video!Retrack

(* A session comes back, or none does.                                      *)
LEMMA AdoptNumbered ==
  ASSUME NEW p, Numbered(p), NEW c, NEW s, s.id \in 1 .. p.token, NEW r \in Video!Adopt(p, c, s)
  PROVE  Numbered(r)
<1> DEFINE q == [p EXCEPT !.local = s, !.mode = IF s.copy THEN "copy" ELSE "transcode"]
           a == Video!Attach(q, s)
           b == [a EXCEPT !.seeking = FALSE, !.requested = None]
           x == [b EXCEPT !.restyle = FALSE]
           y == [b EXCEPT !.retrack = FALSE]
<1>1. /\ Made(q, PlayerNames) /\ q.token = p.token /\ q.chains = p.chains /\ q.stops = p.stops
      /\ q.local = s
  BY DEF Numbered, Made, PlayerNames
<1>2. Numbered(q) BY <1>1 DEF Numbered
<1>3. \/ r = a \/ r = b
      \/ r \in Video!Restart(x, b.position, TRUE, FALSE)
      \/ r \in Video!Restart(b, q.requested, FALSE, FALSE)
      \/ r \in Video!Retrack(y)
  BY DEF Video!Adopt
<1>4. a = [Video!ResetSurface(q) EXCEPT !.position = s.start] BY DEF Video!Attach
<1> HIDE DEF q, a
<1>5. Numbered(Video!ResetSurface(q)) BY <1>2, ResetNumbered
<1>6. Numbered(a)
  <2> DEFINE z == Video!ResetSurface(q)
  <2> HIDE DEF z
  <2>1. Numbered(z) BY <1>5 DEF z
  <2>2. a = [z EXCEPT !.position = s.start] BY <1>4 DEF z
  <2>3. /\ Made(a, PlayerNames) /\ a.token = z.token /\ a.chains = z.chains /\ a.stops = z.stops
        /\ a.local = z.local
    BY <2>1, <2>2 DEF Numbered, Made, PlayerNames
  <2>4. QED BY <2>1, <2>3, QuietNumbered
<1>7. /\ Made(b, PlayerNames) /\ b.token = a.token /\ b.chains = a.chains /\ b.stops = a.stops
      /\ b.local = a.local
  BY <1>6 DEF Numbered, Made, PlayerNames
<1> HIDE DEF b
<1>8. Numbered(b) BY <1>6, <1>7, QuietNumbered
<1>9. /\ Made(x, PlayerNames) /\ x.token = b.token /\ x.chains = b.chains /\ x.stops = b.stops
      /\ x.local = b.local
  BY <1>8 DEF Numbered, Made, PlayerNames
<1>10. /\ Made(y, PlayerNames) /\ y.token = b.token /\ y.chains = b.chains /\ y.stops = b.stops
       /\ y.local = b.local
  BY <1>8 DEF Numbered, Made, PlayerNames
<1> HIDE DEF x, y
<1>11. Numbered(x) /\ Numbered(y) BY <1>8, <1>9, <1>10, QuietNumbered
<1>12. QED BY <1>3, <1>6, <1>8, <1>11, RestartNumbered, RetrackNumbered

LEMMA NoSessionNumbered ==
  ASSUME NEW p, Numbered(p), NEW c, NEW r \in Video!NoSession(p, c)
  PROVE  Numbered(r) /\ r.token = p.token
<1> DEFINE q == [p EXCEPT !.local = None]
           n == [q EXCEPT !.seeking = FALSE, !.requested = None]
<1>1. /\ Made(q, PlayerNames) /\ q.token = p.token /\ q.chains = p.chains /\ q.stops = p.stops
      /\ q.local = None
  BY DEF Numbered, Made, PlayerNames
<1>2. Numbered(q) BY <1>1, QuietNumbered
<1>3. \/ r = Video!Recover(q, 0, TRUE, FALSE) \/ r = Video!ResetSurface(n)
      \/ r = Video!Recover(n, c.target, FALSE, FALSE) \/ r = Video!Recover(n, c.target, TRUE, FALSE)
  BY DEF Video!NoSession
<1> HIDE DEF q
<1>4. /\ Made(n, PlayerNames) /\ n.token = q.token /\ n.chains = q.chains /\ n.stops = q.stops
      /\ n.local = q.local
  BY <1>2 DEF Numbered, Made, PlayerNames
<1> HIDE DEF n
<1>5. Numbered(n) BY <1>2, <1>4, QuietNumbered
<1>6. CASE r = Video!Recover(q, 0, TRUE, FALSE)
  <2>1. Numbered(Video!Recover(q, 0, TRUE, FALSE)) /\ Video!Recover(q, 0, TRUE, FALSE).token = q.token
    BY <1>2, RecoverNumbered
  <2>2. QED BY <1>1, <1>2, <1>6, <2>1
<1>7. CASE r = Video!ResetSurface(n)
  BY <1>1, <1>4, <1>5, <1>7, ResetNumbered
<1>8. CASE r = Video!Recover(n, c.target, FALSE, FALSE)
  <2>1. Numbered(Video!Recover(n, c.target, FALSE, FALSE)) /\ Video!Recover(n, c.target, FALSE, FALSE).token = n.token
    BY <1>5, RecoverNumbered
  <2>2. QED BY <1>1, <1>4, <1>5, <1>8, <2>1
<1>9. CASE r = Video!Recover(n, c.target, TRUE, FALSE)
  <2>1. Numbered(Video!Recover(n, c.target, TRUE, FALSE)) /\ Video!Recover(n, c.target, TRUE, FALSE).token = n.token
    BY <1>5, RecoverNumbered
  <2>2. QED BY <1>1, <1>4, <1>5, <1>9, <2>1
<1>10. QED BY <1>3, <1>6, <1>7, <1>8, <1>9

(* The player turns to an item.                                             *)
LEMMA SyncNumbered ==
  ASSUME NEW p, Numbered(p), NEW i
  PROVE  Numbered(Video!SyncTo(p, i)) /\ Video!SyncTo(p, i).token = p.token + 1
<1> DEFINE q == [p EXCEPT !.token = @ + 1, !.recovery = None, !.item = i]
           r == IF i = None THEN q ELSE Video!ResetSurface(q)
           c == [token |-> q.token, item |-> i, kind |-> IF i = None THEN "clear" ELSE "start",
                 target |-> 0, forced |-> FALSE, transcode |-> FALSE, burn |-> FALSE, at |-> "probing"]
           n == [r EXCEPT !.chains = @ \cup {c}]
           z == Video!SyncTo(p, i)
<1>1. /\ Made(q, PlayerNames) /\ q.token = p.token + 1 /\ q.chains = p.chains /\ q.stops = p.stops
      /\ q.local = p.local
  BY DEF Numbered, Made, PlayerNames
<1>2. \/ z = Video!ResetSurface(q)
      \/ q.local # None /\ z = Video!StopLocal(q, c)
      \/ r.local # None /\ z = Video!StopLocal(r, c)
      \/ z = Video!Ask(r, c)
      \/ z = n
  BY DEF Video!SyncTo
<1>3. c.token = q.token /\ Made(c, ChainNames) BY DEF Made, ChainNames
<1>4. q.token \in 1 .. q.token BY <1>1 DEF Numbered
<1> HIDE DEF c
<1>5. KnownChain(q.token, c) BY <1>3, <1>4 DEF KnownChain
<1>6. Numbered(q) BY <1>1, NextNumbered
<1> HIDE DEF q
<1>7. Numbered(r) /\ r.token = q.token BY <1>6, ResetNumbered
<1> HIDE DEF r
<1>8. /\ Made(n, PlayerNames) /\ n.token = r.token /\ n.chains = r.chains \cup {c}
      /\ n.stops = r.stops /\ n.local = r.local
  BY <1>7 DEF Numbered, Made, PlayerNames
<1> HIDE DEF n, z
<1>9. Numbered(n) BY <1>5, <1>7, <1>8, JoinNumbered
<1>10. QED BY <1>1, <1>2, <1>5, <1>6, <1>7, <1>8, <1>9, ResetNumbered, StopNumbered, AskNumbered DEF z

(* The tokens stay below their bound, and what is not the player has its    *)
(* type.                                                                    *)
Capped(p) == Numbered(p) /\ p.token <= VideoTokens
VideoTyped ==
  /\ Capped(v1) /\ v2 \in BOOLEAN /\ v3 \subseteq Videos
  /\ v4 \subseteq Video!Token /\ v5 \subseteq Video!Session(Video!Token)

(* One more token is taken only where there is room.                        *)
LEMMA MoreCapped ==
  ASSUME VideoTokens \in Nat, NEW p, Numbered(p), NEW q, Numbered(q), q.token \in {p.token, p.token + 1},
         p.token < VideoTokens
  PROVE  Capped(q)
BY DEF Capped, Numbered

(* A chain is taken away when its answer is handled.                        *)
LEMMA DropNumbered ==
  ASSUME NEW p, Numbered(p), NEW c \in p.chains
  PROVE  /\ Numbered([p EXCEPT !.chains = @ \ {c}]) /\ [p EXCEPT !.chains = @ \ {c}].token = p.token
         /\ KnownChain(p.token, c)
<1> DEFINE q == [p EXCEPT !.chains = @ \ {c}]
<1>1. /\ Made(q, PlayerNames) /\ q.token = p.token /\ q.chains \subseteq p.chains /\ q.stops = p.stops
      /\ q.local = p.local
  BY DEF Numbered, Made, PlayerNames
<1>2. Numbered(q) BY <1>1, QuietNumbered
<1>3. QED BY <1>1, <1>2 DEF Numbered

(* A stop that no chain waits for is sent.                                  *)
LEMMA SentNumbered ==
  ASSUME NEW p, Numbered(p), NEW i \in 1 .. p.token
  PROVE  /\ Numbered([p EXCEPT !.stops = @ \cup {[id |-> i, chain |-> 0]}])
         /\ [p EXCEPT !.stops = @ \cup {[id |-> i, chain |-> 0]}].token = p.token
<1> DEFINE s == [id |-> i, chain |-> 0]
           q == [p EXCEPT !.stops = @ \cup {s}]
<1>1. /\ Made(q, PlayerNames) /\ q.token = p.token /\ q.chains = p.chains /\ q.stops = p.stops \cup {s}
      /\ q.local = p.local
  BY DEF Numbered, Made, PlayerNames
<1> HIDE DEF q
<1>2. 0 \in 0 .. p.token BY DEF Numbered
<1>3. Numbered(q) BY <1>1, <1>2 DEF Numbered
<1>4. QED BY <1>1, <1>3 DEF q

(* Other fields are set.                                                    *)
LEMMA AnySetNumbered ==
  ASSUME NEW p, Numbered(p), NEW a,
         NEW q \in {[p EXCEPT !.requested = a], [p EXCEPT !.restyle = a], [p EXCEPT !.track = a],
                   [p EXCEPT !.tried = a]}
  PROVE  Numbered(q) /\ q.token = p.token
<1>1. /\ Made(q, PlayerNames) /\ q.token = p.token /\ q.chains = p.chains /\ q.stops = p.stops
      /\ q.local = p.local
  BY DEF Numbered, Made, PlayerNames
<1>2. QED BY <1>1, QuietNumbered

(* The server says that the session is gone.                                *)
LEMMA MissingNumbered ==
  ASSUME NEW p, Numbered(p)
  PROVE  Numbered(Video!Missing(p)) /\ Video!Missing(p).token = p.token
<1> DEFINE q == Video!ClearLocal(p)
<1>1. Numbered(q) /\ q.token = p.token BY ClearNumbered
<1>2. Video!Missing(p) = p \/ Video!Missing(p) = Video!ResetSurface(q) BY DEF Video!Missing
<1> HIDE DEF q
<1>3. QED BY <1>1, <1>2, ResetNumbered

(* The steps: the answer to a stop,                                         *)
LEMMA StoppedCapped ==
  ASSUME Capped(v1), NEW s \in v1.stops, Video!Stopped(s)
  PROVE  Capped(v1')
<1> DEFINE x == IF v1.local # None /\ v1.local.id = s.id THEN Video!ClearLocal(v1) ELSE v1
           p == [x EXCEPT !.stops = @ \ {s}]
<1>1. Numbered(x) /\ x.token = v1.token /\ x.chains = v1.chains
  BY ClearNumbered DEF Capped, Video!ClearLocal, Numbered, Made, PlayerNames
<1> HIDE DEF x
<1>2. /\ Made(p, PlayerNames) /\ p.token = x.token /\ p.chains = x.chains /\ p.stops \subseteq x.stops
      /\ p.local = x.local
  BY <1>1 DEF Numbered, Made, PlayerNames
<1> HIDE DEF p
<1>3. Numbered(p) BY <1>1, <1>2, QuietNumbered
<1>4. CASE v1' = p BY <1>1, <1>2, <1>3, <1>4 DEF Capped
<1>5. ASSUME NEW c \in v1.chains, NEW q, q = [p EXCEPT !.chains = @ \ {c}],
             v1' \in {Video!ResetSurface(q), q, Probe(q, c), Video!Ask(q, c)}
      PROVE  Capped(v1')
  <2>1. Numbered(q) /\ q.token = p.token /\ KnownChain(p.token, c)
    BY <1>1, <1>2, <1>3, <1>5, DropNumbered
  <2>2. Numbered(v1') /\ v1'.token = q.token
    <3>1. Numbered(Video!ResetSurface(q)) /\ Video!ResetSurface(q).token = q.token BY <2>1, ResetNumbered
    <3>2. KnownChain(q.token, c) BY <2>1
    <3>3. Numbered(Probe(q, c)) /\ Probe(q, c).token = q.token BY <2>1, <3>2, ProbeNumbered
    <3>4. Numbered(Video!Ask(q, c)) /\ Video!Ask(q, c).token = q.token BY <2>1, <3>2, AskNumbered
    <3>5. QED BY <1>5, <2>1, <3>1, <3>3, <3>4
  <2>3. QED BY <1>1, <1>2, <2>1, <2>2 DEF Capped
<1>6. QED BY <1>4, <1>5 DEF Video!Stopped, Probe, x, p

(* the answers to probes and create requests,                               *)
LEMMA AnswersCapped ==
  ASSUME VideoTokens \in Nat, Capped(v1), NEW c \in v1.chains,
         Video!Probed(c) \/ Video!ProbeFailed(c) \/ Video!Created(c) \/ Video!CreateFailed(c)
  PROVE  Capped(v1')
<1> DEFINE q == Video!Drop(c)
<1>1. Numbered(q) /\ q.token = v1.token /\ KnownChain(v1.token, c)
  BY DropNumbered DEF Video!Drop, Capped
<1>2. c.token \in 1 .. q.token BY <1>1 DEF KnownChain
<1>3. Video!Made(c).id = c.token BY DEF Video!Made
<1> HIDE DEF q
<1>4. CASE v1' = q BY <1>1, <1>4 DEF Capped
<1>5. CASE Video!Probed(c)
  <2>1. v1' = q \/ v1' = Video!Ask(q, c) \/ v1' \in Video!Located(q, c) BY <1>5 DEF Video!Probed, q
  <2>2. CASE v1' = Video!Ask(q, c)
    BY <1>1, <2>2, AskNumbered DEF Capped
  <2>3. CASE v1' \in Video!Located(q, c)
    BY <1>1, <2>3, LocatedNumbered DEF Capped
  <2>4. QED BY <1>4, <2>1, <2>2, <2>3
<1>6. CASE Video!ProbeFailed(c)
  <2>1. v1' = q \/ v1' = [q EXCEPT !.requested = c.target, !.seeking = FALSE]
    BY <1>6 DEF Video!ProbeFailed, q
  <2>2. CASE v1' = [q EXCEPT !.requested = c.target, !.seeking = FALSE]
    <3> DEFINE x == [q EXCEPT !.requested = c.target, !.seeking = FALSE]
    <3>1. /\ Made(x, PlayerNames) /\ x.token = q.token /\ x.chains = q.chains /\ x.stops = q.stops
          /\ x.local = q.local
      BY <1>1 DEF Numbered, Made, PlayerNames
    <3> HIDE DEF x
    <3>2. Numbered(x) BY <1>1, <3>1, QuietNumbered
    <3>3. v1' = x BY <2>2 DEF x
    <3>4. QED BY <1>1, <3>1, <3>2, <3>3 DEF Capped
  <2>3. QED BY <1>4, <2>1, <2>2
<1>7. CASE Video!Created(c)
  <2>1. CASE v1' \in Video!Adopt(q, c, Video!Made(c)) /\ v1'.token <= VideoTokens
    <3> DEFINE s == Video!Made(c)
    <3>1. s.id \in 1 .. q.token /\ v1' \in Video!Adopt(q, c, s) BY <1>2, <1>3, <2>1
    <3> HIDE DEF s
    <3>2. QED BY <1>1, <2>1, <3>1, AdoptNumbered DEF Capped
  <2>2. CASE v1' = [q EXCEPT !.stops = @ \cup {[id |-> c.token, chain |-> 0]}]
    BY <1>1, <1>2, <2>2, SentNumbered DEF Capped
  <2>3. QED BY <1>7, <2>1, <2>2 DEF Video!Created, q
<1>8. CASE Video!CreateFailed(c)
  <2>1. v1' = q \/ v1' \in Video!NoSession(q, c) BY <1>8 DEF Video!CreateFailed, q
  <2>2. CASE v1' \in Video!NoSession(q, c)
    BY <1>1, <2>2, NoSessionNumbered DEF Capped
  <2>3. QED BY <1>4, <2>1, <2>2
<1>9. QED BY <1>5, <1>6, <1>7, <1>8

(* what starts a chain,                                                     *)
LEMMA UserCapped ==
  ASSUME VideoTokens \in Nat, Capped(v1),
         \/ \E i \in Videos \cup {None} : Video!Play(i)
         \/ \E t \in Positions : Video!Seek(t)
         \/ Video!ChangeAudio \/ Video!ApplyStyle \/ (\E k \in {"text", "burn"} : Video!SelectTrack(k))
         \/ Video!EnterPane \/ Video!RecoveryFires
  PROVE  Capped(v1')
<1>0. Numbered(v1) BY DEF Capped
<1>1. ASSUME NEW i, v1' = Video!SyncTo(v1, i), v1.token < VideoTokens PROVE Capped(v1')
  BY <1>0, <1>1, SyncNumbered, MoreCapped
<1>2. ASSUME NEW p, Numbered(p), p.token = v1.token, NEW t, NEW f, NEW k,
             v1' \in Video!Restart(p, t, f, k), v1.token < VideoTokens
      PROVE  Capped(v1')
  BY <1>0, <1>2, RestartNumbered, MoreCapped
<1>3. ASSUME NEW p, Numbered(p), p.token = v1.token, v1' \in Video!Retrack(p), v1.token < VideoTokens
      PROVE  Capped(v1')
  BY <1>0, <1>3, RetrackNumbered, MoreCapped
<1>4. CASE (\E i \in Videos \cup {None} : Video!Play(i)) \/ Video!EnterPane
  BY <1>1, <1>4 DEF Video!Play, Video!EnterPane, Video!Room
<1>5. CASE \E t \in Positions : Video!Seek(t)
  <2>1. PICK t \in Positions : Video!Seek(t) BY <1>5
  <2>2. CASE v1' = [v1 EXCEPT !.requested = t] BY <1>0, <2>2, AnySetNumbered DEF Capped
  <2>3. CASE v1.token < VideoTokens /\ v1' \in Video!Restart(v1, t, FALSE, FALSE)
    BY <1>0, <1>2, <2>3
  <2>4. QED BY <2>1, <2>2, <2>3 DEF Video!Seek, Video!Room
<1>6. CASE Video!ChangeAudio
  <2>1. v1.token < VideoTokens /\ v1' \in Video!Restart(v1, v1.position, TRUE, FALSE)
    BY <1>6 DEF Video!ChangeAudio, Video!Room
  <2>2. QED BY <1>0, <1>2, <2>1
<1>7. CASE Video!ApplyStyle
  <2> DEFINE p == [v1 EXCEPT !.restyle = FALSE]
  <2>1. \/ v1' = [v1 EXCEPT !.restyle = TRUE]
        \/ v1.token < VideoTokens /\ v1' \in Video!Restart(p, v1.position, TRUE, FALSE)
    BY <1>7 DEF Video!ApplyStyle, Video!Room
  <2>2. Numbered(p) /\ p.token = v1.token BY <1>0, AnySetNumbered
  <2> HIDE DEF p
  <2>3. CASE v1' = [v1 EXCEPT !.restyle = TRUE] BY <1>0, <2>3, AnySetNumbered DEF Capped
  <2>4. CASE v1.token < VideoTokens /\ v1' \in Video!Restart(p, v1.position, TRUE, FALSE)
    BY <1>2, <2>2, <2>4
  <2>5. QED BY <2>1, <2>3, <2>4
<1>8. CASE \E k \in {"text", "burn"} : Video!SelectTrack(k)
  <2>1. PICK k \in {"text", "burn"} : Video!SelectTrack(k) BY <1>8
  <2> DEFINE p == [v1 EXCEPT !.track = k]
  <2>2. Numbered(p) /\ p.token = v1.token BY <1>0, AnySetNumbered
  <2>3. v1.token < VideoTokens /\ v1' \in Video!Retrack(p) BY <2>1 DEF Video!SelectTrack, Video!Room
  <2> HIDE DEF p
  <2>4. QED BY <1>3, <2>2, <2>3
<1>9. CASE Video!RecoveryFires
  <2>1. v1.token < VideoTokens
    /\ v1' \in Video!Restart(v1, v1.recovery.target, v1.recovery.forced, v1.recovery.transcode)
    BY <1>9 DEF Video!RecoveryFires, Video!Room
  <2>2. QED BY <1>0, <1>2, <2>1
<1>10. QED BY <1>4, <1>5, <1>6, <1>7, <1>8, <1>9

(* and every step of the player.                                            *)
LEMMA PlayerCapped ==
  ASSUME VideoTokens \in Nat, Capped(v1), [Video!Next]_(Video!vars)
  PROVE  Capped(v1')
<1>0. Numbered(v1) BY DEF Capped
<1>1. ASSUME Numbered(v1'), v1'.token = v1.token PROVE Capped(v1') BY <1>1 DEF Capped
<1>2. CASE \/ \E i \in Videos \cup {None} : Video!Play(i)
           \/ \E t \in Positions : Video!Seek(t)
           \/ Video!ChangeAudio \/ Video!ApplyStyle \/ (\E k \in {"text", "burn"} : Video!SelectTrack(k))
           \/ Video!EnterPane \/ Video!RecoveryFires
  BY <1>2, UserCapped
<1>3. CASE Video!LeavePane
  <2> DEFINE q == IF v1.local = None THEN v1
                  ELSE [v1 EXCEPT !.stops = @ \cup {[id |-> v1.local.id, chain |-> 0]}]
  <2>1. v1' = Video!ResetSurface(q) BY <1>3 DEF Video!LeavePane
  <2>2. v1.local # None => v1.local.id \in 1 .. v1.token BY <1>0 DEF Numbered
  <2>3. Numbered(q) /\ q.token = v1.token BY <1>0, <2>2, SentNumbered
  <2> HIDE DEF q
  <2>4. QED BY <1>1, <2>1, <2>3, ResetNumbered
<1>4. CASE \E s \in v1.stops : Video!Stopped(s) BY <1>4, StoppedCapped
<1>5. CASE \E c \in v1.chains : Video!Probed(c) \/ Video!ProbeFailed(c) \/ Video!Created(c) \/ Video!CreateFailed(c)
  BY <1>5, AnswersCapped
<1>6. ASSUME NEW f \in BOOLEAN, NEW k \in BOOLEAN, v1' = Video!Recover(v1, v1.position, f, k) PROVE Capped(v1')
  BY <1>0, <1>1, <1>6, RecoverNumbered
<1>7. CASE Video!MediaError
  <2> DEFINE p == Video!Recover(v1, v1.position, TRUE, TRUE)
             key == <<v1.item, v1.position>>
  <2>1. \/ v1' = [p EXCEPT !.tried = @ \cup {key}] \/ v1' = v1
        \/ v1' = Video!Recover(v1, v1.position, TRUE, FALSE)
    BY <1>7 DEF Video!MediaError
  <2>2. Numbered(p) /\ p.token = v1.token BY <1>0, RecoverNumbered
  <2> HIDE DEF p, key
  <2>3. CASE v1' = [p EXCEPT !.tried = @ \cup {key}]
    BY <1>1, <2>2, <2>3, AnySetNumbered
  <2>4. QED BY <1>0, <1>1, <1>6, <2>1, <2>3
<1>8. CASE Video!Plays
  <2> DEFINE q == [v1 EXCEPT !.recovery = None, !.tried = {}]
  <2>1. v1' = q BY <1>8 DEF Video!Plays
  <2>2. /\ Made(q, PlayerNames) /\ q.token = v1.token /\ q.chains = v1.chains /\ q.stops = v1.stops
        /\ q.local = v1.local
    BY <1>0 DEF Numbered, Made, PlayerNames
  <2> HIDE DEF q
  <2>3. Numbered(q) BY <1>0, <2>2, QuietNumbered
  <2>4. QED BY <1>1, <2>1, <2>2, <2>3
<1>9. CASE \/ Video!SegmentMissing \/ (\E s \in v5 : Video!Lose(s)) \/ UNCHANGED Video!vars
  <2>1. v1' = v1 BY <1>9 DEF Video!SegmentMissing, Video!Lose, Video!vars
  <2>2. QED BY <1>0, <1>1, <2>1
<1>10. CASE (\E id \in v4 : Video!Polled(id)) \/ Video!ReportedMissing
  <2>1. v1' = Video!Missing(v1) \/ v1' = Video!Recover(v1, v1.position, TRUE, FALSE)
    BY <1>10 DEF Video!Polled, Video!ReportedMissing
  <2>2. CASE v1' = Video!Missing(v1) BY <1>0, <1>1, <2>2, MissingNumbered
  <2>3. QED BY <1>6, <2>1, <2>2
<1>11. QED
  BY <1>2, <1>3, <1>4, <1>5, <1>7, <1>8, <1>9, <1>10 DEF Video!Next

(* Every step of the video pane. Probes are asked for items only, and a     *)
(* session is created for the item of its chain.                            *)
LEMMA VideoTypedNext ==
  ASSUME VideoTokens \in Nat, Video!IInv, VideoTyped, [Video!Next]_(Video!vars)
  PROVE  VideoTyped'
<1>1. Capped(v1') BY PlayerCapped DEF VideoTyped
<1>2. v1 \in Video!Player(Nat) /\ Numbered(v1) /\ Video!ChainsApart(v1) /\ v1.token <= VideoTokens
  BY DEF Video!IInv, VideoTyped, Capped
<1>3. v1.token \in Nat /\ 1 .. v1.token \subseteq Video!Token
  BY <1>2 DEF Numbered, Video!Token
<1>4. v2' \in BOOLEAN
  BY DEF VideoTyped, Video!Next, Video!vars, Video!Play, Video!Seek, Video!ChangeAudio, Video!ApplyStyle,
     Video!SelectTrack, Video!LeavePane, Video!EnterPane, Video!Stopped, Video!Probed, Video!ProbeFailed,
     Video!Created, Video!CreateFailed, Video!RecoveryFires, Video!MediaError, Video!Plays,
     Video!SegmentMissing, Video!Polled, Video!ReportedMissing, Video!Lose
<1>5. v3' \subseteq Videos
  <2>1. v3' = v3 \/ \E c \in v1.chains : c.at = "probing" /\ v3' = v3 \cup {c.item}
    BY DEF Video!Next, Video!vars, Video!Play, Video!Seek, Video!ChangeAudio, Video!ApplyStyle,
     Video!SelectTrack, Video!LeavePane, Video!EnterPane, Video!Stopped, Video!Probed, Video!ProbeFailed,
     Video!Created, Video!CreateFailed, Video!RecoveryFires, Video!MediaError, Video!Plays,
     Video!SegmentMissing, Video!Polled, Video!ReportedMissing, Video!Lose
  <2>2. ASSUME NEW c \in v1.chains, c.at = "probing" PROVE c.item \in Videos
    <3>1. c.item \in Videos \cup {None} BY <1>2, PlayerFields DEF Video!Chain
    <3>2. c.item # None BY <1>2, <2>2 DEF Video!ChainsApart
    <3>3. QED BY <3>1, <3>2
  <2>3. QED BY <2>1, <2>2 DEF VideoTyped
<1>6. v4' \subseteq Video!Token
  <2>1. v4' \subseteq v4 \/ (v1.local # None /\ v4' = {v1.local.id})
    BY DEF Video!Next, Video!vars, Video!Play, Video!Seek, Video!ChangeAudio, Video!ApplyStyle,
     Video!SelectTrack, Video!LeavePane, Video!EnterPane, Video!Stopped, Video!Probed, Video!ProbeFailed,
     Video!Created, Video!CreateFailed, Video!RecoveryFires, Video!MediaError, Video!Plays,
     Video!SegmentMissing, Video!Polled, Video!ReportedMissing, Video!Lose
  <2>2. v1.local # None => v1.local.id \in 1 .. v1.token BY <1>2 DEF Numbered
  <2>3. QED BY <1>3, <2>1, <2>2 DEF VideoTyped
<1>7. v5' \subseteq Video!Session(Video!Token)
  <2>1. v5' \subseteq v5 \/ \E c \in v1.chains : c.at = "creating" /\ v5' = v5 \cup {Video!Made(c)}
    BY DEF Video!Next, Video!vars, Video!Play, Video!Seek, Video!ChangeAudio, Video!ApplyStyle,
     Video!SelectTrack, Video!LeavePane, Video!EnterPane, Video!Stopped, Video!Probed, Video!ProbeFailed,
     Video!Created, Video!CreateFailed, Video!RecoveryFires, Video!MediaError, Video!Plays,
     Video!SegmentMissing, Video!Polled, Video!ReportedMissing, Video!Lose
  <2>2. ASSUME NEW c \in v1.chains, c.at = "creating" PROVE Video!Made(c) \in Video!Session(Video!Token)
    <3>1. c \in Video!Chain(Nat) BY <1>2, PlayerFields
    <3>2. c.token \in Video!Token BY <1>2, <1>3 DEF Numbered, KnownChain
    <3>3. c.item \in Videos BY <1>2, <2>2, <3>1 DEF Video!ChainsApart, Video!Chain
    <3>4. QED BY <3>1, <3>2, <3>3 DEF Video!Made, Video!Session, Video!Chain
  <2>3. QED BY <2>1, <2>2 DEF VideoTyped
<1>8. QED BY <1>1, <1>4, <1>5, <1>6, <1>7 DEF VideoTyped

(* No token was given out yet.                                              *)
LEMMA VideoTypedInit == VideoTokens \in Nat /\ Video!Init => VideoTyped
<1> SUFFICES ASSUME VideoTokens \in Nat, Video!Init PROVE VideoTyped OBVIOUS
<1>1. /\ Made(v1, PlayerNames) /\ v1.token = 0 /\ v1.chains = {} /\ v1.stops = {} /\ v1.local = None
  BY DEF Video!Init, Made, PlayerNames
<1>2. Capped(v1) BY <1>1 DEF Capped, Numbered
<1>3. QED BY <1>2 DEF VideoTyped, Video!Init

(* With the inductive invariant these are the types.                        *)
LEMMA VideoIsTyped == ASSUME VideoTokens \in Nat, Video!IInv, VideoTyped PROVE Video!TypeOK
<1>1. v1 \in Video!Player(Nat) /\ Numbered(v1) /\ v1.token <= VideoTokens
  BY DEF Video!IInv, VideoTyped, Capped
<1>2. v1 \in Video!Player(Video!Token) BY <1>1, NumberedIsTyped
<1>3. QED BY <1>2 DEF VideoTyped, Video!TypeOK

-----------------------------------------------------------------------------
(* The types of the other parts are a conjunct of their invariants.         *)
LEMMA OthersTyped ==
  /\ Queue!IInv => Queue!TypeOK
  /\ Playback!IInv => Playback!TypeOK
  /\ Playing!IInv => Playing!TypeOK
  /\ Library!IInv => Library!TypeOK
  /\ Waveform!IInv => Waveform!TypeOK
  /\ Scan!IInv => Scan!TypeOK
  /\ Thumbs!IInv => Thumbs!TypeOK
  /\ Hls!IInv => Hls!TypeOK
  /\ Cache!IInv => Cache!TypeOK
BY DEF Queue!IInv, Playback!IInv, Playing!IInv, Library!IInv, Waveform!IInv, Scan!IInv, Scan!Typed,
   Thumbs!IInv, Hls!IInv, Cache!IInv

(* The parts there are.                                                     *)
Known == part \in {"playlists", "queue", "playback", "playing", "library", "search", "video",
                   "subtitles", "waveform", "scan", "thumbs", "browse", "hls", "cache"}

TypesInv ==
  /\ Known
  /\ part = "playlists" => PlaylistsTyped
  /\ part = "search" => SearchTyped
  /\ part = "browse" => Browse!TypeOK
  /\ part = "subtitles" => Subtitles!TypeOK
  /\ part = "video" => VideoTyped

(* Every variable of every part has its type, whatever the parts do: a      *)
(* position stays in its list, a token and a count below its bound, and a   *)
(* session, a request and a result belong to what they are kept for.        *)
THEOREM PartsStayTyped == Spec => []TypeOK
<1>1. Init => TypesInv
  <2> SUFFICES ASSUME Init PROVE TypesInv OBVIOUS
  <2>1. Known BY DEF Init, Known
  <2>2. part = "playlists" => PlaylistsTyped
    BY PlaylistsTypedInit, PartsAssumption DEF PartsAssumption, Init
  <2>3. part = "search" => SearchTyped
    BY SearchTypedInit, PartsAssumption DEF PartsAssumption, BoundsAreNatural, Init
  <2>4. part = "browse" => Browse!TypeOK
    BY BrowseTypedInit, PartsAssumption DEF PartsAssumption, BoundsAreNatural, Init
  <2>5. part = "subtitles" => Subtitles!TypeOK
    BY SubtitlesTypedInit, PartsAssumption DEF PartsAssumption, Init
  <2>6. part = "video" => VideoTyped
    BY VideoTypedInit, PartsAssumption DEF PartsAssumption, BoundsAreNatural, Init
  <2>7. QED BY <2>1, <2>2, <2>3, <2>4, <2>5, <2>6 DEF TypesInv
<1>2. PartsInv /\ TypesInv /\ [Next]_vars => TypesInv'
  <2> SUFFICES ASSUME PartsInv, TypesInv, [Next]_vars PROVE TypesInv' OBVIOUS
  <2>1. Known' BY StepOfPart DEF Known, TypesInv
  <2>2. part = "playlists" => PlaylistsTyped'
    BY StepOfPart, PlaylistsTypedNext, PartsAssumption DEF PartsAssumption, TypesInv
  <2>3. part = "search" => SearchTyped'
    BY StepOfPart, SearchTypedNext, PartsAssumption
    DEF PartsAssumption, BoundsAreNatural, TypesInv, PartsInv, SearchInv
  <2>4. part = "browse" => Browse!TypeOK'
    BY StepOfPart, BrowseTypedNext, PartsAssumption DEF PartsAssumption, BoundsAreNatural, TypesInv
  <2>5. part = "subtitles" => Subtitles!TypeOK'
    BY StepOfPart, SubtitlesTypedNext, PartsAssumption DEF PartsAssumption, TypesInv
  <2>6. part = "video" => VideoTyped'
    BY StepOfPart, VideoTypedNext, PartsAssumption
    DEF PartsAssumption, BoundsAreNatural, TypesInv, PartsInv, VideoInv
  <2>7. QED BY <2>1, <2>2, <2>3, <2>4, <2>5, <2>6, StepOfPart DEF TypesInv
<1>3. PartsInv /\ TypesInv => TypeOK
  <2> SUFFICES ASSUME PartsInv, TypesInv PROVE TypeOK OBVIOUS
  <2>1. part = "playlists" => Playlists!TypeOK BY DEF TypesInv, PlaylistsTyped
  <2>2. part = "search" => Search!TypeOK BY SearchTypes DEF TypesInv, PartsInv, SearchInv
  <2>3. part = "browse" => Browse!TypeOK BY DEF TypesInv
  <2>4. part = "subtitles" => Subtitles!TypeOK BY DEF TypesInv
  <2>5. part = "video" => Video!TypeOK
    BY VideoIsTyped, PartsAssumption
    DEF PartsAssumption, BoundsAreNatural, TypesInv, PartsInv, VideoInv
  <2>6. /\ part = "queue" => Queue!TypeOK
        /\ part = "playback" => Playback!TypeOK
        /\ part = "playing" => Playing!TypeOK
        /\ part = "library" => Library!TypeOK
        /\ part = "waveform" => Waveform!TypeOK
        /\ part = "scan" => Scan!TypeOK
        /\ part = "thumbs" => Thumbs!TypeOK
        /\ part = "hls" => Hls!TypeOK
        /\ part = "cache" => Cache!TypeOK
    BY OthersTyped
    DEF PartsInv, QueueInv, PlaybackInv, PlayingInv, LibraryInv, WaveformInv, ScanInv, ThumbsInv,
        HlsInv, CacheInv
  <2>7. Known BY DEF TypesInv
  <2>8. CASE part = "playlists" BY <2>1, <2>8 DEF TypeOK
  <2>9. CASE part = "queue" BY <2>6, <2>9 DEF TypeOK
  <2>10. CASE part = "playback" BY <2>6, <2>10 DEF TypeOK
  <2>11. CASE part = "playing" BY <2>6, <2>11 DEF TypeOK
  <2>12. CASE part = "library" BY <2>6, <2>12 DEF TypeOK
  <2>13. CASE part = "search" BY <2>2, <2>13 DEF TypeOK
  <2>14. CASE part = "video" BY <2>5, <2>14 DEF TypeOK
  <2>15. CASE part = "subtitles" BY <2>4, <2>15 DEF TypeOK
  <2>16. CASE part = "waveform" BY <2>6, <2>16 DEF TypeOK
  <2>17. CASE part = "scan" BY <2>6, <2>17 DEF TypeOK
  <2>18. CASE part = "thumbs" BY <2>6, <2>18 DEF TypeOK
  <2>19. CASE part = "browse" BY <2>3, <2>19 DEF TypeOK
  <2>20. CASE part = "hls" BY <2>6, <2>20 DEF TypeOK
  <2>21. CASE part = "cache" BY <2>6, <2>21 DEF TypeOK
  <2>22. QED
    BY <2>7, <2>8, <2>9, <2>10, <2>11, <2>12, <2>13, <2>14, <2>15, <2>16, <2>17, <2>18, <2>19, <2>20, <2>21 DEF Known
<1>4. QED BY <1>1, <1>2, <1>3, PartsKept, PTL DEF Spec
=============================================================================
