----------------------------- MODULE PageProofs -----------------------------
(***************************************************************************)
(* The parts of PageParts keep their inductive invariants, for all          *)
(* constants that the assumptions of the parts allow.  PartsProofs carries  *)
(* them over to the behaviours of Parts.                                    *)
(*                                                                         *)
(* Each part has its lemmas, then ...Init and ...Next: its invariant IInv   *)
(* holds at the start and every step of the part keeps it.                  *)
(***************************************************************************)
EXTENDS PageParts, Integers, FiniteSetTheorems, SequenceTheorems, TLAPS

-----------------------------------------------------------------------------
(* Saved playlists.                                                         *)
LEMMA PlaylistsInit == Playlists!NamesAndContents /\ Playlists!Init => Playlists!IInv
  BY DEF Playlists!NamesAndContents, Playlists!Init, Playlists!Blank, Playlists!List,
     Playlists!NoAction, Playlists!IInv, Playlists!Typed, Playlists!DiskFollows,
         Playlists!SignatureIsSaved, Playlists!CleanIsSigned

(* Adopting the entry of a name, or a playlist without one.                 *)
LEMMA AdoptKeeps ==
  ASSUME DOMAIN v4' = Names, DOMAIN v5' = Names, ~v10' => v4' = v5',
         NEW n \in Names \cup {None}, NEW m \in Names, NEW c,
         Playlists!Adopt(n, Playlists!List(m, c)), n # None => c = v4'[n],
         v7' = Playlists!NoAction \/ v7'.name \in Names
  PROVE  Playlists!IInv'
<1>1. /\ v1' = [name |-> m, songs |-> c]
      /\ v2' = [name |-> n, sig |-> v1'] /\ v3' = FALSE
      /\ v9' = {}
  BY DEF Playlists!Adopt, Playlists!List
<1>2. Playlists!Typed' BY <1>1 DEF Playlists!Typed, Playlists!List
<1>3. Playlists!DiskFollows' BY <1>1 DEF Playlists!DiskFollows
<1>4. Playlists!SignatureIsSaved' BY <1>1 DEF Playlists!SignatureIsSaved
<1>5. Playlists!CleanIsSigned' BY <1>1 DEF Playlists!CleanIsSigned
<1>6. QED BY <1>2, <1>3, <1>4, <1>5 DEF Playlists!IInv

(* Whether the write fails or not.                                          *)
LEMMA PersistKeeps ==
  ASSUME Playlists!IInv, DOMAIN v4' = Names, Playlists!Persist
  PROVE  DOMAIN v5' = Names /\ (~v10' => v4' = v5')
  BY DEF Playlists!Persist, Playlists!IInv, Playlists!Typed

(* Storing the active playlist under a name.                                *)
LEMMA StoreKeeps ==
  ASSUME Playlists!IInv, NEW n \in Names, NEW old, Playlists!StoreActive(n, old), v7' = Playlists!NoAction
  PROVE  Playlists!IInv'
<1>1. /\ v4' = Playlists!Upsert(n, v1.songs, old) /\ Playlists!Persist
      /\ Playlists!Adopt(n, Playlists!List(n, v1.songs))
  BY DEF Playlists!StoreActive
<1>2. DOMAIN v4' = Names /\ v4'[n] = v1.songs BY <1>1 DEF Playlists!Upsert
<1>3. DOMAIN v5' = Names /\ (~v10' => v4' = v5') BY <1>1, <1>2, PersistKeeps
<1>4. QED BY <1>1, <1>2, <1>3, AdoptKeeps

(* Nothing but the dialogs and what they will do is changed.                *)
LEMMA DialogKeeps ==
  ASSUME Playlists!IInv, UNCHANGED <<v1, v2, v9, v4, v5, v10>>, v3' = v3 \/ v3' = TRUE,
         v7' = Playlists!NoAction \/ v7' = v7 \/ v7'.name \in Names
  PROVE  Playlists!IInv'
  BY DEF Playlists!IInv, Playlists!Typed, Playlists!DiskFollows, Playlists!SignatureIsSaved,
     Playlists!CleanIsSigned

(* Saving and renaming, asked or not.                                       *)
LEMMA SaveKeeps ==
  ASSUME Playlists!IInv, NEW n \in Names, NEW skipAsk, Playlists!Save(n, skipAsk) \/ Playlists!Rename(n, skipAsk)
  PROVE  Playlists!IInv'
<1>1. CASE \E old : Playlists!StoreActive(n, old) /\ v7' = Playlists!NoAction
  BY <1>1, StoreKeeps
<1>2. ASSUME NEW kind, Playlists!Ask(kind, n) PROVE Playlists!IInv'
  <2>1. v7'.name = n /\ UNCHANGED <<v1, v2, v3, v9, v4, v5, v10>>
    BY <1>2 DEF Playlists!Ask, Playlists!lists, Playlists!storage
  <2>2. QED BY <2>1, DialogKeeps
<1>3. CASE UNCHANGED <<Playlists!lists, Playlists!storage, v7>>
  BY <1>3, DialogKeeps DEF Playlists!lists, Playlists!storage
<1>4. QED BY <1>1, <1>2, <1>3 DEF Playlists!Save, Playlists!Rename

(* Loading an entry, or a new playlist.                                     *)
LEMMA LoadKeeps ==
  ASSUME Playlists!NamesAndContents, Playlists!IInv, NEW n \in Names, Playlists!Load(n) \/ Playlists!LoadNew
  PROVE  Playlists!IInv'
<1>1. CASE Playlists!Load(n)
  <2>1. v4' = v4 /\ v5' = v5 /\ v10' = v10 /\ v7' = Playlists!NoAction
    BY <1>1 DEF Playlists!Load, Playlists!storage
  <2>2. CASE Playlists!Adopt(n, Playlists!List(n, v4[n]))
    BY <2>1, <2>2, AdoptKeeps DEF Playlists!IInv, Playlists!Typed, Playlists!DiskFollows
  <2>3. CASE UNCHANGED Playlists!lists BY <2>1, <2>3, DialogKeeps DEF Playlists!lists
  <2>4. QED BY <1>1, <2>2, <2>3 DEF Playlists!Load
<1>2. CASE Playlists!LoadNew
  <2>1. /\ v4' = v4 /\ v5' = v5 /\ v10' = v10 /\ v7' = Playlists!NoAction
        /\ Playlists!Adopt(None, Playlists!List(Default, Empty))
    BY <1>2 DEF Playlists!LoadNew, Playlists!storage
  <2>2. DOMAIN v4' = Names /\ DOMAIN v5' = Names /\ (~v10' => v4' = v5')
    BY <2>1 DEF Playlists!IInv, Playlists!Typed, Playlists!DiskFollows
  <2>3. Default \in Names BY DEF Playlists!NamesAndContents
  <2>4. QED BY <2>1, <2>2, <2>3, AdoptKeeps
<1>3. QED BY <1>1, <1>2

(* Either nothing would be discarded, or the dialog asks.                   *)
LEMMA DiscardAsks ==
  ASSUME Playlists!IInv, NEW kind, NEW n \in Names, NEW ACTION load, Playlists!Discarding(kind, n, load)
  PROVE  load \/ Playlists!IInv'
<1>1. CASE v1 = v2.sig BY <1>1 DEF Playlists!Discarding
<1>2. CASE v1 # v2.sig
  <2>1. v7'.name = n /\ v3' = TRUE /\ UNCHANGED <<v1, v2, v9, v4, v5, v10>>
    BY <1>2 DEF Playlists!Discarding, Playlists!storage
  <2>2. QED BY <2>1, DialogKeeps
<1>3. QED BY <1>1, <1>2

(* A file of an import is merged: the names it has are touched.             *)
LEMMA ImportKeeps ==
  ASSUME Playlists!IInv, Playlists!ImportFile
  PROVE  Playlists!IInv'
<1> DEFINE file == Head(v8)
<1>1. /\ Playlists!Merge(file)
      /\ Playlists!Persist \/ (v5' = v5 /\ v10' = (v10 \/ v4' # v4))
      /\ UNCHANGED <<v1, v2, v3, v7>>
  BY DEF Playlists!ImportFile
<1>2. \A n \in Names : n \notin v9' => Playlists!Named(file, n) = {}
  BY <1>1 DEF Playlists!Merge, Playlists!Named, Playlists!Range
<1>3. v9 \subseteq v9' BY <1>1 DEF Playlists!Merge
<1> HIDE DEF file
<1>4. DOMAIN v4' = Names /\ \A n \in Names : n \notin v9' => v4'[n] = v4[n]
  BY <1>1, <1>2 DEF Playlists!Merge
<1>5. DOMAIN v5' = Names /\ Playlists!DiskFollows'
  <2>1. CASE Playlists!Persist BY <1>4, <2>1, PersistKeeps DEF Playlists!DiskFollows
  <2>2. CASE v5' = v5 /\ v10' = (v10 \/ v4' # v4)
    BY <2>2 DEF Playlists!IInv, Playlists!Typed, Playlists!DiskFollows
  <2>3. QED BY <1>1, <2>1, <2>2
<1>6. QED BY <1>1, <1>3, <1>4, <1>5 DEF Playlists!IInv, Playlists!Typed,
    Playlists!SignatureIsSaved, Playlists!CleanIsSigned

(* Every action keeps what Playlists calls IInv.                            *)
LEMMA PlaylistsNext ==
  ASSUME Playlists!NamesAndContents, Playlists!IInv, [Playlists!Next]_(Playlists!vars)
  PROVE  Playlists!IInv'
<1>1. ASSUME NEW c \in Contents, Playlists!Edit(c) PROVE Playlists!IInv'
  <2>1. /\ v1' = [v1 EXCEPT !.songs = c] /\ v3' = (v1' # v2.sig)
        /\ UNCHANGED <<v2, v9, v4, v5, v10, v7>>
    BY <1>1 DEF Playlists!Edit, Playlists!storage
  <2>2. v1' = Playlists!List(v1.name, c)
    BY <2>1 DEF Playlists!IInv, Playlists!Typed, Playlists!List
  <2>3. Playlists!Typed' BY <2>1, <2>2 DEF Playlists!IInv, Playlists!Typed, Playlists!List
  <2>4. QED BY <2>1, <2>3 DEF Playlists!IInv, Playlists!DiskFollows,
      Playlists!SignatureIsSaved, Playlists!CleanIsSigned
<1>2. CASE Playlists!OpenDialog \/ Playlists!Cancel \/ \E d \in Playlists!Dialogs : Playlists!CloseDialog(d)
  BY <1>2, DialogKeeps
  DEF Playlists!OpenDialog, Playlists!Cancel, Playlists!CloseDialog, Playlists!lists,
      Playlists!storage
<1>3. CASE Playlists!SaveButton
  BY <1>3, SaveKeeps DEF Playlists!SaveButton, Playlists!IInv, Playlists!Typed
<1>4. ASSUME NEW n \in Names, Playlists!NameGiven(n) PROVE Playlists!IInv'
  BY <1>4, SaveKeeps DEF Playlists!NameGiven
<1>5. ASSUME NEW n \in Names, Playlists!LoadChosen(n) PROVE Playlists!IInv'
  BY <1>5, LoadKeeps, DiscardAsks DEF Playlists!LoadChosen
<1>6. CASE Playlists!NewChosen
  BY <1>6, LoadKeeps, DiscardAsks DEF Playlists!NewChosen, Playlists!NamesAndContents
<1>7. CASE Playlists!Confirm
  <2>1. v7.kind \in Playlists!ActionKinds BY <1>7 DEF Playlists!Confirm, Playlists!ActionKinds
  <2>2. v7.name \in Names
    BY <2>1
    DEF Playlists!NamesAndContents, Playlists!NoAction, Playlists!IInv, Playlists!Typed
  <2>3. QED BY <1>7, <2>2, SaveKeeps, LoadKeeps DEF Playlists!Confirm
<1>8. ASSUME NEW n \in Names, Playlists!Delete(n) PROVE Playlists!IInv'
  <2>1. /\ v4' = [v4 EXCEPT ![n] = None] /\ Playlists!Persist
        /\ UNCHANGED <<v1, v9, v7>>
        /\ IF v2.name = n THEN v2'.name = None /\ v3' = TRUE ELSE UNCHANGED <<v2, v3>>
    BY <1>8 DEF Playlists!Delete
  <2>2. DOMAIN v4' = Names BY <2>1 DEF Playlists!IInv, Playlists!Typed
  <2>3. DOMAIN v5' = Names /\ (~v10' => v4' = v5') BY <2>1, <2>2, PersistKeeps
  <2>4. QED BY <2>1, <2>3 DEF Playlists!IInv, Playlists!Typed, Playlists!DiskFollows,
      Playlists!SignatureIsSaved, Playlists!CleanIsSigned
<1>9. ASSUME NEW n \in Names, NEW song \in Contents, Playlists!RestoreRecent(n, song) PROVE Playlists!IInv'
  <2>1. UNCHANGED <<v4, v5, v10, v7>> BY <1>9 DEF Playlists!RestoreRecent, Playlists!storage
  <2>2. CASE Playlists!Adopt(n, Playlists!List(n, v4[n]))
    BY <2>1, <2>2, AdoptKeeps DEF Playlists!IInv, Playlists!Typed, Playlists!DiskFollows
  <2>3. CASE Playlists!Adopt(None, Playlists!List(Default, song))
    BY <2>1, <2>3, AdoptKeeps
    DEF Playlists!NamesAndContents, Playlists!IInv, Playlists!Typed, Playlists!DiskFollows
  <2>4. QED BY <1>9, <2>2, <2>3 DEF Playlists!RestoreRecent
<1>10. ASSUME NEW b \in Imports, Playlists!ImportFiles(b) PROVE Playlists!IInv'
  BY <1>10, DialogKeeps DEF Playlists!ImportFiles, Playlists!lists, Playlists!storage
<1>11. CASE Playlists!ImportFile BY <1>11, ImportKeeps
<1>12. CASE Playlists!Reload
  <2>1. /\ v1' = Playlists!List(Default, Empty) /\ v2' = [name |-> None, sig |-> v1']
        /\ v3' = FALSE /\ v4' = v5 /\ v5' = v5 /\ v7' = Playlists!NoAction /\ v9' = {}
    BY <1>12 DEF Playlists!Reload, Playlists!Blank
  <2>2. Playlists!Typed'
    BY <2>1 DEF Playlists!NamesAndContents, Playlists!List, Playlists!IInv, Playlists!Typed
  <2>3. QED BY <2>1, <2>2 DEF Playlists!IInv, Playlists!DiskFollows,
      Playlists!SignatureIsSaved, Playlists!CleanIsSigned
<1>13. CASE Playlists!OtherTab
  BY <1>13 DEF Playlists!OtherTab, Playlists!Stores, Playlists!lists, Playlists!IInv, Playlists!Typed,
     Playlists!DiskFollows, Playlists!SignatureIsSaved, Playlists!CleanIsSigned
<1>14. CASE UNCHANGED Playlists!vars BY <1>14, DialogKeeps DEF Playlists!vars
<1>15. QED
  BY <1>1, <1>2, <1>3, <1>4, <1>5, <1>6, <1>7, <1>8, <1>9, <1>10, <1>11, <1>12, <1>13, <1>14
  DEF Playlists!Next

-----------------------------------------------------------------------------
(* The media library pane.                                                  *)
LEMMA LibraryInit == Library!Init => Library!IInv
BY DEF Library!Init, Library!IInv, Library!TypeOK, Library!WaitsForRequested,
   Library!KeepsPolling, Library!PaintedUnlessDirty

(* An answer is of a folder and has songs below it.                         *)
LEMMA AnswerIsTyped ==
  ASSUME NEW s \in Library!Snapshots
  PROVE  /\ s.folder \in Folders /\ s.songs \subseteq SongsOf[s.folder] /\ s.songs \subseteq Library!Songs
         /\ s.complete \in BOOLEAN
BY DEF Library!Snapshots, Library!Songs

(* Every action keeps what MediaLibrary calls IInv.                         *)
LEMMA LibraryNext ==
  ASSUME Library!NoneIsNothing, Library!IInv, [Library!Next]_(Library!vars)
  PROVE  Library!IInv'
<1> USE DEF Library!IInv, Library!TypeOK, Library!WaitsForRequested, Library!KeepsPolling,
    Library!PaintedUnlessDirty, Library!Incomplete,
        Library!button, Library!screen, Library!folders
<1>1. ASSUME NEW f \in Folders, Library!Navigate(f) PROVE Library!IInv'
  <2>1. CASE Library!Reset(f)
    BY <1>1, <2>1 DEF Library!Navigate, Library!Reset, Library!Render, Library!Paint
  <2>2. CASE f = v2 BY <1>1, <2>2 DEF Library!Navigate, Library!Reset
  <2>3. QED BY <1>1, <2>1, <2>2 DEF Library!Navigate
<1>2. ASSUME NEW s \in Library!Snapshots, Library!Answer(s) PROVE Library!IInv'
  <2>1. v14 \cap s.songs \subseteq Library!Songs BY <1>2, AnswerIsTyped
  <2>2. v7' \in BOOLEAN BY <1>2 DEF Library!Answer
  <2>3. Library!TypeOK'
    BY <1>2, <2>1, <2>2, AnswerIsTyped DEF Library!Answer, Library!Render, Library!Paint
  <2>4. Library!WaitsForRequested' /\ Library!KeepsPolling'
    <3>1. CASE s.complete BY <1>2, <3>1 DEF Library!Answer, Library!NoneIsNothing
    <3>2. CASE ~s.complete
      <4>1. v10' = v9 /\ v9' = v9 /\ v4' = v4 /\ v11' = v11
        BY <1>2, <3>2 DEF Library!Answer
      <4>2. v7' <=> v4 /\ v11 BY <1>2, <3>2 DEF Library!Answer
      <4>3. QED BY <4>1, <4>2
    <3>3. QED BY <3>1, <3>2
  <2>5. Library!PaintedUnlessDirty' BY <1>2 DEF Library!Answer, Library!Render, Library!Paint
  <2>6. QED BY <2>3, <2>4, <2>5
<1>3. ASSUME NEW sel \in SUBSET Library!Songs, Library!Select(sel) PROVE Library!IInv'
  BY <1>3 DEF Library!Select
<1>4. CASE Library!Load
  BY <1>4 DEF Library!Load, Library!Render, Library!Paint, Library!NoneIsNothing
<1>5. CASE Library!Poll BY <1>5 DEF Library!Poll, Library!Fetch, Library!NoneIsNothing
<1>6. CASE Library!AnswerFails BY <1>6 DEF Library!AnswerFails
<1>7. CASE Library!Hide BY <1>7 DEF Library!Hide
<1>8. CASE Library!Show
  BY <1>8
  DEF Library!Show, Library!Paint, Library!ResumeUpdates, Library!Fetch, Library!NoneIsNothing
<1>9. CASE Library!Sort BY <1>9 DEF Library!Sort, Library!Render, Library!Paint
<1>10. CASE UNCHANGED Library!vars BY <1>10 DEF Library!vars
<1>11. QED BY <1>1, <1>2, <1>3, <1>4, <1>5, <1>6, <1>7, <1>8, <1>9, <1>10 DEF Library!Next

-----------------------------------------------------------------------------
(* File search.                                                             *)
USE DEF Search!NoneIsNothing

(* No search was started.                                                   *)
LEMMA SearchInit == Search!NoneIsNothing /\ Search!Init => Search!IInv
  BY DEF Search!Init, Search!IInv, Search!Typed, Search!ListenedTo, Search!ResultsLoaded

(* What a scan finds is among the rows.                                     *)
LEMMA MatchesAreRows ==
  ASSUME NEW p \in Folders, NEW q \in Queries
  PROVE  Matches[p][q] \subseteq Search!Rows
  BY DEF Search!Rows

(* Whoever gives up the request, the session and the results keeps it.      *)
LEMMA ResetKeeps ==
  ASSUME Search!Typed', v10' = None, v12' = FALSE, v4' = FALSE, Search!ResetSnapshot
  PROVE  Search!IInv'
  BY DEF Search!IInv, Search!ListenedTo, Search!ResultsLoaded, Search!ResetSnapshot

(* Giving up the search and keeping its results.                            *)
LEMMA StopKeeps ==
  ASSUME Search!NoneIsNothing, Search!IInv, Search!Typed', Search!Abort, Search!StopRun, UNCHANGED <<v2, v5, v7, v8, v9>>
  PROVE  Search!IInv'
  BY DEF Search!IInv, Search!ListenedTo, Search!ResultsLoaded, Search!Abort, Search!StopRun,
     Search!Shown

(* Every handler keeps the invariant.                                       *)
LEMMA SearchNext ==
  ASSUME Search!NoneIsNothing, Search!IInv, [Search!Next]_(Search!vars)
  PROVE  Search!IInv'
<1>1. ASSUME Search!Start PROVE Search!IInv'
  <2>1. v10 = None /\ v6 = None /\ ~v12
    BY <1>1 DEF Search!Start, Search!IInv, Search!ListenedTo
  <2>2. CASE v2 = None
    <3>1. Search!Typed'
      BY <1>1, <2>2
      DEF Search!Start, Search!IInv, Search!Typed, Search!ResetSnapshot, Search!fields
    <3>2. /\ v10' = None /\ v12' = FALSE /\ v4' = FALSE /\ Search!ResetSnapshot
      BY <1>1, <2>1, <2>2 DEF Search!Start, Search!IInv, Search!Typed
    <3>3. QED BY <3>1, <3>2, ResetKeeps
  <2>3. CASE v2 # None
    <3>1. /\ v2 \in Queries /\ v1 \in Folders BY <2>3 DEF Search!IInv, Search!Typed
    <3>2. /\ v5' = v1 /\ v2' = v2 /\ v8' = {} /\ v6' = None
          /\ v7' = FALSE /\ v9' = FALSE /\ v12' = FALSE /\ v4' = TRUE
          /\ v1' = v1 /\ v3' = v3
          /\ v10' = [path |-> v1, query |-> v2, left |-> Matches[v1][v2]]
      BY <1>1, <2>3 DEF Search!Start, Search!ResetSnapshot, Search!fields
    <3>3. Search!Reads(v10)'
      BY <3>1, <3>2, MatchesAreRows DEF Search!Reads, Search!Session, Search!Shown
    <3>4. QED BY <3>1, <3>2, <3>3 DEF Search!IInv, Search!Typed, Search!ListenedTo,
        Search!ResultsLoaded
  <2>4. QED BY <2>2, <2>3
<1>2. ASSUME Search!Stop \/ Search!LeavePane PROVE Search!IInv'
  <2>1. Search!Abort /\ Search!StopRun /\ UNCHANGED <<v2, v5, v7, v8, v9>>
    BY <1>2 DEF Search!Stop, Search!LeavePane, Search!fields
  <2>2. Search!Typed'
    BY <1>2
    DEF Search!Stop, Search!LeavePane, Search!fields, Search!Abort, Search!StopRun,
        Search!IInv, Search!Typed
  <2>3. QED BY <2>1, <2>2, StopKeeps
<1>3. ASSUME Search!Reset PROVE Search!IInv'
  <2>1. Search!Typed'
    BY <1>3 DEF Search!Reset, Search!Abort, Search!ResetSnapshot, Search!IInv, Search!Typed
  <2>2. QED BY <1>3, <2>1, ResetKeeps DEF Search!Reset, Search!Abort
<1>4. ASSUME NEW q \in Queries \cup {None}, Search!Change(q) PROVE Search!IInv'
  <2>1. CASE Search!Abort /\ v4' = FALSE /\ Search!ResetSnapshot
    <3>1. Search!Typed'
      BY <1>4, <2>1
      DEF Search!Change, Search!Abort, Search!ResetSnapshot, Search!IInv, Search!Typed
    <3>2. QED BY <2>1, <3>1, ResetKeeps DEF Search!Abort
  <2>2. CASE /\ q # None /\ ~v4 /\ ~v7
             /\ UNCHANGED <<Search!snapshot, v4, v10, v11, v12>>
    BY <1>4, <2>2
    DEF Search!Change, Search!snapshot, Search!IInv, Search!Typed, Search!ListenedTo,
        Search!ResultsLoaded
  <2>3. QED BY <1>4, <2>1, <2>2 DEF Search!Change
<1>5. ASSUME Search!EnterPane \/ \E p \in Folders : Search!Navigate(p) PROVE Search!IInv'
  <2>1. UNCHANGED <<v2, v4, v5, v6, v7, v8, v9, v10, v12>>
    BY <1>5 DEF Search!EnterPane, Search!Navigate, Search!snapshot
  <2>2. Search!Typed'
    BY <1>5, <2>1 DEF Search!EnterPane, Search!Navigate, Search!IInv, Search!Typed
  <2>3. QED BY <2>1, <2>2 DEF Search!IInv, Search!ListenedTo, Search!ResultsLoaded,
      Search!Reads, Search!Shown
<1>6. ASSUME Search!Poll PROVE Search!IInv'
  BY <1>6
  DEF Search!Poll, Search!fields, Search!snapshot, Search!IInv, Search!Typed,
      Search!ListenedTo, Search!ResultsLoaded, Search!Reads, Search!Shown
<1>7. ASSUME NEW batch \in SUBSET Search!Rows, Search!Answer(batch) PROVE Search!IInv'
  <2> DEFINE done == Search!Over(batch)
  <2>1. v4 /\ Search!Reads(v10) BY <1>7 DEF Search!Answer, Search!IInv, Search!ListenedTo
  <2>2. /\ v8' = v8 \cup batch /\ v7' = TRUE /\ v9' = ~done /\ v10' = None
        /\ v12' = ~done /\ v4' = ~done
        /\ UNCHANGED <<v1, v2, v3, v5>>
        /\ batch \subseteq v10.left /\ (done => batch = v10.left)
    BY <1>7, <2>1 DEF Search!Answer, Search!Over, Search!fields, Search!IInv, Search!Typed
  <2> HIDE DEF done
  <2>3. v8' \subseteq Search!Shown' /\ (done => v8' = Search!Shown')
    BY <2>1, <2>2 DEF Search!Reads, Search!Shown
  <2>4. ~done => v6' # None /\ Search!Reads(v6)'
    <3>1. SUFFICES ASSUME ~done PROVE v6' # None /\ Search!Reads(v6)'
      OBVIOUS
    <3>2. v6' = [v10 EXCEPT !.left = v10.left \ batch]
      BY <1>7, <2>2, <3>1 DEF Search!Answer
    <3>3. /\ v6' \in Search!Session /\ v6'.path = v10.path /\ v6'.query = v10.query
          /\ v6'.left = v10.left \ batch
      BY <2>1, <3>2 DEF Search!Reads, Search!Session
    <3>4. QED BY <2>1, <2>2, <3>3 DEF Search!Reads, Search!Shown
  <2>5. done => v6' = None BY <1>7, <2>2 DEF Search!Answer
  <2>6. v5 \in Folders /\ v2 \in Queries BY <2>1 DEF Search!IInv, Search!ListenedTo
  <2>7. QED BY <2>1, <2>2, <2>3, <2>4, <2>5, <2>6 DEF Search!IInv, Search!Typed,
      Search!ListenedTo, Search!ResultsLoaded
<1>8. ASSUME NEW r \in v11, Search!StaleAnswer(r) PROVE Search!IInv'
  BY <1>8
  DEF Search!StaleAnswer, Search!fields, Search!snapshot, Search!IInv, Search!Typed,
      Search!ListenedTo, Search!ResultsLoaded, Search!Reads, Search!Shown
<1>9. ASSUME Search!Fail PROVE Search!IInv'
  <2>1. Search!Typed'
    BY <1>9 DEF Search!Fail, Search!ResetSnapshot, Search!fields, Search!IInv, Search!Typed
  <2>2. QED BY <1>9, <2>1, ResetKeeps DEF Search!Fail
<1>10. CASE Search!ScanEnds
  BY <1>10
  DEF Search!ScanEnds, Search!fields, Search!snapshot, Search!IInv, Search!Typed,
      Search!ListenedTo, Search!ResultsLoaded, Search!Reads, Search!Shown
<1>11. CASE UNCHANGED Search!vars
  BY <1>11
  DEF Search!vars, Search!IInv, Search!Typed, Search!ListenedTo, Search!ResultsLoaded,
      Search!Reads, Search!Shown
<1>12. QED
  BY <1>1, <1>2, <1>3, <1>4, <1>5, <1>6, <1>7, <1>8, <1>9, <1>10, <1>11
  DEF Search!Next, Search!Answered

HIDE DEF Search!NoneIsNothing

-----------------------------------------------------------------------------
(* Music playback: every step of the walk goes through Ensured or           *)
(* SyncShuffle, which make an order over all positions where the present    *)
(* one is not, and place the cursor at the song that is played; every edit  *)
(* throws the order away.  A retry is remembered with its song and given up *)
(* with it.                                                                 *)
(* An order without repetition takes in every position.                     *)
LEMMA InjectionIsOnto ==
  ASSUME NEW n \in Nat, NEW p \in [1 .. n -> 1 .. n],
         \A i, j \in 1 .. n : p[i] = p[j] => i = j
  PROVE  {p[i] : i \in 1 .. n} = 1 .. n
<1>1. SUFFICES ASSUME NEW t \in 1 .. n, t \notin {p[i] : i \in 1 .. n} PROVE FALSE OBVIOUS
<1> DEFINE S == 1 .. n
<1>2. IsFiniteSet(S) /\ Cardinality(S) = n BY FS_Interval
<1>3. IsFiniteSet(S \ {t}) /\ Cardinality(S \ {t}) = n - 1 BY <1>2, FS_RemoveElement
<1>4. p \in [S -> S \ {t}] BY <1>1
<1>5. \E i, j \in S : i # j /\ p[i] = p[j]
  <2> DEFINE T == S \ {t}
  <2>1. IsFiniteSet(T) /\ Cardinality(T) < Cardinality(S) /\ p \in [S -> T]
    BY <1>2, <1>3, <1>4
  <2> HIDE DEF S, T
  <2>2. QED BY <1>2, <2>1, FS_PigeonHole
<1>6. QED BY <1>5

(* An order of n positions takes in each of them.                           *)
LEMMA OrderIsWhole ==
  ASSUME NEW n \in Nat, NEW p \in Playback!Orders(n)
  PROVE  p \in Seq(Nat) /\ Len(p) = n /\ Playback!Range(p) = 1 .. n /\ \A i \in 1 .. n : p[i] \in 1 .. n
<1>1. p \in [1 .. n -> 1 .. n] /\ \A i, j \in 1 .. n : p[i] = p[j] => i = j
  BY DEF Playback!Orders, Playback!IsInjective
<1>2. p \in Seq(1 .. n) /\ Len(p) = n BY <1>1
<1>3. p \in Seq(Nat) BY <1>2
<1>4. Playback!Range(p) = {p[i] : i \in 1 .. n} BY <1>1 DEF Playback!Range
<1>5. QED BY <1>1, <1>2, <1>3, <1>4, InjectionIsOnto

(* A walk: the order and the cursor in it.                                  *)
IsWalk(w) ==
  w \in [order : Seq(Nat), cursor : Nat] /\ w.cursor \in 0 .. Len(w.order)

(* A place that was found holds what was looked for.                        *)
LEMMA PlaceIsThere ==
  ASSUME NEW s, NEW x, Playback!Place(s, x) # 0
  PROVE  Playback!Place(s, x) \in DOMAIN s /\ s[Playback!Place(s, x)] = x
BY DEF Playback!Place

(* A new order takes in all positions and starts at the current one.        *)
LEMMA RebuiltAtSong ==
  ASSUME NEW n \in Nat, NEW at, NEW w \in Playback!Rebuilds(n, at)
  PROVE  /\ IsWalk(w) /\ Playback!IsOrder(w.order, n) /\ w.cursor \in {0, 1}
         /\ at \in 1 .. n => w.cursor = 1 /\ w.order[1] = at
<1>1. CASE at \in 1 .. n
  <2>1. PICK p \in Playback!Orders(n) : p[1] = at /\ w = [order |-> p, cursor |-> 1]
    BY <1>1 DEF Playback!Rebuilds
  <2>2. QED BY <1>1, <2>1, OrderIsWhole DEF IsWalk, Playback!IsOrder
<1>2. CASE at \notin 1 .. n
  <2>1. PICK p \in Playback!Orders(n) : w = [order |-> p, cursor |-> 0]
    BY <1>2 DEF Playback!Rebuilds
  <2>2. QED BY <1>2, <2>1, OrderIsWhole DEF IsWalk, Playback!IsOrder
<1>3. QED BY <1>1, <1>2

(* syncShuffleCursorForIndex leaves the cursor at the position.             *)
LEMMA SyncedAtSong ==
  ASSUME v1 \in Seq(QueueSongs), NEW w, IsWalk(w), NEW i \in 1 .. Len(v1),
         NEW s \in Playback!SyncShuffle(w, i)
  PROVE  /\ IsWalk(s)
         /\ v3 => Playback!IsOrder(s.order, Len(v1)) /\ s.cursor # 0 /\ s.order[s.cursor] = i
<1> DEFINE n == Len(v1)
<1>0. n \in Nat OBVIOUS
<1>1. CASE ~v3 BY <1>1 DEF Playback!SyncShuffle
<1>2. CASE v3
  <2>1. PICK b \in (IF Playback!IsOrder(w.order, n) THEN {w} ELSE Playback!Rebuilds(n, i)) :
          s \in IF Playback!Place(b.order, i) = 0 THEN Playback!Rebuilds(n, i)
                ELSE {[b EXCEPT !.cursor = Playback!Place(b.order, i)]}
    BY <1>2 DEF Playback!SyncShuffle
  <2>2. IsWalk(b) /\ Playback!IsOrder(b.order, n)
    BY <1>0, <2>1, RebuiltAtSong
  <2>3. CASE Playback!Place(b.order, i) = 0
    <3>1. s \in Playback!Rebuilds(n, i) BY <2>1, <2>3
    <3>2. QED BY <1>0, <3>1, RebuiltAtSong
  <2>4. CASE Playback!Place(b.order, i) # 0
    <3>1. s = [b EXCEPT !.cursor = Playback!Place(b.order, i)] BY <2>1, <2>4
    <3>2. Playback!Place(b.order, i) \in DOMAIN b.order /\ b.order[Playback!Place(b.order, i)] = i
      BY <2>4, PlaceIsThere
    <3>3. b \in [order : Seq(Nat), cursor : Nat] BY <2>2 DEF IsWalk
    <3>4. Playback!Place(b.order, i) \in 1 .. Len(b.order) BY <3>2, <3>3
    <3>5. QED BY <2>2, <2>4, <3>1, <3>2, <3>3, <3>4 DEF IsWalk
  <2>5. QED BY <2>3, <2>4
<1>3. QED BY <1>1, <1>2

(* ensureShuffleState: an order over all positions.                         *)
LEMMA EnsuredIsWhole ==
  ASSUME Playback!TypeOK, v1 \in Seq(QueueSongs), NEW w \in Playback!Ensured(v2)
  PROVE  IsWalk(w) /\ Playback!IsOrder(w.order, Len(v1))
<1>1. CASE Playback!IsOrder(v5, Len(v1)) BY <1>1 DEF Playback!Ensured, Playback!TypeOK, IsWalk
<1>2. CASE ~Playback!IsOrder(v5, Len(v1))
  <2>1. w \in Playback!Rebuilds(Len(v1), v2) /\ Len(v1) \in Nat BY <1>2 DEF Playback!Ensured
  <2>2. QED BY <2>1, RebuiltAtSong
<1>3. QED BY <1>1, <1>2

(* An order leads to positions of the playlist.                             *)
LEMMA OrderHasPlaces ==
  ASSUME NEW n \in Nat, NEW o \in Seq(Nat), Playback!IsOrder(o, n), NEW c \in 1 .. n
  PROVE  o[c] \in 1 .. n
<1>1. DOMAIN o = 1 .. n BY DEF Playback!IsOrder
<1>2. o[c] \in Playback!Range(o) BY <1>1 DEF Playback!Range
<1>3. QED BY <1>2 DEF Playback!IsOrder

(* The position that comes next is one of the playlist, or none; and the    *)
(* walk is whole, or there is no song.                                      *)
IsStep(s) ==
  /\ s.index \in 0 .. Len(v1) /\ IsWalk(s.walk)
  /\ v3 => Playback!IsOrder(s.walk.order, Len(v1)) \/ s.walk.order = <<>>

(* Step makes one of a walk and a position.                                 *)
LEMMA StepIsStep ==
  ASSUME v1 \in Seq(QueueSongs), NEW w, IsWalk(w), NEW i \in 0 .. Len(v1),
         NEW c \in 0 .. Len(w.order),
         v3 => Playback!IsOrder(w.order, Len(v1)) \/ w.order = <<>>
  PROVE  IsStep(Playback!Step(w, i, c)) /\ Playback!Step(w, i, c).index = i
<1> DEFINE u == [w EXCEPT !.cursor = c]
<1>1. w \in [order : Seq(Nat), cursor : Nat] /\ Len(w.order) \in Nat /\ c \in Nat BY DEF IsWalk
<1>2. u \in [order : Seq(Nat), cursor : Nat] /\ u.order = w.order /\ u.cursor = c BY <1>1
<1>3. IsWalk(u) BY <1>2 DEF IsWalk
<1>4. Playback!Step(w, i, c).walk = u /\ Playback!Step(w, i, c).index = i BY DEF Playback!Step
<1> HIDE DEF u
<1>5. QED BY <1>2, <1>3, <1>4 DEF IsStep

(* What comes next, in any mode, is a step.                                 *)
LEMMA NextIsStep ==
  ASSUME Playback!TypeOK, v1 \in Seq(QueueSongs), NEW s \in Playback!NextIndexes
  PROVE  IsStep(s)
<1> DEFINE n == Len(v1)
<1>0. n \in Nat /\ v2 \in 0 .. n BY DEF Playback!TypeOK
<1>1. CASE n = 0
  <2> DEFINE e == [order |-> <<>>, cursor |-> 0]
  <2>1. s = Playback!Step(e, 0, 0) BY <1>1 DEF Playback!NextIndexes
  <2>2. IsWalk(e) /\ e.order = <<>> /\ 0 \in 0 .. Len(e.order) BY DEF IsWalk
  <2>3. 0 \in 0 .. n BY <1>0
  <2> HIDE DEF e
  <2>4. QED BY <2>1, <2>2, <2>3, StepIsStep
<1>2. CASE n # 0 /\ v3
  <2>1. PICK w \in Playback!Ensured(v2) :
          s = IF w.cursor < n THEN Playback!Step(w, w.order[w.cursor + 1], w.cursor + 1)
              ELSE IF v4 THEN Playback!Step(w, w.order[1], 1) ELSE Playback!Step(w, 0, w.cursor)
    BY <1>2 DEF Playback!NextIndexes
  <2>2. IsWalk(w) /\ Playback!IsOrder(w.order, n) BY <2>1, EnsuredIsWhole
  <2>3. w.order \in Seq(Nat) /\ Len(w.order) = n /\ w.cursor \in 0 .. n
    BY <2>2 DEF IsWalk, Playback!IsOrder
  <2>4. \A c \in 1 .. n : w.order[c] \in 1 .. n BY <1>0, <2>2, <2>3, OrderHasPlaces
  <2>5. \A c \in 1 .. n : IsStep(Playback!Step(w, w.order[c], c))
    <3> SUFFICES ASSUME NEW c \in 1 .. n PROVE IsStep(Playback!Step(w, w.order[c], c)) OBVIOUS
    <3>1. w.order[c] \in 0 .. n /\ c \in 0 .. Len(w.order) BY <2>3, <2>4
    <3>2. QED BY <2>2, <3>1, StepIsStep
  <2>6. IsStep(Playback!Step(w, 0, w.cursor))
    <3>1. 0 \in 0 .. n /\ w.cursor \in 0 .. Len(w.order) BY <1>0, <2>3
    <3>2. QED BY <2>2, <3>1, StepIsStep
  <2>7. CASE w.cursor < n
    <3>1. s = Playback!Step(w, w.order[w.cursor + 1], w.cursor + 1) BY <2>1, <2>7
    <3>2. w.cursor + 1 \in 1 .. n BY <1>0, <2>3, <2>7
    <3>3. QED BY <3>1, <3>2, <2>5
  <2>8. CASE ~(w.cursor < n)
    <3>1. s = Playback!Step(w, w.order[1], 1) \/ s = Playback!Step(w, 0, w.cursor) BY <2>1, <2>8
    <3>2. 1 \in 1 .. n BY <1>0, <1>2
    <3>3. QED BY <3>1, <3>2, <2>5, <2>6
  <2>9. QED BY <2>7, <2>8
<1>3. CASE n # 0 /\ ~v3
  <2>1. PICK i \in 0 .. n : s = Playback!Step(Playback!Walk, i, v6)
    BY <1>0, <1>3 DEF Playback!NextIndexes
  <2>2. IsWalk(Playback!Walk) /\ v6 \in 0 .. Len(Playback!Walk.order)
    BY DEF Playback!TypeOK, Playback!Walk, IsWalk
  <2>3. QED BY <1>3, <2>1, <2>2, StepIsStep
<1>4. QED BY <1>1, <1>2, <1>3

(* What came before is one, and there is one unless the list is empty.      *)
LEMMA PreviousIsStep ==
  ASSUME Playback!TypeOK, v1 \in Seq(QueueSongs), NEW s \in Playback!PreviousIndexes
  PROVE  IsStep(s) /\ (s.index = 0 => Len(v1) = 0 /\ s.walk.order = <<>>)
<1> DEFINE n == Len(v1)
<1>0. n \in Nat /\ v2 \in 0 .. n BY DEF Playback!TypeOK
<1>1. CASE n = 0
  <2> DEFINE e == [order |-> <<>>, cursor |-> 0]
  <2>1. s = Playback!Step(e, 0, 0) BY <1>1 DEF Playback!PreviousIndexes
  <2>2. IsWalk(e) /\ e.order = <<>> /\ 0 \in 0 .. Len(e.order) BY DEF IsWalk
  <2>3. 0 \in 0 .. n BY <1>0
  <2>4. Playback!Step(e, 0, 0).walk.order = <<>> BY DEF Playback!Step
  <2> HIDE DEF e
  <2>5. QED BY <1>1, <2>1, <2>2, <2>3, <2>4, StepIsStep
<1>2. CASE n # 0 /\ v3
  <2>1. PICK w \in Playback!Ensured(v2) :
          s = IF w.cursor > 1 THEN Playback!Step(w, w.order[w.cursor - 1], w.cursor - 1)
              ELSE IF w.cursor = 1 /\ v4 THEN Playback!Step(w, w.order[n], n) ELSE Playback!Step(w, w.order[1], 1)
    BY <1>2 DEF Playback!PreviousIndexes
  <2>2. IsWalk(w) /\ Playback!IsOrder(w.order, n) BY <2>1, EnsuredIsWhole
  <2>3. w.order \in Seq(Nat) /\ Len(w.order) = n /\ w.cursor \in 0 .. n
    BY <2>2 DEF IsWalk, Playback!IsOrder
  <2>4. \A c \in 1 .. n : w.order[c] \in 1 .. n BY <1>0, <2>2, <2>3, OrderHasPlaces
  <2>5. \A c \in 1 .. n : IsStep(Playback!Step(w, w.order[c], c)) /\ Playback!Step(w, w.order[c], c).index # 0
    <3> SUFFICES ASSUME NEW c \in 1 .. n
                 PROVE  IsStep(Playback!Step(w, w.order[c], c)) /\ Playback!Step(w, w.order[c], c).index # 0
      OBVIOUS
    <3>1. w.order[c] \in 0 .. n /\ w.order[c] # 0 /\ c \in 0 .. Len(w.order) BY <2>3, <2>4
    <3>2. QED BY <2>2, <3>1, StepIsStep
  <2>6. \E c \in 1 .. n : s = Playback!Step(w, w.order[c], c)
    <3>1. n \in 1 .. n /\ 1 \in 1 .. n BY <1>0, <1>2
    <3>2. w.cursor > 1 => w.cursor - 1 \in 1 .. n BY <1>0, <2>3
    <3>3. QED BY <2>1, <3>1, <3>2
  <2>7. QED BY <2>5, <2>6
<1>3. CASE n # 0 /\ ~v3
  <2>1. PICK i \in 1 .. n : s = Playback!Step(Playback!Walk, i, v6)
    BY <1>0, <1>3 DEF Playback!PreviousIndexes
  <2>2. IsWalk(Playback!Walk) /\ v6 \in 0 .. Len(Playback!Walk.order)
    BY DEF Playback!TypeOK, Playback!Walk, IsWalk
  <2>3. i \in 0 .. n /\ i # 0 BY <1>0
  <2>4. QED BY <1>3, <2>1, <2>2, <2>3, StepIsStep
<1>4. QED BY <1>1, <1>2, <1>3

(* The playlist is a sequence of songs.                                     *)
LEMMA SongsAreListed ==
  ASSUME Playback!ListsAndLimit, Playback!TypeOK PROVE v1 \in Seq(QueueSongs)
BY DEF Playback!ListsAndLimit, Playback!TypeOK

(* Playing a position moves the cursor to it.                               *)
LEMMA PlayKeeps ==
  ASSUME Playback!ListsAndLimit, Playback!IInv, NEW w, IsWalk(w), NEW i \in 1 .. Len(v1), Playback!Play(w, i)
  PROVE  Playback!IInv'
<1>1. v1 \in Seq(QueueSongs) /\ v1[i] \in QueueSongs BY SongsAreListed DEF Playback!IInv
<1>2. PICK s \in Playback!SyncShuffle(w, i) : v5' = s.order /\ v6' = s.cursor
  BY DEF Playback!Play
<1>3. IsWalk(s) /\ (v3 => Playback!IsOrder(s.order, Len(v1)) /\ s.cursor # 0 /\ s.order[s.cursor] = i)
  BY <1>1, SyncedAtSong
<1>4. v2' = i /\ v1' = v1 /\ v3' = v3 /\ v4' = v4 /\ v7' = 0
      /\ v8' = v1[i] /\ v9' = None /\ v10' = "loading"
  BY DEF Playback!Play, Playback!modes
<1>5. Playback!TypeOK'
  BY <1>1, <1>2, <1>3, <1>4 DEF Playback!IInv, Playback!TypeOK, IsWalk, Playback!ListsAndLimit
<1>6. Playback!WalkIsAtSong' BY <1>2, <1>3, <1>4 DEF Playback!WalkIsAtSong, Playback!IsOrder
<1>7. QED BY <1>4, <1>5, <1>6 DEF Playback!IInv, Playback!RetryIsCurrents

(* Clearing the player leaves no current song and no retry.                 *)
LEMMA ClearKeeps ==
  ASSUME Playback!ListsAndLimit, Playback!IInv, NEW w, IsWalk(w), Playback!Clear(w),
         v3 => Playback!IsOrder(w.order, Len(v1)) \/ w.order = <<>>
  PROVE  Playback!IInv'
<1>1. v1 \in Seq(QueueSongs) BY SongsAreListed DEF Playback!IInv
<1>2. v2' = 0 /\ v1' = v1 /\ v3' = v3 /\ v4' = v4 /\ v7' = 0
      /\ v8' = None /\ v9' = None /\ v10' = "empty" /\ v5' = w.order
      /\ v6' = w.cursor
  BY DEF Playback!Clear, Playback!ClearLoad, Playback!modes
<1>3. Playback!TypeOK'
  BY <1>1, <1>2 DEF Playback!IInv, Playback!TypeOK, IsWalk, Playback!ListsAndLimit
<1>4. Playback!WalkIsAtSong' BY <1>2 DEF Playback!WalkIsAtSong, Playback!IsOrder
<1>5. QED BY <1>2, <1>3, <1>4 DEF Playback!IInv, Playback!RetryIsCurrents

(* The next song, or the end.                                               *)
LEMMA PlayNextKeeps ==
  ASSUME Playback!ListsAndLimit, Playback!IInv, Playback!PlayNext
  PROVE  Playback!IInv'
<1>1. v1 \in Seq(QueueSongs) BY SongsAreListed DEF Playback!IInv
<1>2. PICK s \in Playback!NextIndexes : IF s.index = 0 THEN Playback!Clear(s.walk) ELSE Playback!Play(s.walk, s.index)
  BY DEF Playback!PlayNext
<1>3. IsStep(s) BY <1>1, NextIsStep DEF Playback!IInv
<1>4. CASE s.index = 0 BY <1>2, <1>3, <1>4, ClearKeeps DEF IsStep
<1>5. CASE s.index # 0
  <2>1. s.index \in 1 .. Len(v1) /\ IsWalk(s.walk) /\ Playback!Play(s.walk, s.index)
    BY <1>1, <1>2, <1>3, <1>5 DEF IsStep
  <2>2. QED BY <2>1, PlayKeeps
<1>6. QED BY <1>4, <1>5

(* The previous song, or none in an empty list.                             *)
LEMMA PlayPreviousKeeps ==
  ASSUME Playback!ListsAndLimit, Playback!IInv, Playback!PlayPrevious
  PROVE  Playback!IInv'
<1>1. v1 \in Seq(QueueSongs) BY SongsAreListed DEF Playback!IInv
<1>2. PICK s \in Playback!PreviousIndexes :
        \/ s.index # 0 /\ Playback!Play(s.walk, s.index)
        \/ s.index = 0 /\ v5' = s.walk.order /\ v6' = s.walk.cursor
           /\ UNCHANGED <<Playback!place, Playback!modes, Playback!load>>
  BY DEF Playback!PlayPrevious
<1>3. IsStep(s) /\ (s.index = 0 => Len(v1) = 0 /\ s.walk.order = <<>>)
  BY <1>1, PreviousIsStep DEF Playback!IInv
<1>4. CASE s.index = 0
  <2>1. v5' = <<>> /\ v6' \in Nat /\ v6' = 0 BY <1>2, <1>3, <1>4 DEF IsStep, IsWalk
  <2>2. UNCHANGED <<Playback!place, Playback!modes, Playback!load>> BY <1>2, <1>4
  <2>3. QED
    BY <2>1, <2>2
    DEF Playback!IInv, Playback!TypeOK, Playback!WalkIsAtSong, Playback!RetryIsCurrents,
        Playback!Song, Playback!place, Playback!modes, Playback!load
<1>5. CASE s.index # 0
  <2>1. s.index \in 1 .. Len(v1) /\ IsWalk(s.walk) /\ Playback!Play(s.walk, s.index)
    BY <1>1, <1>2, <1>3, <1>5 DEF IsStep
  <2>2. QED BY <2>1, PlayKeeps
<1>6. QED BY <1>4, <1>5

(* The present order and cursor are a walk.                                 *)
LEMMA WalkIsWalk == ASSUME Playback!TypeOK PROVE IsWalk(Playback!Walk)
BY DEF Playback!TypeOK, Playback!Walk, IsWalk

(* The current position has a song.                                         *)
LEMMA SongTyped ==
  ASSUME Playback!ListsAndLimit, Playback!TypeOK
  PROVE  v2 # 0 => v2 \in DOMAIN v1 /\ Playback!Song(v2) = v1[v2] /\ Playback!Song(v2) \in QueueSongs
BY SongsAreListed DEF Playback!Song, Playback!TypeOK

(* Nothing is played at first.                                              *)
LEMMA PlaybackInit == Playback!ListsAndLimit /\ Playback!Init => Playback!IInv
BY DEF Playback!ListsAndLimit, Playback!Init, Playback!IInv, Playback!TypeOK,
   Playback!WalkIsAtSong, Playback!RetryIsCurrents

(* An edit throws the order away and finds the current song again, or clears. *)
LEMMA EditKeeps ==
  ASSUME Playback!ListsAndLimit, Playback!IInv, NEW list \in Edits, Playback!Edit(list)
  PROVE  Playback!IInv'
<1> DEFINE at == IF v2 = 0 THEN 0 ELSE Playback!Place(list, Playback!Song(v2))
<1>1. list \in Seq(QueueSongs) BY DEF Playback!ListsAndLimit
<1>2. v1' = list /\ v5' = <<>> /\ v6' = 0 /\ v2' = at /\ v3' = v3
      /\ v4' = v4
  BY DEF Playback!Edit, Playback!modes
<1>3. at # 0 => at \in 1 .. Len(list) /\ list[at] = Playback!Song(v2)
  <2>1. at # 0 => at \in DOMAIN list /\ list[at] = Playback!Song(v2) BY PlaceIsThere, Zenon
  <2>2. QED BY <1>1, <2>1
<1>4. CASE v2 # 0 /\ at = 0
  <2>1. Playback!ClearLoad BY <1>4 DEF Playback!Edit
  <2>2. QED
    BY <1>1, <1>2, <1>4, <2>1
    DEF Playback!ClearLoad, Playback!IInv, Playback!TypeOK, Playback!WalkIsAtSong,
        Playback!RetryIsCurrents, Playback!ListsAndLimit
<1>5. CASE ~(v2 # 0 /\ at = 0)
  <2>1. UNCHANGED Playback!load BY <1>5 DEF Playback!Edit
  <2>2. v2 = 0 => at = 0 /\ v9 = None BY DEF Playback!IInv, Playback!RetryIsCurrents
  <2>3. v2 # 0 => at # 0 /\ at \in 1 .. Len(list) /\ list[at] = Playback!Song(v2)
    BY <1>3, <1>5
  <2>4. at \in 0 .. Len(list) BY <1>1, <2>2, <2>3
  <2>5. Playback!TypeOK' BY <1>2, <2>1, <2>4 DEF Playback!load, Playback!IInv, Playback!TypeOK
  <2>6. Playback!RetryIsCurrents'
    <3>1. v9' = v9 BY <2>1 DEF Playback!load
    <3>2. v9 # None => v2 # 0 /\ v9 = Playback!Song(v2)
      BY DEF Playback!IInv, Playback!RetryIsCurrents
    <3>3. v2 # 0 => Playback!Song(at)' = list[at]
      BY <1>1, <1>2, <2>3 DEF Playback!Song
    <3> HIDE DEF at
    <3>4. QED BY <1>2, <2>3, <3>1, <3>2, <3>3 DEF Playback!RetryIsCurrents, Playback!Song
  <2>7. QED BY <1>2, <2>5, <2>6 DEF Playback!IInv, Playback!WalkIsAtSong
<1>6. QED BY <1>4, <1>5

(* Every step keeps the invariant.                                          *)
LEMMA PlaybackNext ==
  ASSUME Playback!ListsAndLimit, Playback!IInv, [Playback!Next]_(Playback!vars)
  PROVE  Playback!IInv'
<1>0. Playback!TypeOK /\ IsWalk(Playback!Walk) /\ v1 \in Seq(QueueSongs)
  BY WalkIsWalk, SongsAreListed DEF Playback!IInv
<1>1. CASE Playback!NextButton BY <1>1, PlayNextKeeps DEF Playback!NextButton
<1>2. CASE Playback!PlayPrevious BY <1>2, PlayPreviousKeeps
<1>3. CASE Playback!PlayButton
  <2>1. CASE v2 = 0
    <3>1. v1 # <<>> /\ Playback!Play(Playback!Walk, 1) BY <1>3, <2>1 DEF Playback!PlayButton
    <3>2. 1 \in 1 .. Len(v1) BY <1>0, <3>1
    <3>3. QED BY <1>0, <3>1, <3>2, PlayKeeps
  <2>2. CASE v2 # 0
    BY <1>3, <2>2
    DEF Playback!PlayButton, Playback!place, Playback!modes, Playback!walk, Playback!IInv,
        Playback!TypeOK, Playback!WalkIsAtSong, Playback!RetryIsCurrents
  <2>3. QED BY <2>1, <2>2
<1>4. CASE Playback!PauseButton
  BY <1>4
  DEF Playback!PauseButton, Playback!place, Playback!modes, Playback!walk, Playback!IInv,
      Playback!TypeOK, Playback!WalkIsAtSong, Playback!RetryIsCurrents
<1>5. CASE Playback!ToggleShuffle
  <2>1. UNCHANGED <<Playback!place, v4, Playback!load>> /\ v3' \in BOOLEAN
    BY <1>0, <1>5 DEF Playback!ToggleShuffle, Playback!TypeOK
  <2>2. CASE v3
    <3>1. v5' = <<>> /\ v6' = 0 BY <1>5, <2>2 DEF Playback!ToggleShuffle
    <3>2. QED
      BY <2>1, <3>1
      DEF Playback!place, Playback!load, Playback!IInv, Playback!TypeOK,
          Playback!WalkIsAtSong, Playback!RetryIsCurrents, Playback!Song
  <2>3. CASE ~v3
    <3>1. PICK w \in Playback!Rebuilds(Len(v1), v2) : v5' = w.order /\ v6' = w.cursor
      BY <1>5, <2>3 DEF Playback!ToggleShuffle
    <3>2. Len(v1) \in Nat /\ v2 \in 0 .. Len(v1) BY <1>0 DEF Playback!TypeOK
    <3>3. IsWalk(w) /\ Playback!IsOrder(w.order, Len(v1))
          /\ (v2 \in 1 .. Len(v1) => w.cursor = 1 /\ w.order[1] = v2)
      BY <3>2, RebuiltAtSong
    <3>4. v2 # 0 => v6' # 0 /\ v5'[v6'] = v2
      BY <3>1, <3>2, <3>3
    <3>5. Playback!TypeOK'
      BY <2>1, <3>1, <3>3
      DEF Playback!place, Playback!load, Playback!IInv, Playback!TypeOK, IsWalk
    <3>6. Playback!WalkIsAtSong'
      BY <2>1, <3>1, <3>3, <3>4 DEF Playback!place, Playback!WalkIsAtSong, Playback!IsOrder
    <3>7. QED BY <2>1, <3>5, <3>6 DEF Playback!place, Playback!load, Playback!IInv,
        Playback!RetryIsCurrents, Playback!Song
  <2>4. QED BY <2>2, <2>3
<1>6. CASE Playback!ToggleLoop
  <2>1. v4' \in BOOLEAN BY <1>6 DEF Playback!ToggleLoop
  <2>2. QED
    BY <1>6, <2>1
    DEF Playback!ToggleLoop, Playback!place, Playback!walk, Playback!load, Playback!IInv,
        Playback!TypeOK, Playback!WalkIsAtSong, Playback!RetryIsCurrents, Playback!Song
<1>7. ASSUME NEW i \in DOMAIN v1, Playback!PlayRow(i) PROVE Playback!IInv'
  <2>1. i \in 1 .. Len(v1) BY <1>0
  <2>2. QED BY <1>0, <1>7, <2>1, PlayKeeps DEF Playback!PlayRow
<1>8. ASSUME NEW list \in Edits, Playback!Edit(list) PROVE Playback!IInv' BY <1>8, EditKeeps
<1>9. CASE Playback!LoadedMetadata
  BY <1>0, <1>9, SongTyped
  DEF Playback!LoadedMetadata, Playback!ResetRetries, Playback!place, Playback!modes,
      Playback!walk, Playback!IInv, Playback!TypeOK,
     Playback!WalkIsAtSong, Playback!RetryIsCurrents, Playback!ListsAndLimit
<1>10. CASE Playback!Playing
  <2>1. Playback!Song(v2) \in QueueSongs \cup {None}
    BY <1>0, SongTyped DEF Playback!Song, Playback!TypeOK
  <2>2. QED
    BY <1>0, <1>10, <2>1
    DEF Playback!Playing, Playback!ResetRetries, Playback!place, Playback!modes,
        Playback!walk, Playback!IInv, Playback!TypeOK,
       Playback!WalkIsAtSong, Playback!RetryIsCurrents, Playback!ListsAndLimit
<1>11. CASE Playback!Ended BY <1>11, PlayNextKeeps DEF Playback!Ended
<1>12. CASE Playback!Error
  <2> DEFINE used == IF v8 = Playback!Song(v2) THEN v7 ELSE 0
  <2>1. CASE Playback!PlayNext BY <2>1, PlayNextKeeps
  <2>2. CASE /\ used < RetryLimit
             /\ v8' = Playback!Song(v2) /\ v7' = used + 1 /\ v9' = Playback!Song(v2)
             /\ v10' = "failed" /\ UNCHANGED <<Playback!place, Playback!modes, Playback!walk>>
    <3>1. used + 1 \in 0 .. RetryLimit
      BY <1>0, <2>2 DEF Playback!TypeOK, Playback!ListsAndLimit
    <3>2. v2 # 0 /\ Playback!Song(v2) \in QueueSongs
      BY <1>0, <1>12, SongTyped DEF Playback!Error
    <3> HIDE DEF used
    <3>3. QED
      BY <2>2, <3>1, <3>2
      DEF Playback!place, Playback!modes, Playback!walk, Playback!IInv, Playback!TypeOK,
          Playback!WalkIsAtSong, Playback!RetryIsCurrents, Playback!Song
  <2>3. QED BY <1>12, <2>1, <2>2 DEF Playback!Error
<1>13. CASE Playback!RetryTimer
  BY <1>13
  DEF Playback!RetryTimer, Playback!place, Playback!modes, Playback!walk, Playback!IInv,
      Playback!TypeOK, Playback!WalkIsAtSong, Playback!RetryIsCurrents
<1>14. CASE UNCHANGED Playback!vars
  BY <1>14
  DEF Playback!vars, Playback!IInv, Playback!TypeOK, Playback!WalkIsAtSong,
      Playback!RetryIsCurrents, Playback!Song
<1>15. QED
  BY <1>1, <1>2, <1>3, <1>4, <1>5, <1>6, <1>7, <1>8, <1>9, <1>10, <1>11, <1>12, <1>13, <1>14
  DEF Playback!Next, Playback!User

-----------------------------------------------------------------------------
(* The media card: whoever changes what a music card would show publishes   *)
(* it in the same handler, and an update reaches the card exactly when its  *)
(* kind owns it.  A page without a current song publishes nothing, so then  *)
(* no load may still be the newest and music may not own the card.          *)

(* The state that the media session's own functions change.                 *)
CardTyped ==
  /\ v7 \in Playing!Kinds \cup {None}
  /\ v8 \in [Playing!Kinds -> Playing!Snapshot \cup {None}] /\ v9 \in Playing!Snapshot \cup {None}

(* What a music card has to show.                                           *)
Shows(c, s, t, a) == c.of = s /\ c.title = t /\ c.art = a

(* An update changes the card when its kind owns it, and only then.         *)
LEMMA UpdateWritesOwners ==
  ASSUME Playing!NoneIsNothing, CardTyped, (v7 = None) = (v9 = None),
         NEW k \in Playing!Kinds, NEW snap \in Playing!Snapshot, Playing!Update(k, snap)
  PROVE  /\ CardTyped' /\ (v7' = None) = (v9' = None)
         /\ snap.state = "playing" => v7' = k
         /\ v7' = k => Shows(v9', snap.of, snap.title, snap.art)
         /\ v7' # k => v7' = v7 /\ v9' = v9
<1> DEFINE last == v8[k]
           merged == IF snap.state = None /\ last # None
                     THEN [snap EXCEPT !.state = last.state] ELSE snap
<1>1. last \in Playing!Snapshot \cup {None} BY DEF CardTyped
<1>2. merged \in Playing!Snapshot /\ Shows(merged, snap.of, snap.title, snap.art)
  <2>1. CASE snap.state = None /\ last # None
    <3>1. last \in Playing!Snapshot BY <1>1, <2>1
    <3>2. merged = [snap EXCEPT !.state = last.state] BY <2>1
    <3>3. QED BY <3>1, <3>2 DEF Playing!Snapshot, Shows
  <2>2. CASE ~(snap.state = None /\ last # None) BY <2>2 DEF Shows
  <2>3. QED BY <2>1, <2>2
<1>3. /\ v8' = [v8 EXCEPT ![k] = merged]
      /\ v7' = IF snap.state = "playing" THEN k ELSE v7
      /\ v9' = IF v7' = k THEN merged ELSE v9
  BY DEF Playing!Update
<1> HIDE DEF merged, last
<1>4. CardTyped' BY <1>2, <1>3 DEF CardTyped
<1>5. merged # None /\ k # None BY <1>2 DEF Playing!NoneIsNothing
<1>6. (v7' = None) = (v9' = None) BY <1>3, <1>5
<1>7. QED BY <1>2, <1>3, <1>4, <1>6

(* A claim takes the card.                                                  *)
LEMMA ClaimTakesCard ==
  ASSUME Playing!NoneIsNothing, CardTyped, NEW k \in Playing!Kinds, NEW snap \in Playing!Snapshot, Playing!Claim(k, snap)
  PROVE  CardTyped' /\ v7' = k /\ v9' = snap /\ v7' # None /\ v9' # None
  BY DEF Playing!NoneIsNothing, CardTyped, Playing!Claim

(* A release clears the card of its owner and no other.                     *)
LEMMA ReleaseClearsOwners ==
  ASSUME Playing!NoneIsNothing, CardTyped, NEW k \in Playing!Kinds, Playing!Release(k)
  PROVE  /\ CardTyped' /\ v7' # k
         /\ (v7' = None /\ v9' = None) \/ (v7' = v7 /\ v9' = v9)
<1>1. CASE v7 = k BY <1>1 DEF Playing!NoneIsNothing, CardTyped, Playing!Release
<1>2. CASE v7 # k
  <2>1. UNCHANGED <<v7, v9, v8>> BY <1>2 DEF Playing!Release
  <2>2. QED BY <1>2, <2>1 DEF CardTyped
<1>3. QED BY <1>1, <1>2

(* What music publishes is the song, with the title and the cover there are. *)
LEMMA MusicIsSnapshot ==
  ASSUME NEW state \in {"playing", "paused", None},
         v1' \in PanelSongs, v5' \in PanelSongs \cup {None}, v6' \in PanelSongs \cup {None}
  PROVE  /\ Playing!Music(state) \in Playing!Snapshot /\ Playing!Music(state).state = state
         /\ Shows(Playing!Music(state), v1', v5', v6')
  BY DEF Playing!Music, Playing!Snapshot, Shows

(* Publishing leaves a music card that shows the current song.              *)
LEMMA PublishShowsSong ==
  ASSUME Playing!NoneIsNothing, Playing!IInv, NEW state \in {"playing", "paused", None}, Playing!Publish(state),
         v1' \in PanelSongs, v5' \in PanelSongs \cup {None}, v6' \in PanelSongs \cup {None}
  PROVE  CardTyped' /\ Playing!CardIsOwners'
<1>1. v1' # None BY DEF Playing!NoneIsNothing
<1>2. Playing!Update("music", Playing!Music(state)) BY <1>1 DEF Playing!Publish
<1>3. CardTyped /\ (v7 = None) = (v9 = None)
  BY DEF Playing!IInv, Playing!TypeOK, CardTyped, Playing!CardIsOwners
<1>4. "music" \in Playing!Kinds BY DEF Playing!Kinds
<1>5. /\ CardTyped' /\ (v7' = None) = (v9' = None)
      /\ v7' = "music" => Shows(v9', v1', v5', v6')
      /\ v7' # "music" => v7' = v7 /\ v9' = v9
  BY <1>2, <1>3, <1>4, MusicIsSnapshot, UpdateWritesOwners DEF Shows
<1>6. v7' = "video" => v9'.of = "video" BY <1>5 DEF Playing!IInv, Playing!CardIsOwners
<1>7. QED BY <1>5, <1>6 DEF Playing!CardIsOwners, Shows

(* Nothing is shown at the start.                                           *)
LEMMA PlayingInit == Playing!NoneIsNothing /\ Playing!Init => Playing!IInv
  BY DEF Playing!NoneIsNothing, Playing!Init, Playing!IInv, Playing!TypeOK,
     Playing!CardIsOwners, Playing!NothingWithoutSong, Playing!Kinds

(* Every handler keeps the invariant.                                       *)
LEMMA PlayingNext ==
  ASSUME Playing!NoneIsNothing, Playing!IInv, [Playing!Next]_(Playing!vars)
  PROVE  Playing!IInv'
<1> USE DEF Playing!NoneIsNothing
<1>1. CardTyped /\ (v7 = None) = (v9 = None)
  BY DEF Playing!IInv, Playing!TypeOK, CardTyped, Playing!CardIsOwners
<1>2. ASSUME NEW s \in PanelSongs, Playing!PlaySong(s) PROVE Playing!IInv'
  <2>1. CardTyped' /\ Playing!CardIsOwners' BY <1>2, PublishShowsSong DEF Playing!PlaySong
  <2>2. QED BY <1>2, <2>1 DEF Playing!IInv, Playing!TypeOK, CardTyped,
      Playing!NothingWithoutSong, Playing!PlaySong
<1>3. ASSUME Playing!Playing PROVE Playing!IInv'
  <2>1. v1' \in PanelSongs /\ v5' \in PanelSongs \cup {None} /\ v6' \in PanelSongs \cup {None}
    <3>1. v1 # None /\ UNCHANGED <<v1, v5>> /\ (v6' = None \/ v6' = v6)
      BY <1>3 DEF Playing!Playing
    <3>2. QED BY <3>1 DEF Playing!IInv, Playing!TypeOK
  <2>2. CardTyped' /\ Playing!CardIsOwners'
    BY <1>3, <2>1, PublishShowsSong DEF Playing!Playing
  <2>3. /\ v2' \subseteq [song : PanelSongs, newest : BOOLEAN] /\ v3' \in PanelSongs \cup {None}
        /\ v4' \in PanelSongs \cup {None}
    <3>1. \A l \in v2 : [l EXCEPT !.newest = FALSE] \in [song : PanelSongs, newest : BOOLEAN]
      BY DEF Playing!IInv, Playing!TypeOK
    <3>2. v1 # None => [song |-> v1, newest |-> TRUE] \in [song : PanelSongs, newest : BOOLEAN]
      BY DEF Playing!IInv, Playing!TypeOK
    <3>3. \/ /\ v2' = {[l EXCEPT !.newest = FALSE] : l \in v2} \cup {[song |-> v1, newest |-> TRUE]}
             /\ v3' = v1 /\ v4' = None
          \/ UNCHANGED <<v2, v3, v4>>
      BY <1>3 DEF Playing!Playing, Playing!request
    <3>4. v1 # None BY <1>3 DEF Playing!Playing
    <3>5. v2' \subseteq [song : PanelSongs, newest : BOOLEAN]
      <4> DEFINE loads == [song : PanelSongs, newest : BOOLEAN]
                 aged == {[l EXCEPT !.newest = FALSE] : l \in v2}
                 latest == [song |-> v1, newest |-> TRUE]
      <4>1. v2 \subseteq loads BY DEF Playing!IInv, Playing!TypeOK
      <4>2. aged \subseteq loads BY <3>1
      <4>3. latest \in loads BY <3>2, <3>4
      <4>4. v2' = aged \cup {latest} \/ v2' = v2 BY <3>3
      <4> HIDE DEF aged, latest
      <4>5. QED BY <4>1, <4>2, <4>3, <4>4
    <3>6. v3' \in PanelSongs \cup {None} /\ v4' \in PanelSongs \cup {None}
      BY <3>3, <3>4 DEF Playing!IInv, Playing!TypeOK
    <3>7. QED BY <3>5, <3>6
  <2>4. QED BY <1>3, <2>1, <2>2, <2>3 DEF Playing!IInv, Playing!TypeOK, CardTyped,
      Playing!NothingWithoutSong, Playing!Playing
<1>4. ASSUME NEW l \in v2, Playing!MetadataArrives(l) PROVE Playing!IInv'
  <2>1. CASE l.newest
    <3>1. v1' \in PanelSongs
      BY <1>4, <2>1
      DEF Playing!IInv, Playing!TypeOK, Playing!NothingWithoutSong, Playing!MetadataArrives
    <3>2. l.song \in PanelSongs BY DEF Playing!IInv, Playing!TypeOK
    <3>3. v5' \in PanelSongs \cup {None} /\ v6' \in PanelSongs \cup {None} /\ v4' \in PanelSongs
      BY <1>4, <2>1, <3>2 DEF Playing!MetadataArrives, Playing!TitleIn, Playing!CoverIn
    <3>4. Playing!Publish(None) BY <1>4, <2>1 DEF Playing!MetadataArrives
    <3>5. CardTyped' /\ Playing!CardIsOwners' BY <3>1, <3>3, <3>4, PublishShowsSong
    <3>6. QED BY <1>4, <3>1, <3>3, <3>5
          DEF Playing!IInv, Playing!TypeOK, CardTyped, Playing!NothingWithoutSong,
              Playing!MetadataArrives
  <2>2. CASE ~l.newest
    BY <1>4, <2>2
    DEF Playing!IInv, Playing!TypeOK, Playing!CardIsOwners, Playing!NothingWithoutSong,
        Playing!MetadataArrives
  <2>3. QED BY <2>1, <2>2
<1>5. ASSUME NEW l \in v2, Playing!MetadataFails(l) PROVE Playing!IInv'
  <2>1. CASE l.newest
    <3>1. v1' \in PanelSongs
      BY <1>5, <2>1
      DEF Playing!IInv, Playing!TypeOK, Playing!NothingWithoutSong, Playing!MetadataFails
    <3>2. v5' \in PanelSongs \cup {None} /\ v6' \in PanelSongs \cup {None} /\ v4' = None
      BY <1>5, <2>1 DEF Playing!MetadataFails, Playing!IInv, Playing!TypeOK
    <3>3. Playing!Publish(None) BY <1>5, <2>1 DEF Playing!MetadataFails
    <3>4. CardTyped' /\ Playing!CardIsOwners' BY <3>1, <3>2, <3>3, PublishShowsSong
    <3>5. QED BY <1>5, <3>1, <3>2, <3>4
          DEF Playing!IInv, Playing!TypeOK, CardTyped, Playing!NothingWithoutSong,
              Playing!MetadataFails
  <2>2. CASE ~l.newest
    BY <1>5, <2>2
    DEF Playing!IInv, Playing!TypeOK, Playing!CardIsOwners, Playing!NothingWithoutSong,
        Playing!MetadataFails
  <2>3. QED BY <2>1, <2>2
<1>6. ASSUME Playing!MusicReports PROVE Playing!IInv'
  <2>1. v1' \in PanelSongs /\ v5' \in PanelSongs \cup {None} /\ v6' \in PanelSongs \cup {None}
    BY <1>6 DEF Playing!IInv, Playing!TypeOK, Playing!MusicReports
  <2>2. Playing!Publish("paused") \/ Playing!Publish(None) BY <1>6 DEF Playing!MusicReports
  <2>3. CardTyped' /\ Playing!CardIsOwners' BY <2>1, <2>2, PublishShowsSong
  <2>4. QED BY <1>6, <2>3 DEF Playing!IInv, Playing!TypeOK, CardTyped,
      Playing!NothingWithoutSong, Playing!MusicReports, Playing!request
<1>7. ASSUME Playing!MusicClaims PROVE Playing!IInv'
  <2>1. v1' \in PanelSongs /\ v5' \in PanelSongs \cup {None} /\ v6' \in PanelSongs \cup {None}
    BY <1>7 DEF Playing!IInv, Playing!TypeOK, Playing!MusicClaims
  <2>2. PICK state \in {"playing", "paused"} : Playing!Claim("music", Playing!Music(state))
    BY <1>7 DEF Playing!MusicClaims
  <2>3. CardTyped' /\ v7' = "music" /\ v9' = Playing!Music(state) /\ v7' # None /\ v9' # None
    BY <1>1, <2>1, <2>2, MusicIsSnapshot, ClaimTakesCard DEF Playing!Kinds
  <2>4. Playing!CardIsOwners' BY <2>1, <2>3, MusicIsSnapshot DEF Playing!CardIsOwners, Shows
  <2>5. QED BY <1>7, <2>3, <2>4 DEF Playing!IInv, Playing!TypeOK, CardTyped,
      Playing!NothingWithoutSong, Playing!MusicClaims, Playing!request
<1>8. ASSUME Playing!ClearCurrentSong PROVE Playing!IInv'
  <2>1. /\ CardTyped' /\ v7' # "music"
        /\ (v7' = None /\ v9' = None) \/ (v7' = v7 /\ v9' = v9)
    BY <1>1, <1>8, ReleaseClearsOwners DEF Playing!ClearCurrentSong, Playing!Kinds
  <2>2. Playing!CardIsOwners'
    BY <1>1, <2>1 DEF Playing!IInv, Playing!CardIsOwners, Playing!Kinds
  <2>3. /\ v2' \subseteq [song : PanelSongs, newest : BOOLEAN]
        /\ \A l \in v2' : ~l.newest
    BY <1>8 DEF Playing!ClearCurrentSong, Playing!IInv, Playing!TypeOK
  <2>4. QED BY <1>8, <2>1, <2>2, <2>3 DEF Playing!IInv, Playing!TypeOK, CardTyped,
      Playing!NothingWithoutSong, Playing!ClearCurrentSong
<1>9. ASSUME Playing!Emptied PROVE Playing!IInv'
  <2>1. v1' \in PanelSongs /\ v5' \in PanelSongs \cup {None} /\ v6' \in PanelSongs \cup {None}
    BY <1>9 DEF Playing!IInv, Playing!TypeOK, Playing!Emptied
  <2>2. CardTyped' /\ Playing!CardIsOwners'
    BY <1>9, <2>1, PublishShowsSong DEF Playing!Emptied
  <2>3. QED BY <1>9, <2>1, <2>2 DEF Playing!IInv, Playing!TypeOK, CardTyped,
      Playing!NothingWithoutSong, Playing!Emptied, Playing!request
<1>10. ASSUME Playing!VideoReports PROVE Playing!IInv'
  <2>1. PICK state \in {"playing", "paused", None} : Playing!Update("video", Playing!Video(state))
    BY <1>10 DEF Playing!VideoReports
  <2>2. Playing!Video(state) \in Playing!Snapshot /\ Playing!Video(state).of = "video"
    BY DEF Playing!Video, Playing!Snapshot, Playing!Kinds
  <2>3. /\ CardTyped' /\ (v7' = None) = (v9' = None)
        /\ v7' = "video" => v9'.of = "video"
        /\ v7' # "video" => v7' = v7 /\ v9' = v9
    BY <1>1, <2>1, <2>2, UpdateWritesOwners DEF Playing!Kinds, Shows
  <2>4. Playing!CardIsOwners'
    BY <1>10, <2>3 DEF Playing!IInv, Playing!CardIsOwners, Playing!VideoReports
  <2>5. QED BY <1>10, <2>3, <2>4 DEF Playing!IInv, Playing!TypeOK, CardTyped,
      Playing!NothingWithoutSong, Playing!VideoReports, Playing!request
<1>11. ASSUME Playing!VideoStops PROVE Playing!IInv'
  <2>1. /\ CardTyped' /\ v7' # "video"
        /\ (v7' = None /\ v9' = None) \/ (v7' = v7 /\ v9' = v9)
    BY <1>1, <1>11, ReleaseClearsOwners DEF Playing!VideoStops, Playing!Kinds
  <2>2. Playing!CardIsOwners'
    BY <1>1, <1>11, <2>1
    DEF Playing!IInv, Playing!CardIsOwners, Playing!VideoStops, Playing!Kinds
  <2>3. v7' = "music" => v7 = "music" BY <2>1 DEF Playing!NoneIsNothing, Playing!Kinds
  <2>4. QED BY <1>11, <2>1, <2>2, <2>3 DEF Playing!IInv, Playing!TypeOK, CardTyped,
      Playing!NothingWithoutSong, Playing!VideoStops, Playing!request
<1>12. CASE UNCHANGED Playing!vars
  BY <1>12
  DEF Playing!IInv, Playing!TypeOK, Playing!CardIsOwners, Playing!NothingWithoutSong,
      Playing!vars
<1>13. QED
  BY <1>2, <1>3, <1>4, <1>5, <1>6, <1>7, <1>8, <1>9, <1>10, <1>11, <1>12 DEF Playing!Next

-----------------------------------------------------------------------------
(* The folder view: there is one newest fetch.  While a folder loads it is  *)
(* the fetch of a navigation, because a refresh in place gives way to it,   *)
(* and while that fetch is on its way no poller runs, because the           *)
(* navigation stopped them all and only an answer starts another.           *)
LEMMA BrowseInit == Browse!Init => Browse!IInv
<1> SUFFICES ASSUME Browse!Init PROVE Browse!IInv OBVIOUS
<1>1. \A l \in v6 : /\ l.version = 1 /\ l.path = v1 /\ ~l.inPlace
  BY DEF Browse!Init
<1>2. Browse!Typed BY <1>1 DEF Browse!Init, Browse!Typed
<1>3. Browse!OneNewest BY DEF Browse!Init, Browse!OneNewest
<1>4. Browse!NavigationIsAlone BY <1>1 DEF Browse!Init, Browse!NavigationIsAlone
<1>5. Browse!FolderIsShown
  BY DEF Browse!Init, Browse!FolderIsShown, Browse!PushIsPending, Browse!ReadyIsFolders,
     Browse!PollersAreRows
<1>6. QED BY <1>2, <1>3, <1>4, <1>5 DEF Browse!IInv

(* A new history entry, or another one in its place, is of the folder given *)
(* and nothing else of the history is touched that is before it.            *)
LEMMA HistoryIsWritten ==
  ASSUME Browse!Typed, NEW f \in Folders, NEW mode \in {"push", "replace"}, Browse!WriteHistory(mode, f)
  PROVE  v8' \in Seq(Folders) /\ v9' \in 1..Len(v8') /\ v8'[v9'] = f
<1>1. CASE mode = "push"
  <2>1. /\ v8' = Append(SubSeq(v8, 1, v9), f) /\ v9' = v9 + 1
    BY <1>1 DEF Browse!WriteHistory, Browse!Push
  <2>2. SubSeq(v8, 1, v9) \in Seq(Folders) /\ Len(SubSeq(v8, 1, v9)) = v9
    BY DEF Browse!Typed
  <2>3. QED BY <2>1, <2>2 DEF Browse!Typed
<1>2. CASE mode = "replace" BY <1>2 DEF Browse!WriteHistory, Browse!Replace, Browse!Typed
<1>3. QED BY <1>1, <1>2

(* A fetch that starts is the only newest one.                              *)
LEMMA StartedIsNewest ==
  ASSUME Browse!Typed, NEW f, NEW from, NEW mode, NEW inPlace, v5' = v5 + 1,
         v6' \in {v6 \cup {Browse!Load(f, from, mode, inPlace)}, {Browse!Load(f, from, mode, inPlace)}},
         f \in Folders
  PROVE  /\ \A l \in v6' : l.version = v5' => l = Browse!Load(f, from, mode, inPlace)
         /\ Browse!Load(f, from, mode, inPlace) \in v6'
         /\ Browse!Load(f, from, mode, inPlace).version = v5'
         /\ \A l \in v6' : l.version \in 1..v5' /\ l.path \in Folders
  BY DEF Browse!Typed, Browse!Load

(* A navigation with a push of its own, or to a folder in the history.      *)
LEMMA NavigateKeeps ==
  ASSUME Browse!IInv, NEW f \in Folders, NEW mode, Browse!Navigate(f, mode),
         v8' = v8, v9' \in 1..Len(v8), mode = "push" \/ v8'[v9'] = f
  PROVE  Browse!IInv'
<1> DEFINE l == Browse!Load(f, v1, mode, FALSE)
<1>1. Browse!Typed BY DEF Browse!IInv
<1>2. /\ v5' = v5 + 1 /\ v6' \in {v6 \cup {l}, {l}} /\ v7' = {}
      /\ v1' = f /\ v2' = "loading"
  BY DEF Browse!Navigate
<1>3. /\ \A k \in v6' : k.version = v5' => k = l
      /\ l \in v6' /\ l.version = v5'
      /\ \A k \in v6' : k.version \in 1..v5' /\ k.path \in Folders
  BY <1>1, <1>2 DEF Browse!Typed, Browse!Load
<1>4. ~l.inPlace /\ l.path = f /\ l.history = mode BY DEF Browse!Load
<1> HIDE DEF l
<1>5. Browse!Typed' BY <1>1, <1>2, <1>3 DEF Browse!Typed
<1>6. Browse!OneNewest' BY <1>3 DEF Browse!OneNewest, Browse!IsNewest
<1>7. Browse!NavigationIsAlone'
  BY <1>2, <1>3, <1>4 DEF Browse!NavigationIsAlone, Browse!IsNewest
<1>8. Browse!PushIsPending' BY <1>2, <1>3, <1>4 DEF Browse!PushIsPending, Browse!IsNewest
<1>9. Browse!FolderIsShown'
  BY <1>2, <1>8 DEF Browse!FolderIsShown, Browse!ReadyIsFolders, Browse!PollersAreRows
<1>10. QED BY <1>5, <1>6, <1>7, <1>9 DEF Browse!IInv

(* The refresh in place of a folder that is not loading.                    *)
LEMMA RefreshKeeps ==
  ASSUME Browse!IInv, Browse!Refresh
  PROVE  Browse!IInv'
<1> DEFINE l == Browse!Load(v1, v1, "none", TRUE)
<1>1. Browse!Typed BY DEF Browse!IInv
<1>2. /\ v5' = v5 + 1 /\ v6' \in {v6 \cup {l}, {l}} /\ v2 # "loading"
      /\ UNCHANGED <<v1, v2, v3, v7, v8, v9>>
  BY DEF Browse!Refresh, Browse!table, Browse!history
<1>3. /\ \A k \in v6' : k.version = v5' => k = l
      /\ \A k \in v6' : k.version \in 1..v5' /\ k.path \in Folders
  BY <1>1, <1>2, StartedIsNewest DEF Browse!Typed
<1>4. l.inPlace BY DEF Browse!Load
<1> HIDE DEF l
<1>5. Browse!Typed' BY <1>1, <1>2, <1>3 DEF Browse!Typed
<1>6. Browse!OneNewest' BY <1>3 DEF Browse!OneNewest, Browse!IsNewest
<1>7. Browse!NavigationIsAlone'
  BY <1>2, <1>3, <1>4 DEF Browse!NavigationIsAlone, Browse!IsNewest
<1>8. Browse!FolderIsShown'
  BY <1>2
  DEF Browse!IInv, Browse!FolderIsShown, Browse!PushIsPending, Browse!ReadyIsFolders,
      Browse!PollersAreRows
<1>9. QED BY <1>5, <1>6, <1>7, <1>8 DEF Browse!IInv

(* The newest fetch is answered with a listing.                             *)
LEMMA ListedKeeps ==
  ASSUME Browse!IInv, Browse!Listed
  PROVE  Browse!IInv'
<1>1. PICK l \in v6 :
        /\ Browse!IsNewest(l) /\ v6' = v6 \ {l}
        /\ v1' = l.path /\ v2' = "ready"
        /\ v3' = [of |-> l.path, fetch |-> l.version]
        /\ \E more \in {{}, {l.version}} : v7' = Browse!KeptPollers(l) \cup more
        /\ Browse!WriteHistory(l.history, l.path) /\ v5' = v5
  BY DEF Browse!Listed
<1>2. \A k \in v6' : ~Browse!IsNewest(k)'
  BY <1>1 DEF Browse!IInv, Browse!OneNewest, Browse!IsNewest
<1>3. v8' \in Seq(Folders) /\ v9' \in 1..Len(v8')
  <2>1. CASE l.history \in {"push", "replace"}
    BY <1>1, <2>1, HistoryIsWritten DEF Browse!IInv, Browse!Typed
  <2>2. CASE l.history = "none"
    BY <1>1, <2>2 DEF Browse!WriteHistory, Browse!history, Browse!IInv, Browse!Typed
  <2>3. QED BY <1>1, <2>1, <2>2 DEF Browse!WriteHistory
<1>4. Browse!Typed' BY <1>1, <1>3 DEF Browse!IInv, Browse!Typed
<1>5. Browse!KeptPollers(l) = {}
  BY <1>1 DEF Browse!IInv, Browse!NavigationIsAlone, Browse!KeptPollers
<1>6. Browse!PollersAreRows' BY <1>1, <1>5 DEF Browse!PollersAreRows
<1>7. Browse!ReadyIsFolders' /\ Browse!PushIsPending'
  BY <1>1 DEF Browse!ReadyIsFolders, Browse!PushIsPending
<1>8. QED BY <1>2, <1>4, <1>6, <1>7 DEF Browse!IInv, Browse!OneNewest,
    Browse!NavigationIsAlone, Browse!FolderIsShown

(* A fetch fails, or its answer comes too late.                             *)
LEMMA DroppedKeeps ==
  ASSUME Browse!IInv, Browse!ListingFails \/ Browse!Overtaken
  PROVE  Browse!IInv'
<1>1. PICK l \in v6 :
        /\ v6' = v6 \ {l}
        /\ ~Browse!IsNewest(l) \/ l.inPlace => v2' = v2
        /\ Browse!IsNewest(l) /\ ~l.inPlace => v2' = "error"
        /\ UNCHANGED <<v1, v3, v5, v7, v8, v9>>
  BY DEF Browse!ListingFails, Browse!Overtaken, Browse!table, Browse!history
<1>2. Browse!Typed' BY <1>1 DEF Browse!IInv, Browse!Typed
<1>3. Browse!OneNewest' BY <1>1 DEF Browse!IInv, Browse!OneNewest, Browse!IsNewest
<1>4. Browse!NavigationIsAlone'
  BY <1>1 DEF Browse!IInv, Browse!NavigationIsAlone, Browse!IsNewest
<1>5. Browse!PushIsPending'
  <2>1. SUFFICES ASSUME v2' = "loading", v8'[v9'] # v1'
                 PROVE  \E k \in v6' : Browse!IsNewest(k)' /\ k.path = v1' /\ k.history = "push"
    BY DEF Browse!PushIsPending
  <2>2. v2 = "loading" /\ ~Browse!IsNewest(l)
    BY <1>1, <2>1 DEF Browse!IInv, Browse!NavigationIsAlone
  <2>3. PICK k \in v6 : Browse!IsNewest(k) /\ k.path = v1 /\ k.history = "push"
    BY <1>1, <2>1, <2>2 DEF Browse!IInv, Browse!FolderIsShown, Browse!PushIsPending
  <2>4. QED BY <1>1, <2>2, <2>3 DEF Browse!IsNewest
<1>6. Browse!ReadyIsFolders' /\ Browse!PollersAreRows'
  BY <1>1 DEF Browse!IInv, Browse!FolderIsShown, Browse!ReadyIsFolders, Browse!PollersAreRows
<1>7. QED BY <1>2, <1>3, <1>4, <1>5, <1>6 DEF Browse!IInv, Browse!FolderIsShown

(* Redrawing rows, filtering and sorting leave the folder; what they write  *)
(* to the history is its address.                                           *)
LEMMA RedrawKeeps ==
  ASSUME Browse!IInv, Browse!Polled \/ Browse!Filter \/ Browse!Type \/ Browse!FilterTimer \/ Browse!Sort
  PROVE  Browse!IInv'
<1>1. /\ UNCHANGED <<v1, v2, v3, v5, v6>> /\ v7' \subseteq v7
      /\ (UNCHANGED <<v8, v9>> \/ \E mode \in {"push", "replace"} : Browse!WriteHistory(mode, v1))
  <2>1. CASE Browse!Polled BY <2>1 DEF Browse!Polled, Browse!history
  <2>2. CASE Browse!Filter \/ Browse!Sort
    BY <2>2
    DEF Browse!Filter, Browse!Sort, Browse!Redraw, Browse!fetching, Browse!WriteHistory
  <2>3. CASE Browse!Type
    BY <2>3 DEF Browse!Type, Browse!Redraw, Browse!fetching, Browse!history
  <2>4. CASE Browse!FilterTimer BY <2>4 DEF Browse!FilterTimer, Browse!fetching, Browse!table
  <2>5. QED BY <2>1, <2>2, <2>3, <2>4
<1>2. /\ v8' \in Seq(Folders) /\ v9' \in 1..Len(v8')
      /\ v8'[v9'] # v1 => UNCHANGED <<v8, v9>>
  BY <1>1, HistoryIsWritten DEF Browse!IInv, Browse!Typed
<1>3. Browse!Typed' BY <1>1, <1>2 DEF Browse!IInv, Browse!Typed
<1>4. Browse!OneNewest' /\ Browse!NavigationIsAlone'
  BY <1>1 DEF Browse!IInv, Browse!OneNewest, Browse!NavigationIsAlone, Browse!IsNewest
<1>5. Browse!PushIsPending'
  BY <1>1, <1>2 DEF Browse!IInv, Browse!FolderIsShown, Browse!PushIsPending, Browse!IsNewest
<1>6. Browse!ReadyIsFolders' /\ Browse!PollersAreRows'
  BY <1>1 DEF Browse!IInv, Browse!FolderIsShown, Browse!ReadyIsFolders, Browse!PollersAreRows
<1>7. QED BY <1>3, <1>4, <1>5, <1>6 DEF Browse!IInv, Browse!FolderIsShown

LEMMA BrowseNext == Browse!IInv /\ [Browse!Next]_(Browse!vars) => Browse!IInv'
<1> SUFFICES ASSUME Browse!IInv, [Browse!Next]_(Browse!vars) PROVE Browse!IInv' OBVIOUS
<1>1. CASE Browse!Click
  <2>1. PICK f \in Folders : Browse!Navigate(f, "push") BY <1>1 DEF Browse!Click
  <2>2. v8' = v8 /\ v9' = v9 BY <1>1 DEF Browse!Click, Browse!history
  <2>3. QED BY <2>1, <2>2, NavigateKeeps DEF Browse!IInv, Browse!Typed
<1>2. CASE Browse!Traverse
  <2>1. PICK i \in DOMAIN v8 : v9' = i /\ v8' = v8 /\ Browse!Navigate(v8[i], "none")
    BY <1>2 DEF Browse!Traverse
  <2>2. i \in 1..Len(v8) /\ v8[i] \in Folders BY DEF Browse!IInv, Browse!Typed
  <2>3. QED BY <2>1, <2>2, NavigateKeeps
<1>3. CASE Browse!Refresh BY <1>3, RefreshKeeps
<1>4. CASE Browse!Listed BY <1>4, ListedKeeps
<1>5. CASE Browse!ListingFails \/ Browse!Overtaken BY <1>5, DroppedKeeps
<1>6. CASE Browse!Polled \/ Browse!Filter \/ Browse!Type \/ Browse!FilterTimer \/ Browse!Sort
  BY <1>6, RedrawKeeps
<1>7. CASE UNCHANGED Browse!vars
  BY <1>7
  DEF Browse!vars, Browse!IInv, Browse!Typed, Browse!OneNewest, Browse!NavigationIsAlone,
      Browse!IsNewest, Browse!FolderIsShown,
              Browse!PushIsPending, Browse!ReadyIsFolders, Browse!PollersAreRows
<1>8. QED BY <1>1, <1>2, <1>3, <1>4, <1>5, <1>6, <1>7 DEF Browse!Next

-----------------------------------------------------------------------------
(* The waveform: whoever replaces the song, closes the panel or reloads     *)
(* cancels first, which takes the summary and the worker away and moves the *)
(* token on; so a worker that is there is the current request's, and what   *)
(* it posts is the song's.  A stage is set together with the task or the    *)
(* worker that it announces, and a fetch that ends unheard was not the      *)
(* current one.                                                             *)

(* Sequences without one element, and their fronts.                         *)
LEMMA RemovedOne ==
  ASSUME NEW S, NEW s \in Seq(S), NEW i \in 1 .. Len(s)
  PROVE  /\ Waveform!RemovedAt(s, i) \in Seq(S) /\ Len(Waveform!RemovedAt(s, i)) = Len(s) - 1
         /\ \A j \in 1 .. Len(s) - 1 : Waveform!RemovedAt(s, i)[j] = IF j < i THEN s[j] ELSE s[j + 1]
<1> DEFINE a == SubSeq(s, 1, i - 1)
           b == SubSeq(s, i + 1, Len(s))
<1>0. i \in Nat /\ Len(s) \in Nat /\ 1 <= i /\ i <= Len(s) OBVIOUS
<1>1. a \in Seq(S) /\ Len(a) = i - 1 /\ \A j \in 1 .. i - 1 : a[j] = s[j] OBVIOUS
<1>2. b \in Seq(S) /\ Len(b) = Len(s) - i
  <2>1. i + 1 \in 1 .. Len(s) + 1 BY <1>0
  <2>2. QED BY <2>1
<1>3. \A j \in 1 .. Len(s) - i : b[j] = s[i + j]
  <2>1. \A j \in 1 .. Len(s) - i : i + 1 + j - 1 = i + j BY <1>0
  <2>2. QED BY <1>0, <2>1
<1> HIDE DEF a, b
<1>4. Waveform!RemovedAt(s, i) = a \o b BY DEF Waveform!RemovedAt, a, b
<1>5. a \o b \in Seq(S) /\ Len(a \o b) = Len(s) - 1
  <2>1. a \in Seq(S) /\ b \in Seq(S) /\ Len(a) = i - 1 /\ Len(b) = Len(s) - i BY <1>1, <1>2
  <2>2. a \o b \in Seq(S) BY <2>1
  <2>3. Len(a \o b) = Len(a) + Len(b) BY <2>1
  <2>4. QED BY <1>0, <2>1, <2>2, <2>3
<1>6. ASSUME NEW j \in 1 .. Len(s) - 1 PROVE (a \o b)[j] = IF j < i THEN s[j] ELSE s[j + 1]
  <2>1. CASE j < i BY <1>0, <1>1, <1>2, <2>1
  <2>2. CASE j >= i
    <3> DEFINE k == j - (i - 1)
    <3>1. k \in 1 .. Len(s) - i /\ i + k = j + 1 BY <1>0, <2>2
    <3>2. (a \o b)[j] = b[k] BY <1>0, <1>1, <1>2, <2>2
    <3> HIDE DEF k
    <3>3. b[k] = s[j + 1] BY <1>3, <3>1
    <3>4. QED BY <1>0, <2>2, <3>2, <3>3
  <2>3. j \in Int /\ i \in Int BY <1>0
  <2>4. j < i \/ j >= i BY <2>3
  <2>5. QED BY <2>1, <2>2, <2>4
<1>7. QED BY <1>4, <1>5, <1>6

(* The front of a sequence.                                                 *)
LEMMA FrontOf ==
  ASSUME NEW S, NEW s \in Seq(S), NEW n \in Nat, n <= Len(s)
  PROVE  /\ SubSeq(s, 1, n) \in Seq(S) /\ Len(SubSeq(s, 1, n)) = n
         /\ \A i \in 1 .. n : SubSeq(s, 1, n)[i] = s[i]
OBVIOUS

(* What a cache record is.                                                  *)
LEMMA RecordOf ==
  ASSUME NEW kept, Waveform!AreRecords(kept), NEW i \in DOMAIN kept
  PROVE  kept[i] \in [key : PanelSongs, of : PanelSongs] /\ kept[i].key \in PanelSongs /\ kept[i].of = kept[i].key
<1> DEFINE R == [key : PanelSongs, of : PanelSongs]
<1>1. kept \in Seq(R) BY DEF Waveform!AreRecords
<1>2. kept[i] \in R
  <2> HIDE DEF R
  <2>1. QED BY <1>1
<1>3. QED BY <1>2 DEF Waveform!AreRecords

(* Without takes the record of a key away and leaves the others.            *)
LEMMA WithoutIsShorter ==
  ASSUME Waveform!LimitAndNone, NEW s \in PanelSongs, NEW kept, Waveform!AreRecords(kept)
  PROVE  /\ Waveform!AreRecords(Waveform!Without(s, kept))
         /\ \A i \in DOMAIN Waveform!Without(s, kept) : Waveform!Without(s, kept)[i].key # s
<1> DEFINE R == [key : PanelSongs, of : PanelSongs]
<1>1. CASE \E i \in DOMAIN kept : kept[i].key = s
  <2> DEFINE c == CHOOSE i \in DOMAIN kept : kept[i].key = s
             w == Waveform!RemovedAt(kept, c)
  <2>1. kept \in Seq(R) /\ c \in 1 .. Len(kept) /\ kept[c].key = s
    BY <1>1 DEF Waveform!AreRecords
  <2>2. Waveform!Without(s, kept) = w BY <1>1 DEF Waveform!Without
  <2> HIDE DEF c
  <2>3. w \in Seq(R) /\ Len(w) = Len(kept) - 1
        /\ \A j \in 1 .. Len(kept) - 1 : w[j] = IF j < c THEN kept[j] ELSE kept[j + 1]
    BY <2>1, RemovedOne
  <2> HIDE DEF w
  <2>4. DOMAIN w = 1 .. Len(kept) - 1 /\ DOMAIN kept = 1 .. Len(kept) /\ Len(kept) \in Nat
    BY <2>1, <2>3
  <2> DEFINE from(i) == IF i < c THEN i ELSE i + 1
  <2>5. ASSUME NEW i \in DOMAIN w
        PROVE  from(i) \in DOMAIN kept /\ from(i) # c /\ w[i] = kept[from(i)]
    <3>1. i \in 1 .. Len(kept) - 1 /\ i \in Int /\ c \in Int BY <2>1, <2>4
    <3>2. CASE i < c BY <2>1, <2>3, <2>4, <3>1, <3>2
    <3>3. CASE ~(i < c) BY <2>1, <2>3, <2>4, <3>1, <3>3
    <3>4. QED BY <3>2, <3>3
  <2>6. \A i, j \in DOMAIN w : from(i) = from(j) => i = j
    <3>1. \A i \in DOMAIN w : i \in Int BY <2>4
    <3>2. c \in Int BY <2>1
    <3>3. QED BY <3>1, <3>2
  <2> HIDE DEF from
  <2>7. \A i \in DOMAIN kept : kept[i].of = kept[i].key BY DEF Waveform!AreRecords
  <2>8. \A i, j \in DOMAIN kept : kept[i].key = kept[j].key => i = j
    BY DEF Waveform!AreRecords
  <2>9. \A i \in DOMAIN w : w[i].of = w[i].key BY <2>5, <2>7
  <2>10. \A i \in DOMAIN w : w[i].key # s
    <3>1. c \in DOMAIN kept BY <2>1, <2>4
    <3>2. QED BY <2>1, <2>5, <2>8, <3>1
  <2>11. \A i, j \in DOMAIN w : w[i].key = w[j].key => i = j BY <2>5, <2>6, <2>8
  <2>12. Len(w) <= Limit
    <3>1. Len(kept) <= Limit BY DEF Waveform!AreRecords
    <3>2. QED BY <2>3, <2>4, <3>1 DEF Waveform!LimitAndNone
  <2>13. QED BY <2>2, <2>3, <2>9, <2>10, <2>11, <2>12 DEF Waveform!AreRecords
<1>2. CASE ~\E i \in DOMAIN kept : kept[i].key = s BY <1>2 DEF Waveform!Without
<1>3. QED BY <1>1, <1>2

(* A record put in front, and the oldest dropped at the limit.              *)
LEMMA MergedIsKept ==
  ASSUME Waveform!LimitAndNone, NEW r \in [key : PanelSongs, of : PanelSongs], r.of = r.key, NEW kept, Waveform!AreRecords(kept)
  PROVE  Waveform!AreRecords(Waveform!Merged(r, kept))
<1> DEFINE R == [key : PanelSongs, of : PanelSongs]
           w == Waveform!Without(r.key, kept)
           all == <<r>> \o w
           n == IF Len(all) > Limit THEN Limit ELSE Len(all)
<1>1. Waveform!AreRecords(w) /\ \A i \in DOMAIN w : w[i].key # r.key BY WithoutIsShorter
<1> HIDE DEF w
<1>2. w \in Seq(R) BY <1>1 DEF Waveform!AreRecords
<1>3. /\ all \in Seq(R) /\ Len(all) = Len(w) + 1 /\ all[1] = r
      /\ \A i \in 1 .. Len(w) : all[i + 1] = w[i]
  BY <1>2
<1>4. \A i \in 1 .. Len(all) : i = 1 \/ (i - 1 \in 1 .. Len(w) /\ all[i] = w[i - 1])
  BY <1>2, <1>3
<1>5. \A i \in 1 .. Len(all) : all[i].of = all[i].key
  BY <1>1, <1>2, <1>3, <1>4 DEF Waveform!AreRecords
<1>6. \A i, j \in 1 .. Len(all) : all[i].key = all[j].key => i = j
  BY <1>1, <1>2, <1>3, <1>4 DEF Waveform!AreRecords
<1> HIDE DEF all
<1>7. n \in 0 .. Len(all) /\ n <= Limit BY <1>3 DEF Waveform!LimitAndNone
<1> HIDE DEF n
<1>8. /\ SubSeq(all, 1, n) \in Seq(R) /\ Len(SubSeq(all, 1, n)) = n
      /\ \A i \in 1 .. n : SubSeq(all, 1, n)[i] = all[i]
  <2>1. Len(all) \in Nat /\ n \in Nat /\ n <= Len(all) BY <1>3, <1>7
  <2>2. QED BY <1>3, <2>1, FrontOf
<1>9. Waveform!Merged(r, kept) = SubSeq(all, 1, n) BY DEF Waveform!Merged, all, n, w
<1>10. QED BY <1>3, <1>5, <1>6, <1>7, <1>8, <1>9 DEF Waveform!AreRecords

(* Each stage is one.                                                       *)
LEMMA AreStages ==
  /\ "idle" \in Waveform!Stages /\ "waiting" \in Waveform!Stages /\ "ready" \in Waveform!Stages /\ "error" \in Waveform!Stages
  /\ "fetching" \in Waveform!Stages /\ "loaded" \in Waveform!Stages /\ "decoding" \in Waveform!Stages /\ "processing" \in Waveform!Stages
BY DEF Waveform!Stages, Waveform!Busy

(* What the fields of a controller are.                                     *)
LEMMA FieldsOf ==
  ASSUME NEW w \in Waveform!Controllers
  PROVE  /\ w.open \in BOOLEAN /\ w.active \in PanelSongs \cup {None} /\ w.token \in Nat /\ w.stage \in Waveform!Stages
         /\ w.source \in PanelSongs \cup {None} /\ w.bytes \in BOOLEAN
         /\ w.summary \in [song : PanelSongs, exact : BOOLEAN] \cup {None} /\ w.worker \in Waveform!Worker \cup {None}
BY DEF Waveform!Controllers

(* A controller of which some fields were assigned is one.                  *)
LEMMA Assigned ==
  ASSUME NEW w \in Waveform!Controllers
  PROVE  /\ \A o \in BOOLEAN : [w EXCEPT !.open = o] \in Waveform!Controllers
         /\ \A st \in Waveform!Stages : [w EXCEPT !.stage = st] \in Waveform!Controllers
         /\ \A st \in Waveform!Stages, b \in BOOLEAN : [w EXCEPT !.stage = st, !.bytes = b] \in Waveform!Controllers
         /\ \A st \in Waveform!Stages, k \in Waveform!Worker \cup {None} : [w EXCEPT !.stage = st, !.worker = k] \in Waveform!Controllers
         /\ \A a \in PanelSongs \cup {None}, st \in Waveform!Stages : [w EXCEPT !.active = a, !.stage = st] \in Waveform!Controllers
BY DEF Waveform!Controllers

(* The same for the assignments of more fields at once.                     *)
LEMMA AssignedMore ==
  ASSUME NEW w \in Waveform!Controllers, NEW st \in Waveform!Stages, NEW b \in BOOLEAN, NEW so \in PanelSongs \cup {None},
         NEW su \in [song : PanelSongs, exact : BOOLEAN] \cup {None}, NEW k \in Waveform!Worker \cup {None}
  PROVE  /\ [w EXCEPT !.source = so, !.stage = st, !.bytes = b] \in Waveform!Controllers
         /\ [w EXCEPT !.source = so, !.stage = st, !.bytes = b, !.summary = su] \in Waveform!Controllers
         /\ [w EXCEPT !.stage = st, !.bytes = b, !.worker = k] \in Waveform!Controllers
         /\ [w EXCEPT !.stage = st, !.summary = su, !.worker = k] \in Waveform!Controllers
         /\ [w EXCEPT !.stage = st, !.worker = k, !.summary = su] \in Waveform!Controllers
<1>1. [w EXCEPT !.source = so, !.stage = st, !.bytes = b] \in Waveform!Controllers
  BY DEF Waveform!Controllers
<1>2. [w EXCEPT !.source = so, !.stage = st, !.bytes = b, !.summary = su] \in Waveform!Controllers
  BY DEF Waveform!Controllers
<1>3. [w EXCEPT !.stage = st, !.bytes = b, !.worker = k] \in Waveform!Controllers
  BY DEF Waveform!Controllers
<1>4. [w EXCEPT !.stage = st, !.summary = su, !.worker = k] \in Waveform!Controllers
  BY DEF Waveform!Controllers
<1>5. [w EXCEPT !.stage = st, !.worker = k, !.summary = su] \in Waveform!Controllers
  BY DEF Waveform!Controllers
<1>6. QED BY <1>1, <1>2, <1>3, <1>4, <1>5

(* What TypeOK says of a controller.                                        *)
TypedRecord ==
  [open : BOOLEAN, active : PanelSongs \cup {None}, token : 0 .. WaveTokens, stage : Waveform!Stages,
   source : PanelSongs \cup {None}, bytes : BOOLEAN,
   summary : [song : PanelSongs, exact : BOOLEAN] \cup {None}, worker : Waveform!Worker \cup {None}]

(* A controller within the bound has the type.                              *)
LEMMA TypedController ==
  ASSUME NEW w \in Waveform!Controllers, w.token \in 0 .. WaveTokens PROVE w \in TypedRecord
BY DEF Waveform!Controllers, TypedRecord

(* cancel leaves nothing that would have to be the song's.                  *)
LEMMA CancelledIsControlled ==
  ASSUME NEW w \in Waveform!Controllers, NEW us
  PROVE  Waveform!IsControlled(Waveform!Cancelled(w), us) /\ Waveform!Cancelled(w).token = w.token + 1
         /\ Waveform!Cancelled(w).open = w.open /\ Waveform!Cancelled(w).active = w.active /\ Waveform!Cancelled(w).stage = "idle"
         /\ Waveform!Cancelled(w).source = None /\ Waveform!Cancelled(w).summary = None /\ Waveform!Cancelled(w).worker = None
<1>1. w.open \in BOOLEAN /\ w.active \in PanelSongs \cup {None} /\ w.token + 1 \in Nat
  BY FieldsOf
<1>2. Waveform!Cancelled(w) \in Waveform!Controllers
  BY <1>1, AreStages DEF Waveform!Cancelled, Waveform!Controllers
<1>3. Waveform!Coherent(Waveform!Cancelled(w), us)
  BY DEF Waveform!Coherent, Waveform!Cancelled
<1>4. QED BY <1>2, <1>3 DEF Waveform!IsControlled, Waveform!Cancelled

(* setActiveSong cancels when the song is another one.                      *)
LEMMA ActivatedIsControlled ==
  ASSUME NEW w, NEW ts, Waveform!IsControlled(w, ts), NEW s \in PanelSongs \cup {None}
  PROVE  /\ Waveform!IsControlled(Waveform!Activated(w, s), ts) /\ Waveform!Activated(w, s).active = s
         /\ Waveform!Activated(w, s).open = w.open
         /\ w.active = s => Waveform!Activated(w, s) = w
         /\ w.active # s => /\ Waveform!Activated(w, s).source = None /\ Waveform!Activated(w, s).token = w.token + 1
                            /\ Waveform!Activated(w, s).summary = None /\ Waveform!Activated(w, s).worker = None
<1>1. CASE w.active = s BY <1>1 DEF Waveform!Activated
<1>2. CASE w.active # s
  <2> DEFINE c == Waveform!Cancelled(w)
             st == IF w.open /\ s # None THEN "waiting" ELSE "idle"
  <2>1. /\ c \in Waveform!Controllers /\ c.token = w.token + 1 /\ c.open = w.open
        /\ c.source = None /\ c.summary = None /\ c.worker = None
    BY CancelledIsControlled DEF Waveform!IsControlled
  <2>2. Waveform!Activated(w, s) = [c EXCEPT !.active = s, !.stage = st]
    BY <1>2 DEF Waveform!Activated
  <2>3. st \in Waveform!Stages /\ st # "processing" /\ st # "fetching" BY AreStages
  <2> HIDE DEF c, st
  <2> DEFINE a == [c EXCEPT !.active = s, !.stage = st]
  <2>4. a \in Waveform!Controllers BY <2>1, <2>3, Assigned
  <2>5. /\ a.active = s /\ a.stage = st /\ a.token = c.token /\ a.open = c.open
        /\ a.source = c.source /\ a.summary = c.summary /\ a.worker = c.worker
    BY <2>1 DEF Waveform!Controllers
  <2> HIDE DEF a
  <2>6. Waveform!Coherent(a, ts) BY <2>1, <2>3, <2>5 DEF Waveform!Coherent
  <2>7. QED BY <1>2, <2>1, <2>2, <2>4, <2>5, <2>6 DEF Waveform!IsControlled, a
<1>3. QED BY <1>1, <1>2

(* The panel starts idle, with an empty cache.                              *)
LEMMA WaveformInit == Waveform!LimitAndNone /\ Waveform!Init => Waveform!IInv
<1> SUFFICES ASSUME Waveform!LimitAndNone, Waveform!Init PROVE Waveform!IInv OBVIOUS
<1>1. PICK o \in BOOLEAN :
        v3 = [open |-> o, active |-> None, token |-> 0, stage |-> "idle", source |-> None,
              bytes |-> FALSE, summary |-> None, worker |-> None]
  BY DEF Waveform!Init
<1>2. v3 \in Waveform!Controllers BY <1>1, AreStages DEF Waveform!Controllers
<1>3. v3.token \in 0 .. WaveTokens /\ Waveform!Coherent(v3, v4)
  BY <1>1 DEF Waveform!Coherent, Waveform!LimitAndNone
<1>4. Waveform!AreRecords(v6) BY DEF Waveform!Init, Waveform!AreRecords, Waveform!LimitAndNone
<1>5. Waveform!TypeOK
  <2>1. v1 \in PanelSongs \cup {None} /\ v2 \in BOOLEAN /\ v4 \subseteq Waveform!Task /\ v5 \subseteq Waveform!Worker
    BY DEF Waveform!Init
  <2>2. v6 \in Seq([key : PanelSongs, of : PanelSongs]) /\ Len(v6) <= Limit
    BY <1>4 DEF Waveform!AreRecords
  <2>3. QED BY <1>2, <1>3, <2>1, <2>2, TypedController DEF Waveform!TypeOK, TypedRecord
<1>6. QED BY <1>2, <1>3, <1>4, <1>5 DEF Waveform!IInv, Waveform!IsControlled

(* What startForCurrentSong makes of a controller that is in order.         *)
LEMMA StartKeeps ==
  ASSUME Waveform!LimitAndNone, Waveform!IInv, NEW w, Waveform!IsControlled(w, v4), w.token <= WaveTokens,
         NEW kept, Waveform!AreRecords(kept), NEW on, Waveform!Start(w, kept, on)
  PROVE  /\ Waveform!IsControlled(v3', v4') /\ v3'.token <= WaveTokens /\ Waveform!AreRecords(v6')
         /\ v4' \subseteq Waveform!Task
<1> DEFINE a == Waveform!Activated(w, v1)
           NewTask(step, again) == [song |-> v1, token |-> a.token, step |-> step, again |-> again]
<1>0. v1 \in PanelSongs \cup {None} /\ v4 \subseteq Waveform!Task
  BY DEF Waveform!IInv, Waveform!TypeOK
<1>1. CASE ~w.open /\ v3' = w /\ v6' = kept /\ UNCHANGED v4 BY <1>0, <1>1
<1>2. CASE w.open /\ v3' = [w EXCEPT !.stage = "waiting"] /\ v6' = kept /\ UNCHANGED v4
  <2>1. v3' \in Waveform!Controllers BY <1>2, Assigned, AreStages DEF Waveform!IsControlled
  <2>2. Waveform!Coherent(v3', v4') /\ v3'.token <= WaveTokens
    BY <1>2 DEF Waveform!IsControlled, Waveform!Coherent, Waveform!Controllers
  <2>3. QED BY <1>0, <1>2, <2>1, <2>2 DEF Waveform!IsControlled
<1>3. CASE w.open /\ v1 # None /\ on /\ a.token <= WaveTokens
  <2>0. Waveform!IsControlled(a, v4) /\ a.active = v1 /\ a.open /\ v1 \in PanelSongs /\ a.token \in 0 .. WaveTokens
    <3>1. Waveform!IsControlled(a, v4) /\ a.active = v1 /\ a.open
      BY <1>0, <1>3, ActivatedIsControlled
    <3>2. a.token \in Nat BY <3>1, FieldsOf DEF Waveform!IsControlled
    <3> HIDE DEF a
    <3>3. a.token \in 0 .. WaveTokens BY <1>3, <3>2 DEF Waveform!LimitAndNone, a
    <3>4. QED BY <1>0, <1>3, <3>1, <3>3 DEF a
  <2> HIDE DEF a
  <2>1. CASE v3' = a /\ v6' = kept
             /\ (v4' = v4 \cup {NewTask("resume", TRUE)} \/ v4' = v4)
    <3>1. NewTask("resume", TRUE) \in Waveform!Task BY <2>0 DEF Waveform!Task
    <3>2. v4 \subseteq v4' /\ v4' \subseteq Waveform!Task BY <1>0, <2>1, <3>1
    <3>3. Waveform!Coherent(a, v4') BY <2>0, <3>2 DEF Waveform!IsControlled, Waveform!Coherent
    <3>4. QED BY <2>0, <2>1, <3>2, <3>3 DEF Waveform!IsControlled
  <2>2. ASSUME NEW r \in Waveform!Kept(v1, kept),
               v3' = [a EXCEPT !.source = v1, !.stage = "ready", !.bytes = FALSE,
                               !.summary = [song |-> r.of, exact |-> TRUE]],
               v6' = Waveform!Merged(r, kept), UNCHANGED v4
        PROVE  Waveform!IsControlled(v3', v4') /\ v3'.token <= WaveTokens /\ Waveform!AreRecords(v6')
               /\ v4' \subseteq Waveform!Task
    <3>1. r \in [key : PanelSongs, of : PanelSongs] /\ r.of = r.key /\ r.key = v1
      <4>1. PICK i \in DOMAIN kept : kept[i] = r BY <2>2 DEF Waveform!Kept, Waveform!Range
      <4>3. kept[i] \in [key : PanelSongs, of : PanelSongs] /\ kept[i].of = kept[i].key
        BY RecordOf
      <4>4. r.key = v1 BY <2>2 DEF Waveform!Kept
      <4>5. QED BY <4>1, <4>3, <4>4
    <3>2. Waveform!AreRecords(v6') BY <2>2, <3>1, MergedIsKept
    <3>3. [song |-> r.of, exact |-> TRUE] \in [song : PanelSongs, exact : BOOLEAN] BY <3>1
    <3>4. v3' \in Waveform!Controllers
      BY <2>0, <2>2, <3>3, AssignedMore, AreStages DEF Waveform!IsControlled
    <3>5. /\ v3'.open /\ v3'.active = v1 /\ v3'.token = a.token /\ v3'.stage = "ready"
          /\ v3'.summary = [song |-> r.of, exact |-> TRUE] /\ v3'.worker = a.worker
      BY <2>0, <2>2 DEF Waveform!IsControlled, Waveform!Controllers
    <3>6. Waveform!Coherent(v3', v4')
      BY <2>0, <3>1, <3>5 DEF Waveform!IsControlled, Waveform!Coherent
    <3>7. QED BY <1>0, <2>0, <2>2, <3>2, <3>4, <3>5, <3>6 DEF Waveform!IsControlled
  <2>3. CASE /\ v3' = [a EXCEPT !.source = v1, !.stage = "fetching", !.bytes = FALSE]
             /\ v4' = v4 \cup {NewTask("fetch", FALSE)} /\ v6' = kept
    <3>1. NewTask("fetch", FALSE) \in Waveform!Task BY <2>0 DEF Waveform!Task
    <3>2. NewTask("fetch", FALSE) \in v4' BY <2>3
    <3>3. v3' \in Waveform!Controllers
      BY <2>0, <2>3, AssignedMore, AreStages, FieldsOf DEF Waveform!IsControlled
    <3>4. /\ v3'.open /\ v3'.active = v1 /\ v3'.token = a.token /\ v3'.stage = "fetching"
          /\ v3'.summary = a.summary /\ v3'.worker = a.worker
      BY <2>0, <2>3 DEF Waveform!IsControlled, Waveform!Controllers
    <3>5. Waveform!Coherent(v3', v4')
      BY <2>0, <3>2, <3>4 DEF Waveform!IsControlled, Waveform!Coherent
    <3>6. v4' \subseteq Waveform!Task BY <1>0, <2>3, <3>1
    <3>7. Waveform!AreRecords(v6') BY <2>3
    <3>8. v3'.token <= WaveTokens BY <2>0, <3>4
    <3>9. QED BY <3>3, <3>5, <3>6, <3>7, <3>8 DEF Waveform!IsControlled
  <2>4. QED BY <1>3, <2>1, <2>2, <2>3 DEF Waveform!Start, a
<1>4. QED BY <1>1, <1>2, <1>3 DEF Waveform!Start

(* A worker that is terminated may have a message queued.                   *)
LEMMA WorkerEnds ==
  ASSUME Waveform!IInv, Waveform!EndWorker PROVE v5' \subseteq Waveform!Worker
BY DEF Waveform!EndWorker, Waveform!IInv, Waveform!TypeOK

(* What is left to say of TypeOK when the controller is in order.           *)
LEMMA InvFrom ==
  ASSUME Waveform!LimitAndNone, Waveform!IsControlled(v3', v4'), v3'.token <= WaveTokens, Waveform!AreRecords(v6'),
         v4' \subseteq Waveform!Task, v5' \subseteq Waveform!Worker, v1' \in PanelSongs \cup {None},
         v2' \in BOOLEAN
  PROVE  Waveform!IInv'
<1>1. v3'.token \in 0 .. WaveTokens
  BY FieldsOf DEF Waveform!IsControlled, Waveform!LimitAndNone
<1>2. v3' \in TypedRecord BY <1>1, TypedController DEF Waveform!IsControlled
<1>3. QED BY <1>2 DEF Waveform!IInv, Waveform!TypeOK, TypedRecord, Waveform!AreRecords

(* Every step keeps the invariant.                                          *)
LEMMA WaveformNext ==
  ASSUME Waveform!LimitAndNone, Waveform!IInv, [Waveform!Next]_(Waveform!vars)
  PROVE  Waveform!IInv'
<1>0. /\ Waveform!IsControlled(v3, v4) /\ v3.token \in 0 .. WaveTokens /\ Waveform!AreRecords(v6)
      /\ v4 \subseteq Waveform!Task /\ v5 \subseteq Waveform!Worker /\ v1 \in PanelSongs \cup {None} /\ v2 \in BOOLEAN
  <2>1. v3.token \in 0 .. WaveTokens BY DEF Waveform!IInv, Waveform!TypeOK
  <2>2. QED BY <2>1 DEF Waveform!IInv, Waveform!TypeOK
<1>17. v3.token <= WaveTokens BY <1>0 DEF Waveform!LimitAndNone
<1>18. v3 \in Waveform!Controllers /\ Waveform!Coherent(v3, v4)
  BY <1>0 DEF Waveform!IsControlled
<1>1. ASSUME NEW s \in PanelSongs \cup {None}, Waveform!PlaySong(s) PROVE Waveform!IInv'
  <2>1. Waveform!IsControlled(v3', v4') /\ v3'.token <= WaveTokens
    BY <1>0, <1>1, ActivatedIsControlled
    DEF Waveform!PlaySong, Waveform!Room, Waveform!LimitAndNone
  <2>2. v5' \subseteq Waveform!Worker BY <1>1, WorkerEnds DEF Waveform!PlaySong
  <2>3. QED BY <1>0, <1>1, <2>1, <2>2, InvFrom DEF Waveform!PlaySong
<1>2. CASE Waveform!Emptied
  <2>1. Waveform!IsControlled(v3', v4') /\ v3'.token <= WaveTokens
    BY <1>0, <1>2, ActivatedIsControlled
    DEF Waveform!Emptied, Waveform!Room, Waveform!LimitAndNone
  <2>2. v5' \subseteq Waveform!Worker BY <1>2, WorkerEnds DEF Waveform!Emptied
  <2>3. QED BY <1>0, <1>2, <2>1, <2>2, InvFrom DEF Waveform!Emptied
<1>3. CASE Waveform!Playing
  <2>1. Waveform!IsControlled(v3', v4') /\ v3'.token <= WaveTokens /\ Waveform!AreRecords(v6')
        /\ v4' \subseteq Waveform!Task
    <3>1. Waveform!Start(v3, v6, TRUE) BY <1>3 DEF Waveform!Playing
    <3>2. QED BY <1>0, <1>17, <3>1, StartKeeps
  <2>2. v5' \subseteq Waveform!Worker BY <1>3, WorkerEnds DEF Waveform!Playing
  <2>3. QED BY <1>0, <1>3, <2>1, <2>2, InvFrom DEF Waveform!Playing
<1>4. CASE Waveform!Pause BY <1>0, <1>17, <1>4, InvFrom DEF Waveform!Pause
<1>5. CASE Waveform!Open
  <2> DEFINE w == [v3 EXCEPT !.open = TRUE]
  <2>0. Waveform!Start(w, v6, v2) /\ ~v3.open BY <1>5 DEF Waveform!Open
  <2>9. w \in Waveform!Controllers BY <1>18, Assigned
  <2>1. Waveform!IsControlled(w, v4) /\ w.token <= WaveTokens
    <3>1. Waveform!Coherent(w, v4) /\ w.token = v3.token
      BY <1>18, <2>0 DEF Waveform!Coherent, Waveform!Controllers
    <3>2. QED BY <1>0, <2>9, <3>1 DEF Waveform!IsControlled
  <2>2. Waveform!Start(w, v6, v2) BY <2>0
  <2> HIDE DEF w
  <2>3. Waveform!IsControlled(v3', v4') /\ v3'.token <= WaveTokens /\ Waveform!AreRecords(v6')
        /\ v4' \subseteq Waveform!Task
    BY <1>0, <2>1, <2>2, StartKeeps
  <2>4. v5' \subseteq Waveform!Worker BY <1>5, WorkerEnds DEF Waveform!Open
  <2>5. QED BY <1>0, <1>5, <2>3, <2>4, InvFrom DEF Waveform!Open
<1>6. CASE Waveform!Close
  <2> DEFINE w == [v3 EXCEPT !.open = FALSE]
  <2>1. v3' = Waveform!Cancelled(w) /\ v4' = v4 BY <1>6 DEF Waveform!Close
  <2>8. w \in Waveform!Controllers BY <1>18, Assigned
  <2>7. w.token = v3.token BY <1>18 DEF Waveform!Controllers
  <2>9. w \in Waveform!Controllers /\ w.token = v3.token BY <2>7, <2>8
  <2> HIDE DEF w
  <2>2. Waveform!IsControlled(v3', v4') /\ v3'.token = v3.token + 1
    BY <2>1, <2>9, CancelledIsControlled
  <2>3. v3'.token <= WaveTokens
    BY <1>0, <1>6, <2>2 DEF Waveform!Close, Waveform!Room, Waveform!LimitAndNone
  <2>4. v5' \subseteq Waveform!Worker BY <1>6, WorkerEnds DEF Waveform!Close
  <2>5. QED BY <1>0, <1>6, <2>2, <2>3, <2>4, InvFrom DEF Waveform!Close
<1>7. CASE Waveform!Reload
  <2> DEFINE s == IF v1 # None THEN v1 ELSE v3.active
             kept == Waveform!Without(s, v6)
             c == Waveform!Cancelled(v3)
             w == IF v1 # None /\ v2 /\ c.open
                    THEN [c EXCEPT !.active = s, !.stage = "waiting"] ELSE c
  <2>1. Waveform!Start(w, kept, v2) BY <1>7 DEF Waveform!Reload
  <2>2. Waveform!IsControlled(c, v4) /\ c.token <= WaveTokens /\ c.summary = None /\ c.worker = None
    <3>1. v3.token < WaveTokens BY <1>7 DEF Waveform!Reload, Waveform!Room
    <3> HIDE DEF c
    <3>2. QED BY <1>0, <1>18, <3>1, CancelledIsControlled DEF Waveform!LimitAndNone, c
  <2>3. s \in PanelSongs \cup {None} BY <1>0 DEF Waveform!IsControlled, Waveform!Controllers
  <2> HIDE DEF c, s
  <2>4. Waveform!IsControlled(w, v4) /\ w.token <= WaveTokens
    <3> DEFINE d == [c EXCEPT !.active = s, !.stage = "waiting"]
    <3>1. d \in Waveform!Controllers
      BY <2>2, <2>3, Assigned, AreStages DEF Waveform!IsControlled
    <3>2. /\ d.stage = "waiting" /\ d.token = c.token /\ d.summary = None /\ d.worker = None
      BY <2>2 DEF Waveform!IsControlled, Waveform!Controllers
    <3>3. Waveform!Coherent(d, v4) BY <3>2 DEF Waveform!Coherent
    <3>4. w = d \/ w = c OBVIOUS
    <3> HIDE DEF d, w
    <3>5. QED BY <2>2, <3>1, <3>2, <3>3, <3>4 DEF Waveform!IsControlled
  <2>5. Waveform!AreRecords(kept)
    <3>1. CASE s \in PanelSongs BY <1>0, <3>1, WithoutIsShorter
    <3>2. CASE s = None
      <4>3. \A i \in DOMAIN v6 : v6[i].key \in PanelSongs BY <1>0, RecordOf
      <4>4. ~\E i \in DOMAIN v6 : v6[i].key = s BY <3>2, <4>3 DEF Waveform!LimitAndNone
      <4>2. QED BY <1>0, <4>4 DEF Waveform!Without
    <3>3. QED BY <2>3, <3>1, <3>2
  <2> HIDE DEF w, kept
  <2>6. Waveform!IsControlled(v3', v4') /\ v3'.token <= WaveTokens /\ Waveform!AreRecords(v6')
        /\ v4' \subseteq Waveform!Task
    BY <1>0, <2>1, <2>4, <2>5, StartKeeps
  <2>7. v5' \subseteq Waveform!Worker BY <1>7, WorkerEnds DEF Waveform!Reload
  <2>8. QED BY <1>0, <1>7, <2>6, <2>7, InvFrom DEF Waveform!Reload
<1>8. ASSUME NEW t \in v4, Waveform!FetchDone(t) PROVE Waveform!IInv'
  <2>0. t \in Waveform!Task /\ t.step = "fetch" BY <1>0, <1>8 DEF Waveform!FetchDone
  <2>1. v4' \subseteq Waveform!Task
    BY <1>0, <1>8, <2>0 DEF Waveform!FetchDone, Waveform!Continued, Waveform!Task
  <2>2. Waveform!IsControlled(v3', v4') /\ v3'.token <= WaveTokens
    <3>1. CASE Waveform!IsCurrent(t.song, t.token)
      <4>1. v3' = [v3 EXCEPT !.stage = "loaded", !.bytes = TRUE]
        BY <1>8, <3>1 DEF Waveform!FetchDone
      <4>2. v3' \in Waveform!Controllers BY <1>18, <4>1, Assigned, AreStages
      <4>3. Waveform!Coherent(v3', v4') /\ v3'.token = v3.token
        BY <1>18, <4>1 DEF Waveform!Coherent, Waveform!Controllers
      <4>4. QED BY <1>0, <4>2, <4>3 DEF Waveform!IsControlled
    <3>2. CASE ~Waveform!IsCurrent(t.song, t.token)
      <4>1. v3' = v3 /\ v4' = v4 \ {t} BY <1>8, <3>2 DEF Waveform!FetchDone
      <4>2. Waveform!Coherent(v3', v4')
        BY <1>18, <3>2, <4>1 DEF Waveform!Coherent, Waveform!IsCurrent
      <4>3. QED BY <1>0, <1>18, <4>1, <4>2 DEF Waveform!IsControlled
    <3>3. QED BY <3>1, <3>2
  <2>3. QED BY <1>0, <1>8, <2>1, <2>2, InvFrom DEF Waveform!FetchDone
<1>9. ASSUME NEW t \in v4, Waveform!Resumed(t) PROVE Waveform!IInv'
  <2>1. v4' \subseteq Waveform!Task
    BY <1>0, <1>9 DEF Waveform!Resumed, Waveform!Continued, Waveform!Task
  <2>2. Waveform!IsControlled(v3', v4') /\ v3'.token <= WaveTokens
    <3>1. v3' = [v3 EXCEPT !.stage = "decoding", !.bytes = FALSE] BY <1>9 DEF Waveform!Resumed
    <3>2. v3' \in Waveform!Controllers BY <1>18, <3>1, Assigned, AreStages
    <3>3. Waveform!Coherent(v3', v4') /\ v3'.token = v3.token
      BY <1>18, <3>1 DEF Waveform!Coherent, Waveform!Controllers
    <3>4. QED BY <1>0, <3>2, <3>3 DEF Waveform!IsControlled
  <2>3. QED BY <1>0, <1>9, <2>1, <2>2, InvFrom DEF Waveform!Resumed
<1>10. ASSUME NEW t \in v4, Waveform!Decoded(t) PROVE Waveform!IInv'
  <2>0. t \in Waveform!Task /\ v4' = v4 \ {t} /\ t.step = "decode"
    BY <1>0, <1>10 DEF Waveform!Decoded
  <2>1. CASE Waveform!IsCurrent(t.song, t.token)
    <3> DEFINE k == [song |-> t.song, token |-> t.token, posted |-> "nothing"]
    <3>1. v3' = [v3 EXCEPT !.stage = "processing", !.summary = None, !.worker = k]
      BY <1>10, <2>1 DEF Waveform!Decoded
    <3>2. k \in Waveform!Worker /\ k # None /\ k.song = v3.active /\ k.token = v3.token /\ v3.open
      BY <2>0, <2>1
      DEF Waveform!Task, Waveform!Worker, Waveform!LimitAndNone, Waveform!IsCurrent
    <3> HIDE DEF k
    <3>3. Waveform!IsControlled(v3', v4') /\ v3'.token <= WaveTokens
      <4>1. v3' \in Waveform!Controllers
        BY <1>18, <3>1, <3>2, AssignedMore, AreStages, FieldsOf
      <4>2. /\ v3'.open = v3.open /\ v3'.active = v3.active /\ v3'.token = v3.token
            /\ v3'.stage = "processing" /\ v3'.summary = None /\ v3'.worker = k
        BY <1>18, <3>1 DEF Waveform!Controllers
      <4>3. Waveform!Coherent(v3', v4') BY <3>2, <4>2 DEF Waveform!Coherent
      <4>4. QED BY <1>0, <4>1, <4>2, <4>3 DEF Waveform!IsControlled
    <3>4. QED BY <1>0, <1>10, <2>0, <3>3, InvFrom DEF Waveform!Decoded
  <2>2. CASE ~Waveform!IsCurrent(t.song, t.token)
    <3>1. v3' = v3 BY <1>10, <2>2 DEF Waveform!Decoded
    <3>2. Waveform!IsControlled(v3', v4')
      BY <1>18, <2>0, <3>1 DEF Waveform!IsControlled, Waveform!Coherent
    <3>3. QED BY <1>0, <1>10, <2>0, <3>1, <3>2, InvFrom DEF Waveform!Decoded
  <2>3. QED BY <2>1, <2>2
<1>11. ASSUME NEW t \in v4, Waveform!TaskFails(t) PROVE Waveform!IInv'
  <2>0. t \in Waveform!Task /\ v4' = v4 \ {t} BY <1>0, <1>11 DEF Waveform!TaskFails
  <2>1. Waveform!IsControlled(v3', v4') /\ v3'.token <= WaveTokens
    <3>1. CASE Waveform!IsCurrent(t.song, t.token)
      <4> DEFINE k == IF t.step = "decode" THEN None ELSE v3.worker
      <4>1. v3' = [v3 EXCEPT !.stage = "error", !.bytes = FALSE, !.worker = k]
        BY <1>11, <3>1 DEF Waveform!TaskFails
      <4>2. k \in Waveform!Worker \cup {None} /\ (k = None \/ k = v3.worker)
        BY <1>18, FieldsOf
      <4> HIDE DEF k
      <4>3. v3' \in Waveform!Controllers
        BY <1>18, <4>1, <4>2, AssignedMore, AreStages, FieldsOf
      <4>4. /\ v3'.open = v3.open /\ v3'.active = v3.active /\ v3'.token = v3.token
            /\ v3'.stage = "error" /\ v3'.summary = v3.summary /\ v3'.worker = k
        BY <1>18, <4>1 DEF Waveform!Controllers
      <4>5. Waveform!Coherent(v3', v4') BY <1>18, <4>2, <4>4 DEF Waveform!Coherent
      <4>6. QED BY <1>0, <4>3, <4>4, <4>5 DEF Waveform!IsControlled
    <3>2. CASE ~Waveform!IsCurrent(t.song, t.token)
      <4>1. v3' = v3 BY <1>11, <3>2 DEF Waveform!TaskFails
      <4>2. Waveform!Coherent(v3', v4')
        BY <1>18, <2>0, <3>2, <4>1 DEF Waveform!Coherent, Waveform!IsCurrent
      <4>3. QED BY <1>0, <1>18, <4>1, <4>2 DEF Waveform!IsControlled
    <3>3. QED BY <3>1, <3>2
  <2>2. v5' \subseteq Waveform!Worker BY <1>11, WorkerEnds DEF Waveform!TaskFails
  <2>3. QED BY <1>0, <1>11, <2>0, <2>1, <2>2, InvFrom DEF Waveform!TaskFails
<1>12. ASSUME NEW k \in Waveform!Workers, Waveform!Summary(k) PROVE Waveform!IInv'
  <2>0. k \in Waveform!Worker
    BY <1>0 DEF Waveform!Workers, Waveform!IsControlled, Waveform!Controllers
  <2>1. CASE Waveform!IsHeard(k)
    <3> DEFINE posted == IF k.posted = "nothing" THEN "preview" ELSE "exact"
    <3>1. v3' = [v3 EXCEPT !.stage = "processing", !.worker.posted = posted,
                             !.summary = Waveform!SummaryOf(k, posted)]
      BY <1>12, <2>1 DEF Waveform!Summary
    <3>2. v3.worker # None /\ k.song = v3.active /\ v3.open
      BY <2>1 DEF Waveform!IsHeard, Waveform!IsCurrent
    <3>3. Waveform!SummaryOf(k, posted) \in [song : PanelSongs, exact : BOOLEAN] /\ Waveform!SummaryOf(k, posted).song = v3.active
      BY <2>0, <3>2 DEF Waveform!SummaryOf, Waveform!Worker
    <3>4. posted \in {"preview", "exact"} OBVIOUS
    <3> HIDE DEF posted
    <3>5. v3.worker \in Waveform!Worker
      BY <1>0, <3>2 DEF Waveform!IsControlled, Waveform!Controllers
    <3>6. v3'.worker = [v3.worker EXCEPT !.posted = posted]
      BY <1>0, <3>1 DEF Waveform!IsControlled, Waveform!Controllers
    <3>7. v3'.worker \in Waveform!Worker /\ v3'.worker.song = v3.worker.song
          /\ v3'.worker.token = v3.worker.token
      BY <3>4, <3>5, <3>6 DEF Waveform!Worker
    <3>8. v3'.worker # None BY <3>7 DEF Waveform!LimitAndNone
    <3>9. Waveform!IsControlled(v3', v4') /\ v3'.token <= WaveTokens
      <4> DEFINE j == [v3.worker EXCEPT !.posted = posted]
                 su == Waveform!SummaryOf(k, posted)
      <4>1. v3' = [v3 EXCEPT !.stage = "processing", !.worker = j, !.summary = su]
        BY <1>18, <3>1 DEF Waveform!Controllers
      <4>2. j \in Waveform!Worker /\ j = v3'.worker BY <3>6, <3>7
      <4> HIDE DEF j, su
      <4>3. v3' \in Waveform!Controllers
        BY <1>18, <3>3, <4>1, <4>2, AssignedMore, AreStages, FieldsOf DEF su
      <4>4. /\ v3'.open = v3.open /\ v3'.active = v3.active /\ v3'.token = v3.token
            /\ v3'.stage = "processing" /\ v3'.summary = su
        BY <1>18, <4>1 DEF Waveform!Controllers
      <4>5. Waveform!Coherent(v3', v4')
        BY <1>18, <3>2, <3>3, <3>7, <3>8, <4>4 DEF Waveform!Coherent, su
      <4>6. QED BY <1>0, <4>3, <4>4, <4>5 DEF Waveform!IsControlled
    <3>10. QED BY <1>0, <1>12, <3>9, InvFrom DEF Waveform!Summary
  <2>2. CASE ~Waveform!IsHeard(k) BY <1>0, <1>12, <2>2, InvFrom DEF Waveform!Summary
  <2>3. QED BY <2>1, <2>2
<1>13. ASSUME NEW k \in Waveform!Workers, Waveform!Complete(k) PROVE Waveform!IInv'
  <2>0. k \in Waveform!Worker
    BY <1>0 DEF Waveform!Workers, Waveform!IsControlled, Waveform!Controllers
  <2>1. CASE Waveform!IsHeard(k)
    <3>1. v3' = [v3 EXCEPT !.stage = "ready", !.worker = None]
      BY <1>13, <2>1 DEF Waveform!Complete
    <3>2. Waveform!IsControlled(v3', v4') /\ v3'.token <= WaveTokens
      <4>1. v3' \in Waveform!Controllers BY <1>18, <3>1, Assigned, AreStages
      <4>2. /\ v3'.open = v3.open /\ v3'.active = v3.active /\ v3'.token = v3.token
            /\ v3'.stage = "ready" /\ v3'.summary = v3.summary /\ v3'.worker = None
        BY <1>18, <3>1 DEF Waveform!Controllers
      <4>3. Waveform!Coherent(v3', v4') BY <1>18, <4>2 DEF Waveform!Coherent
      <4>4. QED BY <1>0, <4>1, <4>2, <4>3 DEF Waveform!IsControlled
    <3>3. Waveform!AreRecords(v6')
      <4>1. CASE v3.summary = None BY <1>0, <1>13, <2>1, <4>1 DEF Waveform!Complete
      <4>2. CASE v3.summary # None
        <5> DEFINE r == [key |-> k.song, of |-> v3.summary.song]
        <5>1. v6' = Waveform!Merged(r, v6) BY <1>13, <2>1, <4>2 DEF Waveform!Complete
        <5>2. v3.summary.song = v3.active /\ k.song = v3.active /\ k.song \in PanelSongs
          BY <1>0, <2>0, <2>1, <4>2
          DEF Waveform!IsControlled, Waveform!Coherent, Waveform!Controllers,
              Waveform!IsHeard, Waveform!IsCurrent, Waveform!Worker
        <5>3. r \in [key : PanelSongs, of : PanelSongs] /\ r.of = r.key BY <5>2
        <5> HIDE DEF r
        <5>4. QED BY <1>0, <5>1, <5>3, MergedIsKept
      <4>3. QED BY <4>1, <4>2
    <3>4. QED BY <1>0, <1>13, <3>2, <3>3, InvFrom DEF Waveform!Complete
  <2>2. CASE ~Waveform!IsHeard(k) BY <1>0, <1>13, <2>2, InvFrom DEF Waveform!Complete
  <2>3. QED BY <2>1, <2>2
<1>14. CASE Waveform!WorkerFails
  <2>1. Waveform!IsControlled(v3', v4') /\ v3'.token <= WaveTokens
    <3>0. v3' = [v3 EXCEPT !.stage = "error", !.worker = None]
      BY <1>14 DEF Waveform!WorkerFails
    <3>1. v3' \in Waveform!Controllers BY <1>18, <3>0, Assigned, AreStages
    <3>2. /\ v3'.open = v3.open /\ v3'.active = v3.active /\ v3'.token = v3.token
          /\ v3'.stage = "error" /\ v3'.summary = v3.summary /\ v3'.worker = None
      BY <1>18, <3>0 DEF Waveform!Controllers
    <3>3. Waveform!Coherent(v3', v4') BY <1>18, <3>2 DEF Waveform!Coherent
    <3>4. QED BY <1>0, <3>1, <3>2, <3>3 DEF Waveform!IsControlled
  <2>2. QED BY <1>0, <1>14, <2>1, InvFrom DEF Waveform!WorkerFails
<1>15. CASE UNCHANGED Waveform!vars BY <1>0, <1>15, InvFrom DEF Waveform!vars
<1>16. QED
  BY <1>1, <1>2, <1>3, <1>4, <1>5, <1>6, <1>7, <1>8, <1>9, <1>10, <1>11, <1>12, <1>13, <1>14,
     <1>15
  DEF Waveform!Next

(* The invariant says what Parts checks of the panel.                       *)
LEMMA WaveformMeans == Waveform!IInv => Waveform!SummaryIsSongs /\ Waveform!StageHasWork
BY DEF Waveform!IInv, Waveform!TypeOK, Waveform!IsControlled, Waveform!Coherent,
   Waveform!Controllers, Waveform!AreRecords, Waveform!SummaryIsSongs, Waveform!StageHasWork,
   Waveform!IsHeard, Waveform!IsCurrent, Waveform!Range

-----------------------------------------------------------------------------
(* The video pane: what a step may do to the player without disturbing its  *)
(* session or its chains of requests; then each request and each answer.    *)
(* A chain is taken away when its answer is handled, and only the newest    *)
(* goes on, under the token it has; whoever starts another takes the next   *)
(* token.  So a session is only attached for the item of the newest chain,  *)
(* and a change of the item asks for a stop of the session it leaves        *)
(* attached.  A seek that gives its session up goes on as the newest chain, *)
(* and whatever makes another chain the newest ends it.                     *)

(* A player whose chains and session are in order, and what the operators   *)
(* leave alone of it.                                                       *)
Fit(p) == p \in Video!Player(Nat) /\ Video!ChainsApart(p) /\ Video!PlaysActive(p)
Sound(p) == Fit(p) /\ Video!Seeking(p)
Same(p, q) == q.token = p.token /\ q.item = p.item /\ q.chains = p.chains /\ q.stops = p.stops
(* A chain that may go on: no other has its token.                          *)
May(p, c) ==
  /\ c \in Video!Chain(Nat) /\ c.token <= p.token /\ (c.token = p.token => c.item = p.item)
  /\ c.kind # "clear" => c.item # None
  /\ \A d \in p.chains : d.token # c.token

(* A chain asks for the compatibility of its item.                          *)
Probe(p, c) == [p EXCEPT !.chains = @ \cup {[c EXCEPT !.at = "probing"]}]

(* The fields of a player have their types.                                 *)
LEMMA PlayerFields ==
  ASSUME NEW p \in Video!Player(Nat)
  PROVE  /\ p.token \in Nat /\ p.item \in Videos \cup {None} /\ p.position \in Positions
         /\ p.local \in Video!Session(Nat) \cup {None} /\ p.requested \in Positions \cup {None}
         /\ p.recovery \in [target : Positions, forced : BOOLEAN, transcode : BOOLEAN] \cup {None}
         /\ p.seeking \in BOOLEAN /\ p.chains \subseteq Video!Chain(Nat)
         /\ p.tried \in SUBSET (Videos \X Positions)
         /\ p.stops \subseteq [id : Nat, chain : Nat]
<1>1. Nat \cup {0} = Nat OBVIOUS
<1>2. QED BY <1>1 DEF Video!Player

(* The operators that start no request.                                     *)
LEMMA PlayerResetKeeps ==
  ASSUME Video!TimesHaveStart, NEW p \in Video!Player(Nat)
  PROVE  /\ Video!ResetSurface(p) \in Video!Player(Nat) /\ Same(p, Video!ResetSurface(p))
         /\ Video!ResetSurface(p).local = p.local /\ Video!ResetSurface(p).seeking = FALSE
<1>1. Video!ResetSurface(p) \in Video!Player(Nat)
  BY DEF Video!TimesHaveStart, Video!ResetSurface, Video!Player
<1>2. /\ Same(p, Video!ResetSurface(p)) /\ Video!ResetSurface(p).local = p.local
      /\ Video!ResetSurface(p).seeking = FALSE
  BY DEF Video!ResetSurface, Video!Player, Same
<1>3. QED BY <1>1, <1>2

LEMMA PlayerClearKeeps ==
  ASSUME NEW p \in Video!Player(Nat)
  PROVE  /\ Video!ClearLocal(p) \in Video!Player(Nat) /\ Same(p, Video!ClearLocal(p))
         /\ Video!ClearLocal(p).local = None /\ Video!ClearLocal(p).seeking = p.seeking
  BY DEF Video!ClearLocal, Video!Player, Same

LEMMA RecoverKeeps ==
  ASSUME NEW p \in Video!Player(Nat), NEW t \in Positions, NEW f \in BOOLEAN, NEW k \in BOOLEAN
  PROVE  /\ Video!Recover(p, t, f, k) \in Video!Player(Nat) /\ Same(p, Video!Recover(p, t, f, k))
         /\ Video!Recover(p, t, f, k).local = p.local /\ Video!Recover(p, t, f, k).seeking = p.seeking
<1> DEFINE n == [target |-> t, forced |-> f, transcode |-> k]
<1>1. n \in [target : Positions, forced : BOOLEAN, transcode : BOOLEAN] OBVIOUS
<1>2. Video!Recover(p, t, f, k) = p \/ Video!Recover(p, t, f, k) = [p EXCEPT !.recovery = n]
  BY DEF Video!Recover
<1> HIDE DEF n
<1>3. [p EXCEPT !.recovery = n] \in Video!Player(Nat) BY <1>1 DEF Video!Player
<1>4. Same(p, [p EXCEPT !.recovery = n]) /\ [p EXCEPT !.recovery = n].local = p.local
      /\ [p EXCEPT !.recovery = n].seeking = p.seeking
  BY DEF Video!Player, Same
<1>5. Same(p, p) BY DEF Same
<1>6. QED BY <1>2, <1>3, <1>4, <1>5

LEMMA SameIsFit ==
  ASSUME NEW p, Fit(p), NEW q \in Video!Player(Nat), Same(p, q), q.local = p.local \/ q.local = None
  PROVE  Fit(q)
  BY DEF Fit, Same, Video!ChainsApart, Video!PlaysActive

LEMMA SameIsSound ==
  ASSUME NEW p, Sound(p), NEW q \in Video!Player(Nat), Same(p, q), q.local = p.local \/ q.local = None,
         q.seeking => p.seeking
  PROVE  Sound(q)
<1>1. Fit(q) BY SameIsFit DEF Sound
<1>2. Video!Seeking(q) BY DEF Sound, Video!Seeking, Same, Video!Restarts
<1>3. QED BY <1>1, <1>2 DEF Sound

(* What is not seeking needs only to be fit.                                *)
LEMMA IdleIsSound ==
  ASSUME NEW p, Fit(p), p.seeking = FALSE
  PROVE  Sound(p)
  BY DEF Sound, Video!Seeking

(* A chain takes its place among the others.                                *)
LEMMA JoinedApart ==
  ASSUME NEW p \in Video!Player(Nat), Video!ChainsApart(p), NEW c, May(p, c), c.kind = "clear" => c.at = "stopping",
         NEW q, q.token = p.token, q.item = p.item, q.chains = p.chains \cup {c}
  PROVE  Video!ChainsApart(q)
<1>1. ASSUME NEW a \in q.chains
      PROVE  /\ a.token <= q.token /\ (a.token = q.token => a.item = q.item)
             /\ a.kind = "clear" => a.at = "stopping"
             /\ a.kind # "clear" => a.item # None
  BY DEF Video!ChainsApart, May
<1>2. ASSUME NEW a \in q.chains, NEW b \in q.chains, a.token = b.token PROVE a = b
  BY <1>2 DEF Video!ChainsApart, May
<1>3. QED BY <1>1, <1>2 DEF Video!ChainsApart

(* It goes on whatever it waits for.                                        *)
LEMMA GoesOn ==
  ASSUME NEW p, NEW c, May(p, c), NEW d \in Video!Chain(Nat), d.token = c.token, d.kind = c.kind, d.item = c.item
  PROVE  May(p, d)
  BY DEF May

(* The operators that send a request.                                       *)
LEMMA AskKeeps ==
  ASSUME NEW p \in Video!Player(Nat), Video!ChainsApart(p), NEW c, May(p, c), c.kind # "clear"
  PROVE  /\ Video!Ask(p, c) \in Video!Player(Nat) /\ Video!ChainsApart(Video!Ask(p, c))
         /\ Video!Ask(p, c).token = p.token /\ Video!Ask(p, c).item = p.item /\ Video!Ask(p, c).local = p.local
         /\ Video!Ask(p, c).seeking = p.seeking /\ Video!Ask(p, c).stops = p.stops
         /\ c.kind = "restart" /\ c.token = p.token => Video!Restarts(Video!Ask(p, c))
<1> DEFINE b == p.track = "burn"
           d == [c EXCEPT !.at = "creating", !.burn = b]
           q == [p EXCEPT !.chains = @ \cup {d}]
<1>1. b \in BOOLEAN OBVIOUS
<1>2. Video!Ask(p, c) = q BY DEF Video!Ask
<1> HIDE DEF b
<1>0. c \in Video!Chain(Nat) BY DEF May
<1>4. d \in Video!Chain(Nat) /\ p.chains \in SUBSET Video!Chain(Nat)
  BY <1>0, <1>1, PlayerFields DEF Video!Chain
<1>10. d.token = c.token /\ d.kind = c.kind /\ d.item = c.item BY <1>0 DEF Video!Chain
<1>3. May(p, d) /\ d.token = c.token /\ d.kind = c.kind /\ d.item = c.item
  BY <1>4, <1>10, GoesOn
<1> HIDE DEF d
<1>5. q \in Video!Player(Nat) BY <1>4 DEF Video!Player
<1>6. /\ q.token = p.token /\ q.item = p.item /\ q.local = p.local /\ q.seeking = p.seeking
      /\ q.stops = p.stops /\ q.chains = p.chains \cup {d}
  BY DEF Video!Player
<1> HIDE DEF q
<1>7. Video!ChainsApart(q) BY <1>3, <1>6, JoinedApart
<1>8. c.kind = "restart" /\ c.token = p.token => Video!Restarts(q)
  BY <1>3, <1>6 DEF Video!Restarts
<1>9. QED BY <1>2, <1>5, <1>6, <1>7, <1>8

LEMMA ProbeKeeps ==
  ASSUME NEW p \in Video!Player(Nat), Video!ChainsApart(p), NEW c, May(p, c), c.kind # "clear"
  PROVE  /\ Probe(p, c) \in Video!Player(Nat) /\ Video!ChainsApart(Probe(p, c))
         /\ Probe(p, c).token = p.token /\ Probe(p, c).item = p.item /\ Probe(p, c).local = p.local
         /\ Probe(p, c).seeking = p.seeking /\ Probe(p, c).stops = p.stops
         /\ c.kind = "restart" /\ c.token = p.token => Video!Restarts(Probe(p, c))
<1> DEFINE d == [c EXCEPT !.at = "probing"]
           q == [p EXCEPT !.chains = @ \cup {d}]
<1>0. c \in Video!Chain(Nat) BY DEF May
<1>4. d \in Video!Chain(Nat) /\ p.chains \in SUBSET Video!Chain(Nat)
  BY <1>0, PlayerFields DEF Video!Chain
<1>11. d.token = c.token /\ d.kind = c.kind /\ d.item = c.item BY <1>0 DEF Video!Chain
<1>3. May(p, d) /\ d.token = c.token /\ d.kind = c.kind /\ d.item = c.item
  BY <1>4, <1>11, GoesOn
<1>5. Probe(p, c) = q BY DEF Probe
<1> HIDE DEF d
<1>6. q \in Video!Player(Nat) BY <1>4 DEF Video!Player
<1>7. /\ q.token = p.token /\ q.item = p.item /\ q.local = p.local /\ q.seeking = p.seeking
      /\ q.stops = p.stops /\ q.chains = p.chains \cup {d}
  BY DEF Video!Player
<1> HIDE DEF q
<1>8. Video!ChainsApart(q) BY <1>3, <1>7, JoinedApart
<1>9. c.kind = "restart" /\ c.token = p.token => Video!Restarts(q)
  BY <1>3, <1>7 DEF Video!Restarts
<1>10. QED BY <1>5, <1>6, <1>7, <1>8, <1>9

LEMMA PlayerStopKeeps ==
  ASSUME NEW p \in Video!Player(Nat), Video!ChainsApart(p), p.local # None, NEW c, May(p, c)
  PROVE  /\ Video!StopLocal(p, c) \in Video!Player(Nat) /\ Video!ChainsApart(Video!StopLocal(p, c))
         /\ Video!StopLocal(p, c).token = p.token /\ Video!StopLocal(p, c).item = p.item
         /\ Video!StopLocal(p, c).local = p.local /\ Video!StopLocal(p, c).seeking = p.seeking
         /\ \E s \in Video!StopLocal(p, c).stops : s.id = p.local.id
         /\ c.kind = "restart" /\ c.token = p.token => Video!Restarts(Video!StopLocal(p, c))
<1> DEFINE d == [c EXCEPT !.at = "stopping"]
           s == [id |-> p.local.id, chain |-> c.token]
           q == [p EXCEPT !.stops = @ \cup {s}, !.chains = @ \cup {d}]
<1>2. Video!StopLocal(p, c) = q BY DEF Video!StopLocal
<1>0. c \in Video!Chain(Nat) BY DEF May
<1>4. d \in Video!Chain(Nat) /\ p.chains \in SUBSET Video!Chain(Nat)
  BY <1>0, PlayerFields DEF Video!Chain
<1>12. d.token = c.token /\ d.kind = c.kind /\ d.item = c.item /\ d.at = "stopping"
  BY <1>0 DEF Video!Chain
<1>3. May(p, d) /\ d.token = c.token /\ d.kind = c.kind /\ d.item = c.item /\ d.at = "stopping"
  BY <1>4, <1>12, GoesOn
<1>5. s \in [id : Nat, chain : Nat \cup {0}] /\ s.id = p.local.id
  <2>1. p.local \in Video!Session(Nat) /\ c \in Video!Chain(Nat) BY PlayerFields DEF May
  <2>2. p.local.id \in Nat /\ c.token \in Nat BY <2>1 DEF Video!Session, Video!Chain
  <2>3. QED BY <2>2
<1> HIDE DEF d, s
<1>6. q \in Video!Player(Nat) BY <1>4, <1>5 DEF Video!Player
<1>7. /\ q.token = p.token /\ q.item = p.item /\ q.local = p.local /\ q.seeking = p.seeking
      /\ q.stops = p.stops \cup {s} /\ q.chains = p.chains \cup {d}
  BY DEF Video!Player
<1> HIDE DEF q
<1>8. Video!ChainsApart(q) BY <1>3, <1>7, JoinedApart
<1>9. c.kind = "restart" /\ c.token = p.token => Video!Restarts(q)
  BY <1>3, <1>7 DEF Video!Restarts
<1>10. \E x \in q.stops : x.id = p.local.id BY <1>5, <1>7
<1>11. QED BY <1>2, <1>6, <1>7, <1>8, <1>9, <1>10

(* A session is given up and the newest chain goes for another one.         *)
LEMMA ReopenSound ==
  ASSUME NEW p, Fit(p), NEW c, May(p, c), c.kind = "restart", c.token = p.token
  PROVE  Sound(Video!Reopen(p, c))
<1> DEFINE q == [p EXCEPT !.requested = c.target, !.seeking = TRUE]
<1>1. p \in Video!Player(Nat) /\ c \in Video!Chain(Nat) BY DEF Fit, May
<1>2. c.target \in Positions BY <1>1 DEF Video!Chain
<1>3. q \in Video!Player(Nat) BY <1>1, <1>2 DEF Video!Player
<1>4. Same(p, q) /\ q.local = p.local /\ q.seeking = TRUE BY <1>1 DEF Video!Player, Same
<1>5. Video!Reopen(p, c) = IF q.local = None THEN Video!Ask(q, c) ELSE Video!ClearLocal(Video!StopLocal(q, c))
  BY DEF Video!Reopen, Video!ClearLocal
<1> HIDE DEF q
<1>6. Fit(q) BY <1>3, <1>4, SameIsFit
<1>7. Video!ChainsApart(q) BY <1>6 DEF Fit
<1>8. May(q, c) /\ c.token = q.token BY <1>4 DEF May, Same
<1>9. CASE q.local = None
  <2> DEFINE r == Video!Ask(q, c)
  <2>1. r \in Video!Player(Nat) /\ Video!ChainsApart(r) /\ r.local = None /\ Video!Restarts(r)
    BY <1>3, <1>7, <1>8, <1>9, AskKeeps
  <2> HIDE DEF r
  <2>2. Sound(r) BY <2>1 DEF Sound, Fit, Video!PlaysActive, Video!Seeking
  <2>3. QED BY <2>2, <1>5, <1>9 DEF r
<1>10. CASE q.local # None
  <2> DEFINE r == Video!StopLocal(q, c)
  <2>1. r \in Video!Player(Nat) /\ Video!ChainsApart(r) /\ Video!Restarts(r)
    BY <1>3, <1>7, <1>8, <1>10, PlayerStopKeeps
  <2>2. Video!Reopen(p, c) = Video!ClearLocal(r) BY <1>5, <1>10
  <2> HIDE DEF r
  <2>3. Video!ClearLocal(r) \in Video!Player(Nat) /\ Same(r, Video!ClearLocal(r)) /\ Video!ClearLocal(r).local = None
    BY <2>1, PlayerClearKeeps
  <2>4. Video!ChainsApart(Video!ClearLocal(r)) /\ Video!Restarts(Video!ClearLocal(r))
    BY <2>1, <2>3 DEF Video!ChainsApart, Video!Restarts, Same
  <2>5. QED BY <2>2, <2>3, <2>4 DEF Sound, Fit, Video!PlaysActive, Video!Seeking
<1>11. QED BY <1>9, <1>10

(* The position was in the encoded range, or it is not.                     *)
LEMMA LocatedSound ==
  ASSUME NEW p, Fit(p), p.seeking => p.local = None,
         NEW c, May(p, c), c.kind = "restart", c.token = p.token, NEW r \in Video!Located(p, c)
  PROVE  Sound(r)
<1>1. p \in Video!Player(Nat) /\ c \in Video!Chain(Nat) BY DEF Fit, May
<1>2. CASE r = Video!Reopen(p, c) BY <1>2, ReopenSound
<1>3. CASE r # Video!Reopen(p, c)
  <2> DEFINE q == [p EXCEPT !.position = c.target]
  <2>1. r = q /\ p.local # None BY <1>3 DEF Video!Located, Video!InSession
  <2>2. c.target \in Positions BY <1>1 DEF Video!Chain
  <2>3. q \in Video!Player(Nat) /\ Same(p, q) /\ q.local = p.local /\ q.seeking = p.seeking
    BY <1>1, <2>2 DEF Video!Player, Same
  <2> HIDE DEF q
  <2>4. p.seeking = FALSE BY <1>1, <2>1, PlayerFields
  <2>5. QED BY <2>1, <2>3, <2>4, SameIsFit, IdleIsSound
<1>4. QED BY <1>2, <1>3

(* A chain that starts takes a new token, and so every other is older.      *)
Renewed(p) == [p EXCEPT !.token = @ + 1, !.recovery = None]
LEMMA RenewedIsNewest ==
  ASSUME NEW p, Fit(p)
  PROVE  /\ Fit(Renewed(p))
         /\ Renewed(p).token = p.token + 1 /\ Renewed(p).item = p.item /\ Renewed(p).local = p.local
         /\ Renewed(p).seeking = p.seeking /\ Renewed(p).position = p.position
         /\ \A d \in Renewed(p).chains : d.token # p.token + 1 /\ d.token <= p.token
<1> DEFINE q == Renewed(p)
<1>1. p \in Video!Player(Nat) /\ p.token \in Nat BY PlayerFields DEF Fit
<1>9. p.token + 1 \in Nat \cup {0} BY <1>1
<1>2. q \in Video!Player(Nat)
  <2> DEFINE n == p.token + 1
  <2>1. q = [p EXCEPT !.token = n, !.recovery = None] BY DEF Renewed
  <2> HIDE DEF n, q
  <2>2. n \in Nat \cup {0} BY <1>9 DEF n
  <2>3. QED BY <1>1, <2>1, <2>2 DEF Video!Player
<1>3. /\ q.token = p.token + 1 /\ q.item = p.item /\ q.local = p.local /\ q.seeking = p.seeking
      /\ q.position = p.position /\ q.chains = p.chains /\ q.stops = p.stops
  BY <1>1 DEF Video!Player, Renewed
<1> HIDE DEF q
<1>4. \A d \in p.chains : d.token \in Nat BY <1>1, PlayerFields DEF Video!Chain
<1>5. \A d \in q.chains : d.token # p.token + 1 /\ d.token <= p.token
  BY <1>1, <1>3, <1>4 DEF Fit, Video!ChainsApart
<1>6. Video!ChainsApart(q)
  BY <1>1, <1>3, <1>4, <1>5 DEF Fit, Video!ChainsApart
<1>7. Video!PlaysActive(q) BY <1>3 DEF Fit, Video!PlaysActive
<1>8. QED BY <1>2, <1>3, <1>5, <1>6, <1>7 DEF q, Fit

LEMMA RestartSound ==
  ASSUME NEW p, Sound(p), NEW t \in Positions, NEW f \in BOOLEAN, NEW k \in BOOLEAN,
         NEW r \in Video!Restart(p, t, f, k)
  PROVE  Sound(r)
<1> DEFINE q == Renewed(p)
           c == [token |-> q.token, item |-> q.item, kind |-> "restart", target |-> t,
                 forced |-> f, transcode |-> k, burn |-> FALSE, at |-> "probing"]
<1>1. Fit(p) /\ p \in Video!Player(Nat) /\ (p.seeking => p.local = None)
  BY DEF Sound, Fit, Video!Seeking
<1>2. p.token \in Nat /\ p.item \in Videos \cup {None} BY <1>1, PlayerFields
<1>3. /\ Fit(q) /\ q.token = p.token + 1 /\ q.item = p.item /\ q.local = p.local
      /\ q.seeking = p.seeking /\ \A d \in q.chains : d.token # q.token
  BY <1>1, RenewedIsNewest
<1>4. CASE p.item = None
  <2>1. r = p BY <1>4 DEF Video!Restart
  <2>2. QED BY <2>1
<1>5. CASE p.item # None
  <2>1. r \in Video!Located(q, c) \/ r = [q EXCEPT !.chains = @ \cup {c}]
    BY <1>5 DEF Video!Restart, Renewed
  <2> HIDE DEF q
  <2>2. c \in Video!Chain(Nat) BY <1>2, <1>3 DEF Video!Chain
  <2>8. c.token = q.token /\ c.item = q.item /\ c.kind = "restart" /\ c.at = "probing"
    OBVIOUS
  <2> HIDE DEF c
  <2>3. c.token = q.token /\ c.item = q.item /\ c.kind = "restart" /\ c = [c EXCEPT !.at = "probing"]
    BY <2>2, <2>8 DEF Video!Chain
  <2>4. May(q, c) BY <1>2, <1>3, <1>5, <2>2, <2>3 DEF May
  <2>5. CASE r \in Video!Located(q, c) BY <1>1, <1>3, <2>3, <2>4, <2>5, LocatedSound
  <2>6. CASE r = [q EXCEPT !.chains = @ \cup {c}]
    <3>1. r = Probe(q, c) BY <2>3, <2>6 DEF Probe
    <3>2. q \in Video!Player(Nat) /\ Video!ChainsApart(q) /\ Video!PlaysActive(q)
      BY <1>3 DEF Fit
    <3>3. /\ r \in Video!Player(Nat) /\ Video!ChainsApart(r) /\ r.local = q.local /\ r.item = q.item
          /\ r.seeking = q.seeking /\ r.stops = q.stops /\ Video!Restarts(r)
      BY <2>3, <2>4, <3>1, <3>2, ProbeKeeps
    <3>4. QED BY <1>1, <1>3, <3>2, <3>3 DEF Sound, Fit, Video!PlaysActive, Video!Seeking
  <2>7. QED BY <2>1, <2>5, <2>6
<1>6. QED BY <1>4, <1>5

LEMMA RetrackSound ==
  ASSUME NEW p, Sound(p), NEW r \in Video!Retrack(p)
  PROVE  Sound(r)
<1>1. p \in Video!Player(Nat) BY DEF Sound, Fit
<1>2. p.position \in Positions BY <1>1, PlayerFields
<1>3. CASE r = p BY <1>3
<1>4. CASE r = [p EXCEPT !.retrack = TRUE]
  <2>1. /\ r \in Video!Player(Nat) /\ Same(p, r) /\ r.local = p.local /\ r.seeking = p.seeking
    BY <1>1, <1>4 DEF Video!Player, Same
  <2>2. QED BY <2>1, SameIsSound
<1>5. CASE r \in Video!Restart(p, p.position, FALSE, FALSE) BY <1>2, <1>5, RestartSound
<1>6. QED BY <1>3, <1>4, <1>5 DEF Video!Retrack

(* The newest chain has its session, or it does not get one.                *)
LEMMA AdoptSound ==
  ASSUME Video!TimesHaveStart, NEW p, Fit(p), NEW c \in Video!Chain(Nat), c.item = p.item, c.item # None,
         NEW r \in Video!Adopt(p, c, Video!Made(c))
  PROVE  Sound(r)
<1> DEFINE s == Video!Made(c)
           q == [p EXCEPT !.local = s, !.mode = IF s.copy THEN "copy" ELSE "transcode"]
           x == Video!ResetSurface(q)
           a == [x EXCEPT !.position = s.start]
           b == [a EXCEPT !.seeking = FALSE, !.requested = None]
<1>1. p \in Video!Player(Nat) BY DEF Fit
<1>2. s \in Video!Session(Nat) /\ s.path = p.item /\ s.start \in Positions
  BY DEF Video!Chain, Video!Session, Video!Made
<1> HIDE DEF s
<1>3. q \in Video!Player(Nat)
  <2> DEFINE m == IF s.copy THEN "copy" ELSE "transcode"
  <2>1. m \in {"", "copy", "transcode"} OBVIOUS
  <2>2. q = [p EXCEPT !.local = s, !.mode = m] OBVIOUS
  <2> HIDE DEF m, q
  <2>3. QED BY <1>1, <1>2, <2>1, <2>2 DEF Video!Player
<1>4. Same(p, q) /\ q.local = s BY <1>1 DEF Video!Player, Same
<1> HIDE DEF q
<1>5. Fit(q) BY <1>2, <1>3, <1>4 DEF Fit, Same, Video!ChainsApart, Video!PlaysActive
<1>6. x \in Video!Player(Nat) /\ Same(q, x) /\ x.local = q.local /\ x.seeking = FALSE
  BY <1>3, PlayerResetKeeps
<1> HIDE DEF x
<1>7. a \in Video!Player(Nat) /\ Same(x, a) /\ a.local = x.local /\ a.seeking = FALSE
  BY <1>2, <1>6 DEF Video!Player, Same
<1>8. Sound(a) BY <1>5, <1>6, <1>7, SameIsFit, IdleIsSound
<1> HIDE DEF a
<1>9. b \in Video!Player(Nat) /\ Same(a, b) /\ b.local = a.local /\ b.seeking = FALSE
  BY <1>7 DEF Video!Player, Same
<1>10. Sound(b) BY <1>8, <1>9, SameIsSound
<1>11. \/ r = a \/ r = b \/ r \in Video!Restart([b EXCEPT !.restyle = FALSE], b.position, TRUE, FALSE)
       \/ q.requested # None /\ r \in Video!Restart(b, q.requested, FALSE, FALSE)
       \/ r \in Video!Retrack([b EXCEPT !.retrack = FALSE])
  BY DEF Video!Adopt, Video!Attach, s, q, x, a
<1> HIDE DEF b
<1>12. CASE r \in Video!Restart([b EXCEPT !.restyle = FALSE], b.position, TRUE, FALSE)
  <2> DEFINE e == [b EXCEPT !.restyle = FALSE]
  <2>1. e \in Video!Player(Nat) /\ Same(b, e) /\ e.local = b.local /\ e.seeking = b.seeking
    BY <1>9 DEF Video!Player, Same
  <2> HIDE DEF e
  <2>2. Sound(e) BY <1>10, <2>1, SameIsSound
  <2>3. b.position \in Positions BY <1>9, PlayerFields
  <2>4. QED BY <1>12, <2>2, <2>3, RestartSound DEF e
<1>13. CASE q.requested # None /\ r \in Video!Restart(b, q.requested, FALSE, FALSE)
  <2>1. q.requested \in Positions BY <1>3, <1>13, PlayerFields
  <2>2. QED BY <1>10, <1>13, <2>1, RestartSound
<1>14. CASE r \in Video!Retrack([b EXCEPT !.retrack = FALSE])
  <2> DEFINE e == [b EXCEPT !.retrack = FALSE]
  <2>1. e \in Video!Player(Nat) /\ Same(b, e) /\ e.local = b.local /\ e.seeking = b.seeking
    BY <1>9 DEF Video!Player, Same
  <2> HIDE DEF e
  <2>2. Sound(e) BY <1>10, <2>1, SameIsSound
  <2>4. QED BY <1>14, <2>2, RetrackSound DEF e
<1>15. QED BY <1>8, <1>10, <1>11, <1>12, <1>13, <1>14

LEMMA NoSessionSound ==
  ASSUME Video!TimesHaveStart, NEW p, Fit(p), NEW c \in Video!Chain(Nat), c.kind = "start" => p.seeking = FALSE,
         NEW r \in Video!NoSession(p, c)
  PROVE  Sound(r)
<1> DEFINE q == [p EXCEPT !.local = None]
           b == [q EXCEPT !.seeking = FALSE, !.requested = None]
<1>1. p \in Video!Player(Nat) BY DEF Fit
<1>2. q \in Video!Player(Nat) /\ Same(p, q) /\ q.local = None /\ q.seeking = p.seeking
  BY <1>1 DEF Video!Player, Same
<1>3. Fit(q) BY <1>2, SameIsFit
<1>4. b \in Video!Player(Nat) /\ Same(q, b) /\ b.local = None /\ b.seeking = FALSE
  BY <1>2 DEF Video!Player, Same
<1>5. Fit(b) BY <1>2, <1>3, <1>4, SameIsFit
<1>6. \/ c.kind = "start" /\ r = Video!Recover(q, 0, TRUE, FALSE)
      \/ r = Video!ResetSurface(b)
      \/ \E f \in BOOLEAN : r = Video!Recover(b, c.target, f, FALSE)
  BY DEF Video!NoSession
<1> HIDE DEF q, b
<1>7. CASE c.kind = "start" /\ r = Video!Recover(q, 0, TRUE, FALSE)
  <2>1. r \in Video!Player(Nat) /\ Same(q, r) /\ r.local = q.local /\ r.seeking = q.seeking
    BY <1>2, <1>7, RecoverKeeps DEF Video!TimesHaveStart
  <2>2. Fit(r) BY <1>3, <2>1, SameIsFit
  <2>3. QED BY <1>2, <1>7, <2>1, <2>2, IdleIsSound
<1>8. CASE r = Video!ResetSurface(b)
  BY <1>4, <1>5, <1>8, PlayerResetKeeps, SameIsFit, IdleIsSound
<1>9. ASSUME NEW f \in BOOLEAN, r = Video!Recover(b, c.target, f, FALSE) PROVE Sound(r)
  <2>1. c.target \in Positions BY DEF Video!Chain
  <2>2. r \in Video!Player(Nat) /\ Same(b, r) /\ r.local = b.local /\ r.seeking = b.seeking
    BY <1>4, <1>9, <2>1, RecoverKeeps
  <2>3. Fit(r) BY <1>5, <2>2, SameIsFit
  <2>4. QED BY <1>4, <2>2, <2>3, IdleIsSound
<1>10. QED BY <1>6, <1>7, <1>8, <1>9

(* Another item, or none, is played.                                        *)
LEMMA SyncSound ==
  ASSUME Video!TimesHaveStart, NEW p, Sound(p), NEW i \in Videos \cup {None}
  PROVE  Sound(Video!SyncTo(p, i))
<1> DEFINE n == Renewed(p)
           q == [n EXCEPT !.item = i]
           c == [token |-> q.token, item |-> i, kind |-> IF i = None THEN "clear" ELSE "start",
                 target |-> 0, forced |-> FALSE, transcode |-> FALSE, burn |-> FALSE, at |-> "probing"]
<1>1. Fit(p) /\ p \in Video!Player(Nat) /\ (p.seeking => p.local = None)
  BY DEF Sound, Fit, Video!Seeking
<1>2. /\ Fit(n) /\ n.token = p.token + 1 /\ n.local = p.local /\ n.seeking = p.seeking
      /\ \A d \in n.chains : d.token # n.token /\ d.token <= p.token
  BY <1>1, RenewedIsNewest
<1>3. n \in Video!Player(Nat) BY <1>2 DEF Fit
<1>4. /\ q \in Video!Player(Nat) /\ q.token = n.token /\ q.item = i /\ q.local = n.local
      /\ q.seeking = n.seeking /\ q.chains = n.chains
  BY <1>3 DEF Video!Player
<1>5. c \in Video!Chain(Nat)
  <2>1. q.token \in Nat /\ 0 \in Positions BY <1>4, PlayerFields DEF Video!TimesHaveStart
  <2> HIDE DEF q
  <2>2. QED BY <2>1 DEF Video!Chain
<1>6. /\ c.token = q.token /\ c.item = i /\ c.at = "probing"
      /\ c.kind = IF i = None THEN "clear" ELSE "start"
  OBVIOUS
<1>7. Video!SyncTo(p, i) =
        IF i = None
        THEN IF q.local = None THEN Video!ResetSurface(q) ELSE Video!StopLocal(q, c)
        ELSE IF Video!ResetSurface(q).local # None /\ Video!ResetSurface(q).local.path # i
        THEN Video!StopLocal(Video!ResetSurface(q), c)
        ELSE IF i \in v3 THEN Video!Ask(Video!ResetSurface(q), c)
        ELSE [Video!ResetSurface(q) EXCEPT !.chains = @ \cup {c}]
  BY DEF Video!SyncTo, Renewed
<1> HIDE DEF n, q, c
<1>8. Video!ChainsApart(q) /\ \A d \in q.chains : d.token # q.token
  BY <1>2, <1>4 DEF Fit, Video!ChainsApart
<1>9. May(q, c)
  <2>1. q.token \in Nat BY <1>4, PlayerFields
  <2>2. QED BY <1>4, <1>5, <1>6, <1>8, <2>1 DEF May
<1> DEFINE r == Video!ResetSurface(q)
<1>10. r \in Video!Player(Nat) /\ Same(q, r) /\ r.local = q.local /\ r.seeking = FALSE
  BY <1>4, PlayerResetKeeps
<1> HIDE DEF r
<1>11. Video!ChainsApart(r) /\ May(r, c) BY <1>8, <1>9, <1>10 DEF Video!ChainsApart, May, Same
<1>12. CASE i = None
  <2>1. CASE q.local = None
    <3>1. Video!SyncTo(p, i) = r BY <1>7, <1>12, <2>1 DEF r
    <3>2. QED BY <1>10, <1>11, <2>1, <3>1 DEF Sound, Fit, Video!PlaysActive, Video!Seeking
  <2>2. CASE q.local # None
    <3> DEFINE e == Video!StopLocal(q, c)
    <3>1. Video!SyncTo(p, i) = e BY <1>7, <1>12, <2>2
    <3>2. /\ e \in Video!Player(Nat) /\ Video!ChainsApart(e) /\ e.seeking = q.seeking /\ e.local = q.local
          /\ \E s \in e.stops : s.id = q.local.id
      BY <1>4, <1>8, <1>9, <2>2, PlayerStopKeeps
    <3> HIDE DEF e
    <3>3. ~e.seeking BY <1>1, <1>2, <1>4, <2>2, <3>2
    <3>4. QED BY <3>1, <3>2, <3>3 DEF Sound, Fit, Video!PlaysActive, Video!Seeking
  <2>3. QED BY <2>1, <2>2
<1>13. CASE i # None
  <2>1. CASE r.local # None /\ r.local.path # i
    <3> DEFINE e == Video!StopLocal(r, c)
    <3>1. Video!SyncTo(p, i) = e BY <1>7, <1>13, <2>1 DEF r
    <3>2. /\ e \in Video!Player(Nat) /\ Video!ChainsApart(e) /\ e.seeking = r.seeking /\ e.local = r.local
          /\ \E s \in e.stops : s.id = r.local.id
      BY <1>10, <1>11, <2>1, PlayerStopKeeps
    <3> HIDE DEF e
    <3>3. QED BY <1>10, <3>1, <3>2 DEF Sound, Fit, Video!PlaysActive, Video!Seeking
  <2>2. CASE ~(r.local # None /\ r.local.path # i)
    <3>1. c = [c EXCEPT !.at = "probing"] BY <1>5, <1>6 DEF Video!Chain
    <3>2. Video!SyncTo(p, i) = Video!Ask(r, c) \/ Video!SyncTo(p, i) = [r EXCEPT !.chains = @ \cup {c}]
      BY <1>7, <1>13, <2>2 DEF r
    <3>3. Video!SyncTo(p, i) = Video!Ask(r, c) \/ Video!SyncTo(p, i) = Probe(r, c)
      BY <3>1, <3>2 DEF Probe
    <3>4. c.kind # "clear" BY <1>6, <1>13
    <3> DEFINE e == Video!SyncTo(p, i)
    <3>5. /\ e \in Video!Player(Nat) /\ Video!ChainsApart(e) /\ e.item = r.item /\ e.local = r.local
          /\ e.seeking = r.seeking
      BY <1>10, <1>11, <3>3, <3>4, AskKeeps, ProbeKeeps
    <3> HIDE DEF e
    <3>6. r.item = i BY <1>4, <1>10 DEF Same
    <3>7. Sound(e) BY <1>10, <2>2, <3>5, <3>6 DEF Sound, Fit, Video!PlaysActive, Video!Seeking
    <3>8. QED BY <3>7 DEF e
  <2>3. QED BY <2>1, <2>2
<1>14. QED BY <1>12, <1>13

(* The steps.                                                               *)
LEMMA InvIsSound == Video!IInv <=> Sound(v1)
  BY DEF Video!IInv, Sound, Fit

LEMMA VideoInit == Video!TimesHaveStart /\ Video!Init => Video!IInv
<1> SUFFICES ASSUME Video!TimesHaveStart, Video!Init PROVE Video!IInv OBVIOUS
<1>1. v1 \in Video!Player(Nat) BY DEF Video!TimesHaveStart, Video!Init, Video!Player
<1>2. v1.local = None /\ v1.chains = {} /\ v1.seeking = FALSE BY DEF Video!Init
<1>3. QED BY <1>1, <1>2 DEF Video!IInv, Video!ChainsApart, Video!PlaysActive, Video!Seeking

(* q is the player p without the chain c, whose answer is handled and which *)
(* may go on.                                                               *)
Without(p, c, q) ==
  /\ Fit(q) /\ May(q, c) /\ c \in Video!Chain(Nat)
  /\ q.token = p.token /\ q.item = p.item /\ q.local = p.local /\ q.seeking = p.seeking
  /\ q.seeking => q.local = None
  /\ c.token # p.token => Sound(q)
  /\ c.token = p.token /\ c.kind = "start" => q.seeking = FALSE
  /\ c.kind = "clear" => c.at = "stopping"

LEMMA DropKeeps ==
  ASSUME NEW p, Sound(p), NEW c \in p.chains
  PROVE  Without(p, c, [p EXCEPT !.chains = @ \ {c}])
<1> DEFINE q == [p EXCEPT !.chains = @ \ {c}]
<1>1. p \in Video!Player(Nat) /\ Video!ChainsApart(p) /\ Video!PlaysActive(p) /\ Video!Seeking(p) BY DEF Sound, Fit
<1>2. p.chains \in SUBSET Video!Chain(Nat) /\ p.seeking \in BOOLEAN BY <1>1, PlayerFields
<1>3. q \in Video!Player(Nat)
  <2> DEFINE C == p.chains \ {c}
  <2>1. q = [p EXCEPT !.chains = C] /\ C \in SUBSET Video!Chain(Nat) BY <1>2
  <2> HIDE DEF C
  <2>2. QED BY <1>1, <2>1 DEF Video!Player
<1>4. /\ q.token = p.token /\ q.item = p.item /\ q.local = p.local /\ q.seeking = p.seeking
      /\ q.stops = p.stops /\ q.chains = p.chains \ {c}
  BY <1>1 DEF Video!Player
<1>5. Video!ChainsApart(q) /\ Video!PlaysActive(q)
  BY <1>1, <1>4 DEF Video!ChainsApart, Video!PlaysActive
<1>6. Fit(q) BY <1>3, <1>5 DEF Fit
<1>7. May(q, c) BY <1>1, <1>2, <1>4 DEF May, Video!ChainsApart
<1>8. c.token # p.token => Sound(q)
  <2> SUFFICES ASSUME c.token # p.token, q.seeking PROVE q.local = None /\ Video!Restarts(q)
    BY <1>6 DEF Sound, Video!Seeking
  <2>1. p.local = None /\ Video!Restarts(p) BY <1>1, <1>4 DEF Video!Seeking
  <2>2. QED BY <1>4, <2>1 DEF Video!Restarts
<1>9. c.token = p.token /\ c.kind = "start" => q.seeking = FALSE
  <2> SUFFICES ASSUME c.token = p.token, c.kind = "start", p.seeking PROVE FALSE
    BY <1>2, <1>4
  <2>1. PICK d \in p.chains : d.kind = "restart" /\ d.token = p.token
    BY <1>1 DEF Video!Seeking, Video!Restarts
  <2>2. d = c BY <1>1, <2>1 DEF Video!ChainsApart
  <2>3. QED BY <2>1, <2>2
<1>10. q.seeking => q.local = None BY <1>1, <1>4 DEF Video!Seeking
<1>11. c.kind = "clear" => c.at = "stopping" BY <1>1 DEF Video!ChainsApart
<1>12. c \in Video!Chain(Nat) BY <1>2
<1> HIDE DEF q
<1>13. Without(p, c, q)
  BY <1>4, <1>6, <1>7, <1>8, <1>9, <1>10, <1>11, <1>12 DEF Without
<1>14. QED BY <1>13 DEF q

(* One more stop request is sent.                                           *)
LEMMA StopSentSound ==
  ASSUME NEW p, Sound(p), NEW i \in Nat, NEW q, q = [p EXCEPT !.stops = @ \cup {[id |-> i, chain |-> 0]}]
  PROVE  Sound(q)
<1>1. p \in Video!Player(Nat) BY DEF Sound, Fit
<1>2. q \in Video!Player(Nat)
  <2> DEFINE s == [id |-> i, chain |-> 0]
             S == p.stops \cup {s}
  <2>1. s \in [id : Nat, chain : Nat \cup {0}] /\ p.stops \subseteq [id : Nat, chain : Nat \cup {0}]
    BY <1>1 DEF Video!Player
  <2>2. q = [p EXCEPT !.stops = S] /\ S \in SUBSET [id : Nat, chain : Nat \cup {0}] BY <2>1
  <2> HIDE DEF S, s
  <2>3. QED BY <1>1, <2>2 DEF Video!Player
<1>3. /\ q.token = p.token /\ q.item = p.item /\ q.local = p.local /\ q.seeking = p.seeking
      /\ p.stops \subseteq q.stops /\ q.chains = p.chains
  BY <1>1 DEF Video!Player
<1>4. QED BY <1>2, <1>3 DEF Sound, Fit, Video!ChainsApart, Video!PlaysActive, Video!Seeking,
    Video!Restarts

(* What the user does.                                                      *)
LEMMA SeekKeeps == ASSUME Video!TimesHaveStart, Video!IInv, NEW t \in Positions, Video!Seek(t) PROVE Video!IInv'
<1>1. Sound(v1) /\ v1 \in Video!Player(Nat) BY InvIsSound DEF Video!IInv
<1>2. CASE v1.seeking
  <2>1. v1' = [v1 EXCEPT !.requested = t] BY <1>2 DEF Video!Seek
  <2>2. /\ v1' \in Video!Player(Nat) /\ Same(v1, v1') /\ v1'.local = v1.local
        /\ v1'.seeking = v1.seeking
    BY <1>1, <2>1 DEF Video!Player, Same
  <2>3. Sound(v1') BY <1>1, <2>2, SameIsSound
  <2>4. QED BY <2>3, InvIsSound DEF Sound, Fit, Video!IInv
<1>3. CASE ~v1.seeking
  <2>1. Sound(v1') BY <1>1, <1>3, RestartSound DEF Video!Seek
  <2>2. QED BY <2>1 DEF Sound, Fit, Video!IInv
<1>4. QED BY <1>2, <1>3

LEMMA AudioKeeps == ASSUME Video!TimesHaveStart, Video!IInv, Video!ChangeAudio PROVE Video!IInv'
<1>1. Sound(v1) /\ v1 \in Video!Player(Nat) BY InvIsSound DEF Video!IInv
<1>2. v1.position \in Positions BY <1>1, PlayerFields
<1>3. Sound(v1') BY <1>1, <1>2, RestartSound DEF Video!ChangeAudio
<1>4. QED BY <1>3 DEF Sound, Fit, Video!IInv

LEMMA StyleKeeps == ASSUME Video!TimesHaveStart, Video!IInv, Video!ApplyStyle PROVE Video!IInv'
<1>1. Sound(v1) /\ v1 \in Video!Player(Nat) BY InvIsSound DEF Video!IInv
<1>2. v1.position \in Positions BY <1>1, PlayerFields
<1>3. \E b \in BOOLEAN : /\ b => v1' = [v1 EXCEPT !.restyle = TRUE]
                         /\ ~b => v1' \in Video!Restart([v1 EXCEPT !.restyle = FALSE],
                                                          v1.position, TRUE, FALSE)
  BY DEF Video!ApplyStyle
<1>4. CASE v1' = [v1 EXCEPT !.restyle = TRUE]
  <2>1. /\ v1' \in Video!Player(Nat) /\ Same(v1, v1') /\ v1'.local = v1.local
        /\ v1'.seeking = v1.seeking
    BY <1>1, <1>4 DEF Video!Player, Same
  <2>2. Sound(v1') BY <1>1, <2>1, SameIsSound
  <2>3. QED BY <2>2 DEF Sound, Fit, Video!IInv
<1>5. CASE v1' \in Video!Restart([v1 EXCEPT !.restyle = FALSE], v1.position, TRUE, FALSE)
  <2> DEFINE q == [v1 EXCEPT !.restyle = FALSE]
  <2>1. q \in Video!Player(Nat) /\ Same(v1, q) /\ q.local = v1.local /\ q.seeking = v1.seeking
    BY <1>1 DEF Video!Player, Same
  <2> HIDE DEF q
  <2>2. Sound(q) BY <1>1, <2>1, SameIsSound
  <2>3. Sound(v1') BY <1>2, <1>5, <2>2, RestartSound DEF q
  <2>4. QED BY <2>3 DEF Sound, Fit, Video!IInv
<1>6. QED BY <1>3, <1>4, <1>5

LEMMA TrackKeeps == ASSUME Video!TimesHaveStart, Video!IInv, NEW k \in {"text", "burn"}, Video!SelectTrack(k) PROVE Video!IInv'
<1> DEFINE q == [v1 EXCEPT !.track = k]
<1>1. Sound(v1) /\ v1 \in Video!Player(Nat) BY InvIsSound DEF Video!IInv
<1>2. q \in Video!Player(Nat) /\ Same(v1, q) /\ q.local = v1.local /\ q.seeking = v1.seeking
  BY <1>1 DEF Video!Player, Same
<1>3. v1' \in Video!Retrack(q) BY DEF Video!SelectTrack
<1> HIDE DEF q
<1>4. Sound(q) BY <1>1, <1>2, SameIsSound
<1>5. Sound(v1') BY <1>3, <1>4, RetrackSound
<1>6. QED BY <1>5 DEF Sound, Fit, Video!IInv

LEMMA LeaveKeeps == ASSUME Video!TimesHaveStart, Video!IInv, Video!LeavePane PROVE Video!IInv'
<1> DEFINE q == IF v1.local = None THEN v1
                ELSE [v1 EXCEPT !.stops = @ \cup {[id |-> v1.local.id, chain |-> 0]}]
<1>1. Sound(v1) /\ v1 \in Video!Player(Nat) BY InvIsSound DEF Video!IInv
<1>2. v1' = Video!ResetSurface(q) BY DEF Video!LeavePane
<1>3. Sound(q)
  <2>1. CASE v1.local = None BY <1>1, <2>1
  <2>2. CASE v1.local # None
    <3>1. v1.local.id \in Nat BY <1>1, <2>2, PlayerFields DEF Video!Session
    <3>2. q = [v1 EXCEPT !.stops = @ \cup {[id |-> v1.local.id, chain |-> 0]}] BY <2>2
    <3> HIDE DEF q
    <3>3. QED BY <1>1, <3>1, <3>2, StopSentSound
  <2>3. QED BY <2>1, <2>2
<1> HIDE DEF q
<1>4. /\ v1' \in Video!Player(Nat) /\ Same(q, v1') /\ v1'.local = q.local
      /\ v1'.seeking = FALSE
  BY <1>2, <1>3, PlayerResetKeeps DEF Sound, Fit
<1>5. Sound(v1') BY <1>3, <1>4, SameIsSound
<1>6. QED BY <1>5 DEF Sound, Fit, Video!IInv

(* The newest chain sends its next request.                                 *)
LEMMA NextRequestSound ==
  ASSUME NEW q, Fit(q), q.seeking => q.local = None, NEW c, May(q, c), c.kind # "clear",
         c.token = q.token, c.kind = "start" => q.seeking = FALSE,
         NEW e \in {Video!Ask(q, c), Probe(q, c)}
  PROVE  Sound(e)
<1>1. q \in Video!Player(Nat) /\ Video!ChainsApart(q) /\ Video!PlaysActive(q) BY DEF Fit
<1>2. /\ e \in Video!Player(Nat) /\ Video!ChainsApart(e) /\ e.local = q.local /\ e.item = q.item
      /\ e.seeking = q.seeking /\ e.stops = q.stops /\ (c.kind = "restart" => Video!Restarts(e))
  <2>1. CASE e = Video!Ask(q, c) BY <1>1, <2>1, AskKeeps
  <2>2. CASE e = Probe(q, c) BY <1>1, <2>2, ProbeKeeps
  <2>3. QED BY <2>1, <2>2
<1>3. c.kind \in {"start", "restart"} BY DEF May, Video!Chain
<1>4. Video!PlaysActive(e) BY <1>1, <1>2 DEF Video!PlaysActive
<1>5. Video!Seeking(e) BY <1>2, <1>3 DEF Video!Seeking
<1>6. QED BY <1>2, <1>4, <1>5 DEF Sound, Fit

(* The chain that waited for a stop goes on, or finds that it is not the    *)
(* newest any more.                                                         *)
LEMMA WaitedSound ==
  ASSUME Video!TimesHaveStart, NEW q, Fit(q), q.seeking => q.local = None,
         NEW c, May(q, c), c.token # q.token => Sound(q),
         c.token = q.token /\ c.kind = "start" => q.seeking = FALSE,
         NEW e, \/ e = Video!ResetSurface(q)
                \/ e = q /\ c.token # q.token
                \/ c.kind # "clear" /\ c.token = q.token /\ e \in {Video!Ask(q, c), Probe(q, c)}
  PROVE  Sound(e)
<1>4. CASE e = Video!ResetSurface(q)
  <2>1. q \in Video!Player(Nat) BY DEF Fit
  <2>2. /\ e \in Video!Player(Nat) /\ Same(q, e) /\ e.local = q.local
        /\ e.seeking = FALSE
    BY <1>4, <2>1, PlayerResetKeeps
  <2>3. QED BY <2>2, SameIsFit, IdleIsSound
<1>5. CASE e = q /\ c.token # q.token BY <1>5
<1>6. CASE c.kind # "clear" /\ c.token = q.token /\ e \in {Video!Ask(q, c), Probe(q, c)}
  BY <1>6, NextRequestSound
<1>7. QED BY <1>4, <1>5, <1>6

(* The answers.                                                             *)
LEMMA StoppedKeeps == ASSUME Video!TimesHaveStart, Video!IInv, NEW s \in v1.stops, Video!Stopped(s) PROVE Video!IInv'
<1> DEFINE x == IF v1.local # None /\ v1.local.id = s.id THEN Video!ClearLocal(v1) ELSE v1
           p == [x EXCEPT !.stops = @ \ {s}]
<1>1. Sound(v1) /\ v1 \in Video!Player(Nat) BY InvIsSound DEF Video!IInv
<1>2. /\ x \in Video!Player(Nat) /\ Same(v1, x) /\ (x.local = None \/ x.local = v1.local)
      /\ x.seeking = v1.seeking /\ (x.local # None => x.local.id # s.id)
  <2>1. CASE x = Video!ClearLocal(v1) BY <1>1, <2>1, PlayerClearKeeps
  <2>2. CASE x # Video!ClearLocal(v1)
    <3>1. x = v1 /\ (v1.local # None => v1.local.id # s.id) BY <2>2
    <3>2. QED BY <1>1, <3>1 DEF Same
  <2>3. QED BY <2>1, <2>2
<1>3. v1' = p \/ \E c \in v1.chains :
        LET q == [p EXCEPT !.chains = @ \ {c}]
        IN  v1' = CASE c.kind = "clear" -> Video!ResetSurface(q)
                    [] c.kind # "clear" /\ ~Video!Newest(c) -> q
                    [] c.kind = "start" /\ Video!Newest(c) /\ c.item \notin v3 ->
                         [q EXCEPT !.chains = @ \cup {[c EXCEPT !.at = "probing"]}]
                    [] OTHER -> Video!Ask(q, c)
  BY DEF Video!Stopped
<1> HIDE DEF x
<1>4. Sound(x) BY <1>1, <1>2, SameIsSound
<1>5. p \in Video!Player(Nat)
  <2> DEFINE S == x.stops \ {s}
  <2>1. p = [x EXCEPT !.stops = S] /\ S \in SUBSET [id : Nat, chain : Nat \cup {0}]
    BY <1>2 DEF Video!Player
  <2> HIDE DEF S, p
  <2>2. QED BY <1>2, <2>1 DEF Video!Player
<1>6. /\ p.token = x.token /\ p.item = x.item /\ p.local = x.local /\ p.seeking = x.seeking
      /\ p.stops = x.stops \ {s} /\ p.chains = x.chains
  BY <1>2 DEF Video!Player
<1> HIDE DEF p
<1>7. Video!ChainsApart(p) /\ Video!Seeking(p)
  BY <1>4, <1>6 DEF Sound, Fit, Video!ChainsApart, Video!Seeking, Video!Restarts
<1>8. Video!PlaysActive(p) BY <1>2, <1>4, <1>6 DEF Sound, Fit, Video!PlaysActive
<1>9. Sound(p) BY <1>5, <1>7, <1>8 DEF Sound, Fit
<1>10. p.chains = v1.chains /\ p.token = v1.token BY <1>2, <1>6 DEF Same
<1>11. Sound(v1')
  <2>1. CASE v1' = p BY <1>9, <2>1
  <2>2. CASE v1' # p
    <3>1. PICK c \in p.chains :
            LET q == [p EXCEPT !.chains = @ \ {c}]
            IN  \/ v1' = Video!ResetSurface(q)
                \/ v1' = q /\ c.token # p.token
                \/ c.kind # "clear" /\ c.token = p.token /\ v1' \in {Video!Ask(q, c), Probe(q, c)}
      BY <1>3, <1>10, <2>2 DEF Video!Newest, Probe
    <3> DEFINE q == [p EXCEPT !.chains = @ \ {c}]
    <3>2. /\ Fit(q) /\ May(q, c) /\ q.token = p.token /\ (q.seeking => q.local = None)
          /\ c.token # p.token => Sound(q)
          /\ c.token = p.token /\ c.kind = "start" => q.seeking = FALSE
      <4>1. Without(p, c, q) BY <1>9, DropKeeps
      <4> HIDE DEF q
      <4>2. QED BY <4>1 DEF Without
    <3>3. \/ v1' = Video!ResetSurface(q)
          \/ v1' = q /\ c.token # p.token
          \/ c.kind # "clear" /\ c.token = p.token /\ v1' \in {Video!Ask(q, c), Probe(q, c)}
      BY <3>1
    <3> HIDE DEF q
    <3>4. QED BY <3>2, <3>3, WaitedSound
  <2>3. QED BY <2>1, <2>2
<1>12. QED BY <1>11 DEF Sound, Fit, Video!IInv

LEMMA ProbedKeeps == ASSUME Video!TimesHaveStart, Video!IInv, NEW c \in v1.chains, Video!Probed(c) PROVE Video!IInv'
<1> DEFINE q == Video!Drop(c)
<1>1. Sound(v1) BY InvIsSound
<1>2. /\ Fit(q) /\ May(q, c) /\ q.token = v1.token /\ (q.seeking => q.local = None)
      /\ c.token # v1.token => Sound(q)
      /\ c.token = v1.token /\ c.kind = "start" => q.seeking = FALSE
      /\ (c.kind = "clear" => c.at = "stopping") /\ c \in Video!Chain(Nat)
  <2>1. Without(v1, c, q) BY <1>1, DropKeeps DEF Video!Drop
  <2> HIDE DEF q
  <2>2. QED BY <2>1 DEF Without
<1>3. \/ c.token # v1.token /\ v1' = q
      \/ c.token = v1.token /\ c.kind = "start" /\ v1' = Video!Ask(q, c)
      \/ c.token = v1.token /\ c.kind # "start" /\ v1' \in Video!Located(q, c)
  BY DEF Video!Probed, Video!Newest
<1>4. c.kind \in {"start", "restart"} BY <1>2 DEF Video!Probed, Video!Chain
<1> HIDE DEF q
<1>5. CASE c.token # v1.token /\ v1' = q
  BY <1>2, <1>5 DEF Sound, Fit, Video!IInv
<1>6. CASE c.token = v1.token /\ c.kind = "start" /\ v1' = Video!Ask(q, c)
  <2>1. Sound(v1') BY <1>2, <1>6, NextRequestSound
  <2>2. QED BY <2>1 DEF Sound, Fit, Video!IInv
<1>7. CASE c.token = v1.token /\ c.kind # "start" /\ v1' \in Video!Located(q, c)
  <2>1. Sound(v1') BY <1>2, <1>4, <1>7, LocatedSound
  <2>2. QED BY <2>1 DEF Sound, Fit, Video!IInv
<1>8. QED BY <1>3, <1>5, <1>6, <1>7

LEMMA ProbeFailedKeeps ==
  ASSUME Video!TimesHaveStart, Video!IInv, NEW c \in v1.chains, Video!ProbeFailed(c) PROVE Video!IInv'
<1> DEFINE q == Video!Drop(c)
           r == [q EXCEPT !.requested = c.target, !.seeking = FALSE]
<1>1. Sound(v1) BY InvIsSound
<1>2. /\ Fit(q) /\ q.token = v1.token /\ c \in Video!Chain(Nat)
      /\ c.token # v1.token => Sound(q)
      /\ c.token = v1.token /\ c.kind = "start" => q.seeking = FALSE
      /\ (c.kind = "clear" => c.at = "stopping")
  <2>1. Without(v1, c, q) BY <1>1, DropKeeps DEF Video!Drop
  <2> HIDE DEF q
  <2>2. QED BY <2>1 DEF Without
<1>3. v1' = r \/ (v1' = q /\ (c.token # v1.token \/ c.kind # "restart"))
  <2>1. CASE Video!Newest(c) /\ c.kind = "restart" BY <2>1 DEF Video!ProbeFailed, Video!Newest
  <2>2. CASE ~(Video!Newest(c) /\ c.kind = "restart")
    BY <2>2 DEF Video!ProbeFailed, Video!Newest
  <2>3. QED BY <2>1, <2>2
<1>4. c.kind \in {"start", "restart"} /\ c.target \in Positions
  BY <1>2 DEF Video!ProbeFailed, Video!Chain
<1> HIDE DEF q
<1>5. r \in Video!Player(Nat) /\ Same(q, r) /\ r.local = q.local /\ r.seeking = FALSE
  BY <1>2, <1>4 DEF Fit, Video!Player, Same
<1> HIDE DEF r
<1>6. Sound(r) BY <1>2, <1>5, SameIsFit, IdleIsSound
<1>7. v1' = q /\ (c.token # v1.token \/ c.kind # "restart") => Sound(q)
  BY <1>2, <1>4, IdleIsSound
<1>8. Sound(v1') BY <1>3, <1>6, <1>7
<1>9. QED BY <1>8 DEF Sound, Fit, Video!IInv

LEMMA CreatedKeeps == ASSUME Video!TimesHaveStart, Video!IInv, NEW c \in v1.chains, Video!Created(c) PROVE Video!IInv'
<1> DEFINE q == Video!Drop(c)
<1>1. Sound(v1) BY InvIsSound
<1>2. /\ Fit(q) /\ May(q, c) /\ q.token = v1.token /\ c \in Video!Chain(Nat)
      /\ c.token # v1.token => Sound(q)
      /\ (c.kind = "clear" => c.at = "stopping")
  <2>1. Without(v1, c, q) BY <1>1, DropKeeps DEF Video!Drop
  <2> HIDE DEF q
  <2>2. QED BY <2>1 DEF Without
<1>3. \/ c.token = v1.token /\ v1' \in Video!Adopt(q, c, Video!Made(c))
      \/ /\ c.token # v1.token
         /\ v1' = [q EXCEPT !.stops = @ \cup {[id |-> c.token, chain |-> 0]}]
  BY DEF Video!Created, Video!Newest
<1>4. c.item # None /\ (c.token = v1.token => c.item = q.item) /\ c.token \in Nat
  BY <1>2 DEF Video!Created, May, Video!Chain
<1> HIDE DEF q
<1>5. CASE c.token = v1.token /\ v1' \in Video!Adopt(q, c, Video!Made(c))
  <2>1. Sound(v1') BY <1>2, <1>4, <1>5, AdoptSound
  <2>2. QED BY <2>1 DEF Sound, Fit, Video!IInv
<1>6. CASE /\ c.token # v1.token
           /\ v1' = [q EXCEPT !.stops = @ \cup {[id |-> c.token, chain |-> 0]}]
  <2>1. Sound(v1') BY <1>2, <1>4, <1>6, StopSentSound
  <2>2. QED BY <2>1 DEF Sound, Fit, Video!IInv
<1>7. QED BY <1>3, <1>5, <1>6

LEMMA CreateFailedKeeps ==
  ASSUME Video!TimesHaveStart, Video!IInv, NEW c \in v1.chains, Video!CreateFailed(c) PROVE Video!IInv'
<1> DEFINE q == Video!Drop(c)
<1>1. Sound(v1) BY InvIsSound
<1>2. /\ Fit(q) /\ q.token = v1.token /\ c \in Video!Chain(Nat)
      /\ c.token # v1.token => Sound(q)
      /\ c.token = v1.token /\ c.kind = "start" => q.seeking = FALSE
  <2>1. Without(v1, c, q) BY <1>1, DropKeeps DEF Video!Drop
  <2> HIDE DEF q
  <2>2. QED BY <2>1 DEF Without
<1>3. \/ c.token = v1.token /\ v1' \in Video!NoSession(q, c)
      \/ c.token # v1.token /\ v1' = q
  BY DEF Video!CreateFailed, Video!Newest
<1> HIDE DEF q
<1>4. Sound(v1') BY <1>2, <1>3, NoSessionSound
<1>5. QED BY <1>4 DEF Sound, Fit, Video!IInv

(* What happens to the session.                                             *)
LEMMA RecoveryKeeps == ASSUME Video!TimesHaveStart, Video!IInv, Video!RecoveryFires PROVE Video!IInv'
<1> DEFINE r == v1.recovery
<1>1. Sound(v1) /\ v1 \in Video!Player(Nat) BY InvIsSound DEF Video!IInv
<1>2. r \in [target : Positions, forced : BOOLEAN, transcode : BOOLEAN]
  BY <1>1, PlayerFields DEF Video!RecoveryFires
<1>3. v1' \in Video!Restart(v1, r.target, r.forced, r.transcode) BY DEF Video!RecoveryFires
<1> HIDE DEF r
<1>4. r.target \in Positions /\ r.forced \in BOOLEAN /\ r.transcode \in BOOLEAN BY <1>2
<1>5. Sound(v1') BY <1>1, <1>3, <1>4, RestartSound
<1>6. QED BY <1>5 DEF Sound, Fit, Video!IInv

LEMMA ErrorKeeps == ASSUME Video!TimesHaveStart, Video!IInv, Video!MediaError PROVE Video!IInv'
<1> DEFINE at == v1.position
           p == Video!Recover(v1, at, TRUE, TRUE)
           key == <<v1.item, at>>
<1>1. Sound(v1) /\ v1 \in Video!Player(Nat) BY InvIsSound DEF Video!IInv
<1>2. at \in Positions BY <1>1, PlayerFields
<1>3. \/ p # v1 /\ v1' = [p EXCEPT !.tried = @ \cup {key}]
      \/ v1' = v1 \/ v1' = Video!Recover(v1, at, TRUE, FALSE)
  BY DEF Video!MediaError
<1>4. p # v1 => v1.item # None BY DEF Video!Recover
<1>5. p # v1 => key \in Videos \X Positions BY <1>1, <1>2, <1>4, PlayerFields
<1> HIDE DEF at, key
<1>6. CASE p # v1 /\ v1' = [p EXCEPT !.tried = @ \cup {key}]
  <2>1. /\ p \in Video!Player(Nat) /\ Same(v1, p) /\ p.local = v1.local
        /\ p.seeking = v1.seeking
    BY <1>1, <1>2, RecoverKeeps
  <2> HIDE DEF p
  <2>2. /\ v1' \in Video!Player(Nat) /\ Same(p, v1') /\ v1'.local = p.local
        /\ v1'.seeking = p.seeking
    <3> DEFINE T == p.tried \cup {key}
    <3>1. T \in SUBSET (Videos \X Positions) /\ v1' = [p EXCEPT !.tried = T]
      BY <1>5, <1>6, <2>1, PlayerFields
    <3> HIDE DEF T
    <3>2. QED BY <2>1, <3>1 DEF Video!Player, Same
  <2>3. Sound(v1') BY <1>1, <2>1, <2>2, SameIsSound
  <2>4. QED BY <2>3 DEF Sound, Fit, Video!IInv
<1>7. CASE v1' = v1 BY <1>1, <1>7 DEF Sound, Fit, Video!IInv
<1>8. CASE v1' = Video!Recover(v1, at, TRUE, FALSE)
  <2>1. Sound(v1') BY <1>1, <1>2, <1>8, RecoverKeeps, SameIsSound
  <2>2. QED BY <2>1 DEF Sound, Fit, Video!IInv
<1>9. QED BY <1>3, <1>6, <1>7, <1>8

LEMMA PlaysKeeps == ASSUME Video!TimesHaveStart, Video!IInv, Video!Plays PROVE Video!IInv'
<1>1. Sound(v1) /\ v1 \in Video!Player(Nat) BY InvIsSound DEF Video!IInv
<1>2. v1' = [v1 EXCEPT !.recovery = None, !.tried = {}] BY DEF Video!Plays
<1>3. /\ v1' \in Video!Player(Nat) /\ Same(v1, v1') /\ v1'.local = v1.local
      /\ v1'.seeking = v1.seeking
  BY <1>1, <1>2 DEF Video!Player, Same
<1>4. Sound(v1') BY <1>1, <1>3, SameIsSound
<1>5. QED BY <1>4 DEF Sound, Fit, Video!IInv

LEMMA MissingKeeps ==
  ASSUME Video!TimesHaveStart, Video!IInv,
         v1' = Video!Missing(v1) \/ v1' = Video!Recover(v1, v1.position, TRUE, FALSE)
  PROVE  Video!IInv'
<1> DEFINE q == Video!ClearLocal(v1)
<1>1. Sound(v1) /\ v1 \in Video!Player(Nat) BY InvIsSound DEF Video!IInv
<1>2. v1.position \in Positions BY <1>1, PlayerFields
<1>3. v1' = v1 \/ v1' = Video!ResetSurface(q)
      \/ v1' = Video!Recover(v1, v1.position, TRUE, FALSE)
  BY DEF Video!Missing
<1>4. q \in Video!Player(Nat) /\ Same(v1, q) /\ q.local = None /\ q.seeking = v1.seeking
  BY <1>1, PlayerClearKeeps
<1> HIDE DEF q
<1>5. CASE v1' = v1 BY <1>1, <1>5 DEF Sound, Fit, Video!IInv
<1>6. CASE v1' = Video!ResetSurface(q)
  <2>1. /\ v1' \in Video!Player(Nat) /\ Same(q, v1') /\ v1'.local = q.local
        /\ v1'.seeking = FALSE
    BY <1>4, <1>6, PlayerResetKeeps
  <2>2. Sound(q) BY <1>1, <1>4, SameIsSound
  <2>3. Sound(v1') BY <2>1, <2>2, SameIsSound
  <2>4. QED BY <2>3 DEF Sound, Fit, Video!IInv
<1>7. CASE v1' = Video!Recover(v1, v1.position, TRUE, FALSE)
  <2>1. Sound(v1') BY <1>1, <1>2, <1>7, RecoverKeeps, SameIsSound
  <2>2. QED BY <2>1 DEF Sound, Fit, Video!IInv
<1>8. QED BY <1>3, <1>5, <1>6, <1>7

LEMMA VideoNext == Video!TimesHaveStart /\ Video!IInv /\ [Video!Next]_(Video!vars) => Video!IInv'
<1> SUFFICES ASSUME Video!TimesHaveStart, Video!IInv, [Video!Next]_(Video!vars) PROVE Video!IInv' OBVIOUS
<1>1. Sound(v1) /\ v1 \in Video!Player(Nat) BY InvIsSound DEF Video!IInv
<1>2. v1.item \in Videos \cup {None} BY <1>1, PlayerFields
<1>3. ASSUME NEW i \in Videos \cup {None}, v1' = Video!SyncTo(v1, i) PROVE Video!IInv'
  <2>1. Sound(v1') BY <1>1, <1>3, SyncSound
  <2>2. QED BY <2>1 DEF Sound, Fit, Video!IInv
<1>4. CASE \E i \in Videos \cup {None} : Video!Play(i) BY <1>3, <1>4 DEF Video!Play
<1>5. CASE \E t \in Positions : Video!Seek(t) BY <1>5, SeekKeeps
<1>6. CASE Video!ChangeAudio \/ Video!ApplyStyle \/ \E k \in {"text", "burn"} : Video!SelectTrack(k)
  BY <1>6, AudioKeeps, StyleKeeps, TrackKeeps
<1>7. CASE Video!LeavePane BY <1>7, LeaveKeeps
<1>8. CASE Video!EnterPane BY <1>2, <1>3, <1>8 DEF Video!EnterPane
<1>9. CASE \E s \in v1.stops : Video!Stopped(s) BY <1>9, StoppedKeeps
<1>10. CASE \E c \in v1.chains : Video!Probed(c) \/ Video!ProbeFailed(c) \/ Video!Created(c) \/ Video!CreateFailed(c)
  BY <1>10, ProbedKeeps, ProbeFailedKeeps, CreatedKeeps, CreateFailedKeeps
<1>11. CASE Video!RecoveryFires \/ Video!MediaError \/ Video!Plays
  BY <1>11, RecoveryKeeps, ErrorKeeps, PlaysKeeps
<1>12. CASE \/ Video!SegmentMissing \/ (\E s \in v5 : Video!Lose(s)) \/ UNCHANGED Video!vars
  <2>1. v1' = v1 BY <1>12 DEF Video!SegmentMissing, Video!Lose, Video!vars
  <2>2. QED BY <1>1, <2>1 DEF Sound, Fit, Video!IInv
<1>13. CASE (\E id \in v4 : Video!Polled(id)) \/ Video!ReportedMissing
  <2>1. v1' = Video!Missing(v1) \/ v1' = Video!Recover(v1, v1.position, TRUE, FALSE)
    BY <1>13 DEF Video!Polled, Video!ReportedMissing
  <2>2. QED BY <2>1, MissingKeeps
<1>14. QED
  BY <1>4, <1>5, <1>6, <1>7, <1>8, <1>9, <1>10, <1>11, <1>12, <1>13 DEF Video!Next

-----------------------------------------------------------------------------
(* Subtitles: a crossing is noticed with the load that it asks for, or while *)
(* one with the same key is under way.  Loads that share a request end       *)
(* together; a startup load shares none with a refresh of its token, which   *)
(* is for a later position.  So a refresh ends by its text being shown,      *)
(* which forgets the crossing, or by its failure, which is shown.            *)

(* What the lemmas below say of a step: a set of loads ends, others of the  *)
(* session may start; the playback stays with its token and session or goes *)
(* on to the next token.                                                    *)
Crossings(T) == [stream : Streams, token : T, out : BOOLEAN, failed : BOOLEAN]
Playbacks(T) == [token : T, start : Int, position : Int, selected : Streams \cup {Off}, revealed : BOOLEAN]

PlaybackGoesOn ==
  /\ v1' \in Playbacks(Nat) /\ v1'.start <= v1'.position
  /\ \/ v1'.token = v1.token /\ v1'.start = v1.start
     \/ v1'.token = v1.token + 1

IsOfSession(l) ==
  /\ l.target \in Int /\ l.token \in Nat /\ l.token <= v1'.token
  /\ l.token = v1'.token /\ l.kind = "startup" => l.target = v1'.start
  /\ l.token = v1'.token /\ l.kind = "refresh" => l.target > v1'.start

LoadsGoOn(gone) ==
  /\ v5 \ gone \subseteq v5'
  /\ \A l \in v5' : l \in v5 \/ IsOfSession(l)

(* Initially nothing is loaded.                                             *)
LEMMA SubtitlesInit ==
  ASSUME Subtitles!Init
  PROVE  Subtitles!IInv
<1>1. Subtitles!Typed(Nat)
  <2>1. v1 \in [token : Nat, start : Int, position : Int, selected : Streams \cup {Off},
               revealed : BOOLEAN]
    <3>1. v1 = [token |-> 0, start |-> 0, position |-> 0, selected |-> v1.selected,
                revealed |-> TRUE] /\ v1.selected \in Streams
      BY DEF Subtitles!Init
    <3>2. v1.selected \in Streams \cup {Off} BY <3>1
    <3> DEFINE s == v1.selected
    <3> HIDE DEF s
    <3>3. v1 = [token |-> 0, start |-> 0, position |-> 0, selected |-> s, revealed |-> TRUE]
          /\ s \in Streams \cup {Off}
      BY <3>1, <3>2 DEF s
    <3>4. QED BY <3>3
  <2>2. QED BY <2>1 DEF Subtitles!Init, Subtitles!Typed
<1>2. Subtitles!LoadsAreSessions
  <2>1. v1.start <= v1.position BY DEF Subtitles!Init
  <2>2. QED BY <2>1 DEF Subtitles!Init, Subtitles!LoadsAreSessions
<1>3. QED BY <1>1, <1>2 DEF Subtitles!Init, Subtitles!IInv, Subtitles!KeyIsRefreshs,
    Subtitles!CrossingIsServed

(* Types and the bounds of the loads, whatever ends.                        *)
LEMMA SessionsGoOn ==
  ASSUME Subtitles!IInv, NEW gone, PlaybackGoesOn, LoadsGoOn(gone), v8' \in BOOLEAN,
         v3' = None \/ (v3' \in Crossings(Nat) /\ v3'.token <= v1'.token)
  PROVE  Subtitles!Typed(Nat)' /\ Subtitles!LoadsAreSessions'
<1>1. v1 \in Playbacks(Nat) /\ \A l \in v5 : l.target \in Int /\ l.token \in Nat
  BY DEF Subtitles!IInv, Subtitles!Typed, Playbacks
<1>2. Subtitles!Typed(Nat)'
  BY <1>1 DEF Subtitles!Typed, Playbacks, Crossings, PlaybackGoesOn, LoadsGoOn, IsOfSession
<1>3. ASSUME NEW l \in v5'
      PROVE  /\ l.token <= v1'.token
             /\ l.token = v1'.token /\ l.kind = "startup" => l.target = v1'.start
             /\ l.token = v1'.token /\ l.kind = "refresh" => l.target > v1'.start
  <2>1. CASE IsOfSession(l) BY <2>1 DEF IsOfSession
  <2>2. CASE l \in v5
    <3>1. l.token \in Nat /\ l.token <= v1.token /\ v1.token \in Nat /\ v1'.token \in Nat
      BY <1>1, <2>2 DEF Playbacks, PlaybackGoesOn, Subtitles!IInv, Subtitles!LoadsAreSessions
    <3>2. CASE v1'.token = v1.token /\ v1'.start = v1.start
      BY <2>2, <3>1, <3>2 DEF Subtitles!IInv, Subtitles!LoadsAreSessions
    <3>3. CASE v1'.token = v1.token + 1 BY <3>1, <3>3
    <3>4. QED BY <3>2, <3>3 DEF PlaybackGoesOn
  <2>3. QED BY <2>1, <2>2 DEF LoadsGoOn
<1>4. Subtitles!LoadsAreSessions' BY <1>3 DEF Subtitles!LoadsAreSessions, PlaybackGoesOn
<1>5. QED BY <1>2, <1>4

(* The key is given up with the loads that end.                             *)
LEMMA KeyGoesOn ==
  ASSUME Subtitles!IInv, NEW gone, LoadsGoOn(gone), Subtitles!EndRefresh(gone)
  PROVE  Subtitles!KeyIsRefreshs'
<1>1. SUFFICES ASSUME v6' # None PROVE Subtitles!KeyIsRefreshs' BY DEF Subtitles!KeyIsRefreshs
<1>2. v6' = v6 /\ \A l \in gone : ~(l.kind = "refresh" /\ v6 = <<l.stream, l.token>>)
  BY <1>1 DEF Subtitles!EndRefresh
<1>3. PICK s \in Streams, k \in Nat : v6 = <<s, k>> /\ Subtitles!Refreshes(s, k)
  BY <1>1, <1>2 DEF Subtitles!IInv, Subtitles!KeyIsRefreshs
<1>4. PICK l \in v5 : l.kind = "refresh" /\ l.stream = s /\ l.token = k
  BY <1>3 DEF Subtitles!Refreshes
<1>5. l \in v5' BY <1>2, <1>3, <1>4 DEF LoadsGoOn
<1>6. Subtitles!Refreshes(s, k)' BY <1>4, <1>5 DEF Subtitles!Refreshes
<1>7. QED BY <1>2, <1>3, <1>6 DEF Subtitles!KeyIsRefreshs

(* A crossing stays as it was, and no refresh of the token ends.            *)
LEMMA CrossingGoesOn ==
  ASSUME Subtitles!IInv, NEW gone, PlaybackGoesOn, LoadsGoOn(gone),
         v3' = v3, v8' => v8,
         \A l \in gone : l.kind = "refresh" => l.token # v1.token
  PROVE  Subtitles!CrossingIsServed'
<1>1. SUFFICES ASSUME v3 # None, v3.out, v3.token = v1'.token, ~v3.failed
               PROVE  ~v8' /\ Subtitles!Refreshes(v3.stream, v3.token)'
  BY DEF Subtitles!CrossingIsServed
<1>2. v3.token = v1.token
  BY <1>1 DEF PlaybackGoesOn, Subtitles!IInv, Subtitles!Typed, Subtitles!LoadsAreSessions
<1>3. ~v8 /\ Subtitles!Refreshes(v3.stream, v3.token)
  BY <1>1, <1>2 DEF Subtitles!IInv, Subtitles!CrossingIsServed
<1>4. PICK l \in v5 : l.kind = "refresh" /\ l.stream = v3.stream /\ l.token = v3.token
  BY <1>3 DEF Subtitles!Refreshes
<1>5. l \in v5' BY <1>2, <1>4 DEF LoadsGoOn
<1>6. QED BY <1>3, <1>4, <1>5 DEF Subtitles!Refreshes

(* Loads end and start; the crossing is forgotten or stays.                 *)
LEMMA LoadsKeep ==
  ASSUME Subtitles!IInv, NEW gone, PlaybackGoesOn, LoadsGoOn(gone), Subtitles!EndRefresh(gone), v8' \in BOOLEAN,
         \/ v3' = None
         \/ /\ v3' = v3 /\ (v8' => v8)
            /\ \A l \in gone : l.kind = "refresh" => l.token # v1.token
  PROVE  Subtitles!IInv'
<1>1. v3' = None \/ (v3' \in Crossings(Nat) /\ v3'.token <= v1'.token)
  BY DEF Subtitles!IInv, Subtitles!Typed, Crossings, Subtitles!LoadsAreSessions,
     PlaybackGoesOn, Playbacks
<1>2. Subtitles!Typed(Nat)' /\ Subtitles!LoadsAreSessions' BY <1>1, SessionsGoOn
<1>3. Subtitles!KeyIsRefreshs' BY KeyGoesOn
<1>4. Subtitles!CrossingIsServed' 
  <2>1. CASE v3' = None BY <2>1 DEF Subtitles!CrossingIsServed
  <2>2. QED BY <2>1, CrossingGoesOn
<1>5. QED BY <1>2, <1>3, <1>4 DEF Subtitles!IInv

(* What a call of applySubtitlesForSeek does to the loads that wait.        *)
LEMMA ApplyAdds ==
  ASSUME Subtitles!IInv, NEW stream \in Streams \cup {Off}, NEW seek \in Int, NEW t \in Int, NEW token \in Nat,
         NEW waiting, token <= v1'.token, stream = Off \/ stream \in Streams,
         Subtitles!Apply(stream, seek, t, token, "plain", waiting)
  PROVE  /\ waiting \subseteq v5' /\ \A l \in v5' : l \in waiting \/ IsOfSession(l)
         /\ v8' \in BOOLEAN /\ (v3' = None \/ (v3' = v3 /\ (v8' => v8)))
<1>1. v8 \in BOOLEAN BY DEF Subtitles!IInv, Subtitles!Typed
<1>2. CASE stream = Off /\ Subtitles!Clear /\ v5' = waiting BY <1>2 DEF Subtitles!Clear
<1>3. CASE stream # Off /\ Subtitles!Covers(stream, seek, t) /\ v5' = waiting /\ UNCHANGED <<v2, v3, v8>>
  BY <1>1, <1>3
<1>4. CASE Subtitles!MountText(stream, seek, t, v4) /\ v5' = waiting
  BY <1>4 DEF Subtitles!MountText
<1>5. CASE /\ stream # Off
           /\ v5' = waiting \cup {[stream |-> stream, seek |-> seek, target |-> t,
                                   token |-> token, kind |-> "plain"]}
           /\ v8' = FALSE /\ UNCHANGED <<v2, v3>>
  <2> DEFINE l == [stream |-> stream, seek |-> seek, target |-> t, token |-> token, kind |-> "plain"]
  <2>1. IsOfSession(l) BY <1>5 DEF IsOfSession
  <2>2. QED BY <1>1, <1>5, <2>1
<1>6. QED BY <1>2, <1>3, <1>4, <1>5 DEF Subtitles!Apply

(* A session is attached.                                                   *)
LEMMA AttachKeeps ==
  ASSUME Subtitles!IInv, NEW t \in Subtitles!Times, Subtitles!Attach(t)
  PROVE  Subtitles!IInv'
<1>1. v1 \in Playbacks(Nat) /\ t \in Int
  BY DEF Subtitles!IInv, Subtitles!Typed, Playbacks, Subtitles!Times
<1>2. PlaybackGoesOn
  <2>1. v1' = [v1 EXCEPT !.token = @ + 1, !.start = t, !.position = t, !.revealed = FALSE]
    BY DEF Subtitles!Attach
  <2>2. v1'.token = v1.token + 1 /\ v1'.start = t /\ v1'.position = t
    BY <1>1, <2>1 DEF Playbacks
  <2>3. v1' \in Playbacks(Nat)
    <3> DEFINE u == [v1 EXCEPT !.token = @ + 1]
               v == [u EXCEPT !.start = t]
               w == [v EXCEPT !.position = t]
    <3>1. u \in Playbacks(Nat) BY <1>1 DEF Playbacks
    <3>2. v \in Playbacks(Nat) BY <1>1, <3>1 DEF Playbacks
    <3>3. w \in Playbacks(Nat) BY <1>1, <3>2 DEF Playbacks
    <3>4. v1' = [w EXCEPT !.revealed = FALSE] BY <2>1
    <3>5. QED BY <3>3, <3>4 DEF Playbacks
  <2>4. QED BY <1>1, <2>2, <2>3 DEF PlaybackGoesOn
<1>3. v3' = None /\ v8' = FALSE BY DEF Subtitles!Attach, Subtitles!MountText, Subtitles!Clear
<1>4. LoadsGoOn({}) /\ Subtitles!EndRefresh({})
  BY DEF Subtitles!Attach, LoadsGoOn, Subtitles!EndRefresh
<1>5. QED BY <1>2, <1>3, <1>4, LoadsKeep

(* The picture is revealed.                                                 *)
LEMMA RevealKeeps ==
  ASSUME Subtitles!IInv, Subtitles!Reveal
  PROVE  Subtitles!IInv'
<1>1. /\ v1 \in Playbacks(Nat) /\ v1.start <= v1.position /\ v8 \in BOOLEAN
      /\ v1' = [v1 EXCEPT !.revealed = TRUE] /\ v6' = v6
  BY DEF Subtitles!IInv, Subtitles!Typed, Playbacks, Subtitles!LoadsAreSessions,
     Subtitles!Reveal
<1>2. /\ v1' \in Playbacks(Nat) /\ v1'.token = v1.token /\ v1'.start = v1.start
      /\ v1'.position = v1.position
  BY <1>1 DEF Playbacks
<1>3. PlaybackGoesOn BY <1>1, <1>2 DEF PlaybackGoesOn
<1>4. Subtitles!EndRefresh({}) BY <1>1 DEF Subtitles!EndRefresh
<1>5. CASE Subtitles!Apply(v1.selected, v1.start, v1.start, v1.token, "plain", v5)
  <2>1. v1.selected \in Streams \cup {Off} /\ v1.start \in Int /\ v1.token \in Nat
        /\ v1.token <= v1'.token
    BY <1>1, <1>2 DEF Playbacks
  <2>2. /\ v5 \subseteq v5' /\ \A l \in v5' : l \in v5 \/ IsOfSession(l)
        /\ v8' \in BOOLEAN /\ (v3' = None \/ (v3' = v3 /\ (v8' => v8)))
    BY <1>5, <2>1, ApplyAdds
  <2>3. LoadsGoOn({}) BY <2>2 DEF LoadsGoOn
  <2>4. QED BY <1>3, <1>4, <2>2, <2>3, LoadsKeep
<1>6. CASE /\ v5' = v5 \cup {[stream |-> v1.selected, seek |-> v1.start,
                              target |-> v1.start, token |-> v1.token, kind |-> "startup"]}
           /\ v8' = FALSE /\ UNCHANGED <<v2, v3>>
  <2> DEFINE l == [stream |-> v1.selected, seek |-> v1.start,
                   target |-> v1.start, token |-> v1.token, kind |-> "startup"]
  <2>1. IsOfSession(l) BY <1>1, <1>2 DEF IsOfSession, Playbacks
  <2>2. LoadsGoOn({}) BY <1>6, <2>1 DEF LoadsGoOn
  <2>3. QED BY <1>3, <1>4, <1>6, <2>2, LoadsKeep
<1>7. QED BY <1>5, <1>6 DEF Subtitles!Reveal

(* A seek inside the session.                                               *)
LEMMA SeekInsideKeeps ==
  ASSUME Subtitles!IInv, NEW t \in Subtitles!Times, Subtitles!SeekTo(t)
  PROVE  Subtitles!IInv'
<1>1. /\ v1 \in Playbacks(Nat) /\ t \in Int /\ t >= v1.start
      /\ v1' = [v1 EXCEPT !.token = @ + 1, !.position = t] /\ v6' = v6
      /\ Subtitles!Apply(v1.selected, v1.start, t, v1.token + 1, "plain", v5)
  BY DEF Subtitles!IInv, Subtitles!Typed, Playbacks, Subtitles!SeekTo, Subtitles!Times
<1>2. v1' \in Playbacks(Nat) /\ v1'.token = v1.token + 1 /\ v1'.start <= v1'.position
  <2>1. /\ v1'.token = v1.token + 1 /\ v1'.start = v1.start /\ v1'.position = t
        /\ v1.start \in Int
    BY <1>1 DEF Playbacks
  <2>2. v1' \in Playbacks(Nat)
    <3> DEFINE u == [v1 EXCEPT !.token = @ + 1]
    <3>1. u \in Playbacks(Nat) BY <1>1 DEF Playbacks
    <3>2. v1' = [u EXCEPT !.position = t] BY <1>1
    <3>3. QED BY <1>1, <3>1, <3>2 DEF Playbacks
  <2>3. QED BY <1>1, <2>1, <2>2
<1>3. PlaybackGoesOn BY <1>2 DEF PlaybackGoesOn
<1>4. Subtitles!EndRefresh({}) BY <1>1 DEF Subtitles!EndRefresh
<1>5. v1.selected \in Streams \cup {Off} /\ v1.start \in Int /\ v1.token + 1 \in Nat
      /\ v1.token + 1 <= v1'.token
  BY <1>1, <1>2 DEF Playbacks
<1>6. /\ v5 \subseteq v5' /\ \A l \in v5' : l \in v5 \/ IsOfSession(l)
      /\ v8' \in BOOLEAN /\ (v3' = None \/ (v3' = v3 /\ (v8' => v8)))
  BY <1>1, <1>5, ApplyAdds
<1>7. LoadsGoOn({}) BY <1>6 DEF LoadsGoOn
<1>8. QED BY <1>3, <1>4, <1>6, <1>7, LoadsKeep

(* Another track is selected.                                               *)
LEMMA SelectKeeps ==
  ASSUME Subtitles!IInv, NEW k \in Streams \cup {Off}, Subtitles!SelectTrack(k)
  PROVE  Subtitles!IInv'
<1>1. /\ v1 \in Playbacks(Nat) /\ v1.start <= v1.position
      /\ v1' = [v1 EXCEPT !.selected = k] /\ v6' = v6
      /\ Subtitles!Apply(k, v1.start, v1.position, 0, "plain", v5)
  BY DEF Subtitles!IInv, Subtitles!Typed, Playbacks, Subtitles!LoadsAreSessions,
     Subtitles!SelectTrack
<1>2. /\ v1' \in Playbacks(Nat) /\ v1'.token = v1.token /\ v1'.start = v1.start
      /\ v1'.start <= v1'.position
  BY <1>1 DEF Playbacks
<1>3. PlaybackGoesOn BY <1>2 DEF PlaybackGoesOn
<1>4. Subtitles!EndRefresh({}) BY <1>1 DEF Subtitles!EndRefresh
<1>5. v1.start \in Int /\ v1.position \in Int /\ 0 \in Nat /\ 0 <= v1'.token
  BY <1>1, <1>2 DEF Playbacks
<1>6. /\ v5 \subseteq v5' /\ \A l \in v5' : l \in v5 \/ IsOfSession(l)
      /\ v8' \in BOOLEAN /\ (v3' = None \/ (v3' = v3 /\ (v8' => v8)))
  BY <1>1, <1>5, ApplyAdds
<1>7. LoadsGoOn({}) BY <1>6 DEF LoadsGoOn
<1>8. QED BY <1>3, <1>4, <1>6, <1>7, LoadsKeep

(* Playback moves on.                                                       *)
LEMMA TickKeeps ==
  ASSUME Subtitles!NoneIsNoKey, Subtitles!IInv, Subtitles!Tick
  PROVE  Subtitles!IInv'
<1> DEFINE t == v1.position + 1
           l == [stream |-> v1.selected, seek |-> v2.seek, target |-> t,
                 token |-> v1.token, kind |-> "refresh"]
<1>1. /\ v1 \in Playbacks(Nat) /\ v1.start <= v1.position /\ v8 \in BOOLEAN
      /\ v1' = [v1 EXCEPT !.position = t]
  BY DEF Subtitles!IInv, Subtitles!Typed, Playbacks, Subtitles!LoadsAreSessions,
     Subtitles!Tick
<1>2. /\ v1'.token = v1.token /\ v1'.start = v1.start /\ v1'.position = t
      /\ t \in Int /\ t > v1.start
  BY <1>1 DEF Playbacks
<1>3. PlaybackGoesOn
  <2>1. v1' \in Playbacks(Nat) BY <1>1, <1>2 DEF Playbacks
  <2>2. v1'.start <= v1'.position BY <1>1, <1>2 DEF Playbacks
  <2>3. QED BY <1>2, <2>1, <2>2 DEF PlaybackGoesOn
<1>4. Subtitles!Crossing.token = v1.token /\ Subtitles!Crossing.stream = v1.selected /\ Subtitles!Crossing.out
      /\ ~Subtitles!Crossing.failed
  BY DEF Subtitles!Crossing
<1>5. v1.selected # Off =>
        Subtitles!Crossing \in Crossings(Nat) /\ [Subtitles!Crossing EXCEPT !.out = FALSE] \in Crossings(Nat)
  BY <1>1 DEF Subtitles!Crossing, Crossings, Playbacks
<1>6. CASE UNCHANGED <<v3, v5, v6, v8>>
  <2>1. LoadsGoOn({}) /\ Subtitles!EndRefresh({}) BY <1>6 DEF LoadsGoOn, Subtitles!EndRefresh
  <2>2. QED BY <1>1, <1>3, <1>6, <2>1, LoadsKeep
<1>7. CASE /\ v1.selected # Off /\ v3' = [Subtitles!Crossing EXCEPT !.out = FALSE]
           /\ UNCHANGED <<v2, v5, v6, v8>>
  <2>1. LoadsGoOn({}) /\ Subtitles!EndRefresh({}) BY <1>7 DEF LoadsGoOn, Subtitles!EndRefresh
  <2>2. v3'.token = v1.token /\ ~v3'.out BY <1>7 DEF Subtitles!Crossing
  <2>3. v3' \in Crossings(Nat) /\ v3'.token <= v1'.token
    BY <1>1, <1>2, <1>5, <1>7, <2>2 DEF Playbacks
  <2>4. Subtitles!Typed(Nat)' /\ Subtitles!LoadsAreSessions'
    BY <1>1, <1>3, <1>7, <2>1, <2>3, SessionsGoOn
  <2>5. Subtitles!KeyIsRefreshs' BY <2>1, KeyGoesOn
  <2>6. Subtitles!CrossingIsServed' BY <2>2 DEF Subtitles!CrossingIsServed
  <2>7. QED BY <2>4, <2>5, <2>6 DEF Subtitles!IInv
<1>8. CASE /\ v1.selected # Off /\ ~v8 /\ v6 = <<v1.selected, v1.token>>
           /\ v3' = Subtitles!Crossing /\ UNCHANGED <<v2, v5, v6, v8>>
  <2>1. LoadsGoOn({}) /\ Subtitles!EndRefresh({}) BY <1>8 DEF LoadsGoOn, Subtitles!EndRefresh
  <2>2. v3' \in Crossings(Nat) /\ v3'.token <= v1'.token
    BY <1>1, <1>2, <1>4, <1>5, <1>8 DEF Playbacks
  <2>3. Subtitles!Typed(Nat)' /\ Subtitles!LoadsAreSessions'
    BY <1>1, <1>3, <1>8, <2>1, <2>2, SessionsGoOn
  <2>4. Subtitles!KeyIsRefreshs' BY <2>1, KeyGoesOn
  <2>5. v6 # None
    <3>1. v1.selected \in Streams /\ v1.token \in Nat BY <1>1, <1>8 DEF Playbacks
    <3>2. QED BY <1>8, <3>1 DEF Subtitles!NoneIsNoKey
  <2>6. Subtitles!CrossingIsServed'
    <3>1. PICK s \in Streams, k \in Nat : v6 = <<s, k>> /\ Subtitles!Refreshes(s, k)
      BY <2>5 DEF Subtitles!IInv, Subtitles!KeyIsRefreshs
    <3>2. s = v1.selected /\ k = v1.token BY <1>8, <3>1
    <3>3. QED BY <1>2, <1>4, <1>8, <3>1, <3>2 DEF Subtitles!CrossingIsServed,
        Subtitles!Refreshes
  <2>7. QED BY <2>3, <2>4, <2>6 DEF Subtitles!IInv
<1>9. CASE Subtitles!MountText(v1.selected, v2.seek, t, v4) /\ UNCHANGED <<v5, v6>>
  <2>1. LoadsGoOn({}) /\ Subtitles!EndRefresh({}) BY <1>9 DEF LoadsGoOn, Subtitles!EndRefresh
  <2>2. v3' = None /\ v8' = FALSE BY <1>9 DEF Subtitles!MountText
  <2>3. QED BY <1>3, <2>1, <2>2, LoadsKeep
<1>10. CASE /\ v1.selected # Off /\ v3' = Subtitles!Crossing /\ v8' = FALSE
            /\ v6' = <<v1.selected, v1.token>> /\ v5' = v5 \cup {l}
  <2>1. IsOfSession(l) BY <1>1, <1>2 DEF IsOfSession, Playbacks
  <2>2. LoadsGoOn({}) BY <1>10, <2>1 DEF LoadsGoOn
  <2>3. v3' \in Crossings(Nat) /\ v3'.token <= v1'.token
    BY <1>1, <1>2, <1>4, <1>5, <1>10 DEF Playbacks
  <2>4. Subtitles!Typed(Nat)' /\ Subtitles!LoadsAreSessions'
    BY <1>3, <1>10, <2>2, <2>3, SessionsGoOn
  <2>5. l \in v5' /\ l.kind = "refresh" /\ l.stream = v1.selected /\ l.token = v1.token
    BY <1>10
  <2>6. Subtitles!KeyIsRefreshs'
    <3>1. v1.selected \in Streams /\ v1.token \in Nat BY <1>1, <1>10 DEF Playbacks
    <3>2. \E m \in v5' : m.kind = "refresh" /\ m.stream = v1.selected /\ m.token = v1.token
      BY <2>5
    <3>3. QED BY <1>10, <3>1, <3>2 DEF Subtitles!KeyIsRefreshs, Subtitles!Refreshes
  <2>7. Subtitles!CrossingIsServed'
    BY <1>4, <1>10, <2>5 DEF Subtitles!CrossingIsServed, Subtitles!Refreshes
  <2>8. QED BY <2>4, <2>6, <2>7 DEF Subtitles!IInv
<1>11. QED BY <1>6, <1>7, <1>8, <1>9, <1>10 DEF Subtitles!Tick

(* Loads that share a request end: none of them is a refresh of the token   *)
(* unless all are of it, and a startup load shares with no refresh.         *)
LEMMA SharingIs ==
  ASSUME Subtitles!IInv, NEW l \in v5
  PROVE  /\ Subtitles!Sharing(l) \subseteq v5
         /\ l.token # v1.token => \A m \in Subtitles!Sharing(l) : m.token # v1.token
         /\ l.kind = "startup" => \A m \in Subtitles!Sharing(l) : m.kind = "refresh" => m.token # v1.token
<1>1. Subtitles!Sharing(l) \subseteq v5 BY DEF Subtitles!Sharing
<1>2. \A m \in Subtitles!Sharing(l) : m.token = l.token /\ m.target = l.target
  BY DEF Subtitles!Sharing
<1>3. ASSUME l.kind = "startup", NEW m \in Subtitles!Sharing(l), m.kind = "refresh", m.token = v1.token
      PROVE  FALSE
  <2>1. l.target = v1.start BY <1>2, <1>3 DEF Subtitles!IInv, Subtitles!LoadsAreSessions
  <2>2. m.target > v1.start BY <1>1, <1>3 DEF Subtitles!IInv, Subtitles!LoadsAreSessions
  <2>3. v1.start \in Int BY DEF Subtitles!IInv, Subtitles!Typed
  <2>4. QED BY <1>2, <1>3, <2>1, <2>2, <2>3
<1>4. QED BY <1>1, <1>2, <1>3

(* A window arrives.                                                        *)
LEMMA FetchedKeeps ==
  ASSUME Subtitles!IInv, NEW l \in v5, Subtitles!Fetched(l)
  PROVE  Subtitles!IInv'
<1> DEFINE ls == Subtitles!Sharing(l)
           c == [v4 EXCEPT !.windows = @ \cup {<<l.stream, l.target>>}]
<1>1. Subtitles!EndRefresh(ls) /\ v1' = v1 BY DEF Subtitles!Fetched
<1>2. /\ v1 \in Playbacks(Nat) /\ v1.start <= v1.position /\ v8 \in BOOLEAN
  BY DEF Subtitles!IInv, Subtitles!Typed, Playbacks, Subtitles!LoadsAreSessions
<1>3. PlaybackGoesOn BY <1>1, <1>2 DEF PlaybackGoesOn
<1>5. CASE l.token \notin {0, v1.token} /\ v5' = v5 \ ls /\ UNCHANGED <<v2, v3, v8>>
  <2>1. \A m \in ls : m.token # v1.token BY <1>5, SharingIs
  <2>2. LoadsGoOn(ls) BY <1>5 DEF LoadsGoOn
  <2> HIDE DEF ls
  <2>3. QED BY <1>1, <1>2, <1>3, <1>5, <2>1, <2>2, LoadsKeep
<1>6. CASE \E s, k, x : Subtitles!MountText(s, k, x, c) /\ v5' = v5 \ ls
  <2>1. v3' = None /\ v8' = FALSE BY <1>6 DEF Subtitles!MountText
  <2>2. LoadsGoOn(ls) BY <1>6 DEF LoadsGoOn
  <2> HIDE DEF ls, c
  <2>3. QED BY <1>1, <1>3, <2>1, <2>2, LoadsKeep
<1>7. CASE l.kind = "startup" /\ v5' = v5 \ ls /\ UNCHANGED <<v2, v3, v8>>
  <2>1. \A m \in ls : m.kind = "refresh" => m.token # v1.token BY <1>7, SharingIs
  <2>2. LoadsGoOn(ls) BY <1>7 DEF LoadsGoOn
  <2> HIDE DEF ls
  <2>3. QED BY <1>1, <1>2, <1>3, <1>7, <2>1, <2>2, LoadsKeep
<1>8. CASE /\ l.kind = "startup"
           /\ Subtitles!Apply(v1.selected, v1.start, v1.start, v1.token, "plain", v5 \ ls)
  <2>1. \A m \in ls : m.kind = "refresh" => m.token # v1.token BY <1>8, SharingIs
  <2> HIDE DEF ls, c
  <2>2. v1.selected \in Streams \cup {Off} /\ v1.start \in Int /\ v1.token \in Nat
        /\ v1.token <= v1'.token
    BY <1>1, <1>2 DEF Playbacks
  <2>3. /\ v5 \ ls \subseteq v5' /\ \A m \in v5' : m \in v5 \ ls \/ IsOfSession(m)
        /\ v8' \in BOOLEAN /\ (v3' = None \/ (v3' = v3 /\ (v8' => v8)))
    BY <1>8, <2>2, ApplyAdds
  <2>4. LoadsGoOn(ls) BY <2>3 DEF LoadsGoOn
  <2>5. QED BY <1>1, <1>3, <2>1, <2>3, <2>4, LoadsKeep
<1>9. QED BY <1>5, <1>6, <1>7, <1>8 DEF Subtitles!Fetched

(* The failure of a load is shown.                                          *)
LEMMA FailedKeeps ==
  ASSUME Subtitles!IInv, NEW l \in v5, Subtitles!FetchFailed(l)
  PROVE  Subtitles!IInv'
<1> DEFINE ls == Subtitles!Sharing(l)
<1>1. /\ Subtitles!EndRefresh(ls) /\ v1' = v1 /\ v5' = v5 \ ls /\ v8' = TRUE
      /\ v3' = IF v3 = None THEN None ELSE [v3 EXCEPT !.failed = TRUE]
  BY DEF Subtitles!FetchFailed
<1>2. /\ v1 \in Playbacks(Nat) /\ v1.start <= v1.position
      /\ v3 \in Crossings(Nat) \cup {None} /\ (v3 # None => v3.token <= v1.token)
  BY DEF Subtitles!IInv, Subtitles!Typed, Playbacks, Crossings, Subtitles!LoadsAreSessions
<1>3. PlaybackGoesOn BY <1>1, <1>2 DEF PlaybackGoesOn
<1>4. LoadsGoOn(ls) BY <1>1 DEF LoadsGoOn
<1> HIDE DEF ls
<1>5. v3 # None => /\ v3' \in Crossings(Nat) /\ v3'.token = v3.token /\ v3'.failed
  BY <1>1, <1>2 DEF Crossings
<1>6. Subtitles!Typed(Nat)' /\ Subtitles!LoadsAreSessions'
  BY <1>1, <1>2, <1>3, <1>4, <1>5, SessionsGoOn
<1>7. Subtitles!KeyIsRefreshs' BY <1>1, <1>4, KeyGoesOn
<1>8. Subtitles!CrossingIsServed' BY <1>1, <1>5 DEF Subtitles!CrossingIsServed
<1>9. QED BY <1>6, <1>7, <1>8 DEF Subtitles!IInv

(* All texts arrive.                                                        *)
LEMMA BatchKeeps ==
  ASSUME Subtitles!IInv, NEW S \in SUBSET Streams, Subtitles!BatchDone(S)
  PROVE  Subtitles!IInv'
<1>1. v1' = v1 /\ v6' = v6 BY DEF Subtitles!BatchDone
<1>2. v1 \in Playbacks(Nat) /\ v1.start <= v1.position /\ v8 \in BOOLEAN
  BY DEF Subtitles!IInv, Subtitles!Typed, Playbacks, Subtitles!LoadsAreSessions
<1>3. PlaybackGoesOn BY <1>1, <1>2 DEF PlaybackGoesOn
<1>4. Subtitles!EndRefresh({}) BY <1>1 DEF Subtitles!EndRefresh
<1>5. CASE \E s, k, x, c : Subtitles!MountText(s, k, x, c) /\ UNCHANGED v5
  <2>1. v3' = None /\ v8' = FALSE BY <1>5 DEF Subtitles!MountText
  <2>2. LoadsGoOn({}) BY <1>5 DEF LoadsGoOn
  <2>3. QED BY <1>3, <1>4, <2>1, <2>2, LoadsKeep
<1>6. CASE UNCHANGED <<v2, v3, v8, v5>>
  <2>1. LoadsGoOn({}) BY <1>6 DEF LoadsGoOn
  <2>2. QED BY <1>2, <1>3, <1>4, <1>6, <2>1, LoadsKeep
<1>7. CASE Subtitles!Apply(v1.selected, v1.start, v1.start, v1.token, "plain", v5)
  <2>1. v1.selected \in Streams \cup {Off} /\ v1.start \in Int /\ v1.token \in Nat
        /\ v1.token <= v1'.token
    BY <1>1, <1>2 DEF Playbacks
  <2>2. /\ v5 \subseteq v5' /\ \A l \in v5' : l \in v5 \/ IsOfSession(l)
        /\ v8' \in BOOLEAN /\ (v3' = None \/ (v3' = v3 /\ (v8' => v8)))
    BY <1>7, <2>1, ApplyAdds
  <2>3. LoadsGoOn({}) BY <2>2 DEF LoadsGoOn
  <2>4. QED BY <1>3, <1>4, <2>2, <2>3, LoadsKeep
<1>8. QED BY <1>5, <1>6, <1>7 DEF Subtitles!BatchDone

(* Every action keeps what Subtitles calls IInv.                            *)
LEMMA SubtitlesNext ==
  ASSUME Subtitles!NoneIsNoKey, Subtitles!IInv, [Subtitles!Next]_(Subtitles!vars)
  PROVE  Subtitles!IInv'
<1>1. CASE UNCHANGED Subtitles!vars
  BY <1>1
  DEF Subtitles!vars, Subtitles!IInv, Subtitles!Typed, Subtitles!LoadsAreSessions,
      Subtitles!KeyIsRefreshs, Subtitles!Refreshes, Subtitles!CrossingIsServed
<1>2. CASE Subtitles!Next
  BY <1>2, AttachKeeps, SeekInsideKeeps, RevealKeeps, TickKeeps, SelectKeeps, FetchedKeeps,
     FailedKeeps, BatchKeeps
  DEF Subtitles!Next
<1>3. QED BY <1>1, <1>2

-----------------------------------------------------------------------------
(* The queue: what is kept of a list is counted, so that there is just one  *)
(* such list, and a drop keeps the block and the others in their order.     *)
(* Whoever changes the list plays a row of the new one, clears the player,  *)
(* or looks the song up that is heard, which is still there; and whoever    *)
(* cannot paint marks the screen.                                           *)

(* The size that the queue counts with.                                     *)
LEMMA QueueCounts == \A S : Queue!Cardinality(S) = Cardinality(S)
  BY DEF Queue!Cardinality, Cardinality

(* The numbers from 1 to n are n.                                           *)
LEMMA FirstNumbers == \A n \in Nat : IsFiniteSet(1 .. n) /\ Cardinality(1 .. n) = n
<1> TAKE n \in Nat
<1>1. IsFiniteSet(1 .. n) /\ Cardinality(1 .. n) = IF 1 > n THEN 0 ELSE n - 1 + 1
  BY FS_Interval
<1>2. QED BY <1>1

(* The places of a set of numbers are counted without gaps: every number up *)
(* to the size of the set has its place, and a later place has more before  *)
(* it.                                                                      *)
LEMMA PlacesAreCounted ==
  ASSUME NEW at \in SUBSET Nat, IsFiniteSet(at)
  PROVE  /\ Cardinality(at) \in Nat
         /\ \A i \in at : Cardinality({j \in at : j <= i}) \in 1 .. Cardinality(at)
         /\ \A i, k \in at :
              i < k => Cardinality({j \in at : j <= i}) < Cardinality({j \in at : j <= k})
         /\ \A n \in 1 .. Cardinality(at) : \E i \in at : Cardinality({j \in at : j <= i}) = n
<1> DEFINE Upto(i) == {j \in at : j <= i}
           rank == [i \in at |-> Cardinality(Upto(i))]
           C == Cardinality(at)
<1>1. C \in Nat BY FS_CardinalityType
<1>2. ASSUME NEW i \in at PROVE IsFiniteSet(Upto(i)) /\ Cardinality(Upto(i)) \in 1 .. C
  <2>1. Upto(i) \in SUBSET at OBVIOUS
  <2>2. IsFiniteSet(Upto(i)) /\ Cardinality(Upto(i)) <= C BY <2>1, FS_Subset
  <2>3. Cardinality(Upto(i)) \in Nat BY <2>2, FS_CardinalityType
  <2>4. i \in Upto(i)
    <3>1. i \in Nat OBVIOUS
    <3>2. i <= i BY <3>1
    <3>3. QED BY <3>2
  <2>5. Cardinality(Upto(i)) # 0 BY <2>2, <2>4, FS_EmptySet
  <2>6. QED BY <1>1, <2>2, <2>3, <2>5
<1>3. ASSUME NEW i \in at, NEW k \in at, i < k
      PROVE  Cardinality(Upto(i)) < Cardinality(Upto(k))
  <2>1. Upto(i) \in SUBSET Upto(k)
    <3>1. ASSUME NEW x \in at, x <= i PROVE x <= k
      <4>1. x \in Nat /\ i \in Nat /\ k \in Nat OBVIOUS
      <4>2. QED BY <1>3, <3>1, <4>1
    <3>2. QED BY <3>1
  <2>2. k \in Upto(k) /\ k \notin Upto(i)
    <3>1. i \in Nat /\ k \in Nat OBVIOUS
    <3>2. k <= k /\ ~(k <= i) BY <1>3, <3>1
    <3>3. QED BY <3>2
  <2>3. Upto(k) # Upto(i) BY <2>2
  <2>4. IsFiniteSet(Upto(k)) BY <1>2
  <2>5. /\ Cardinality(Upto(i)) <= Cardinality(Upto(k))
        /\ Cardinality(Upto(k)) # Cardinality(Upto(i))
    BY <2>1, <2>3, <2>4, FS_Subset
  <2>6. Cardinality(Upto(i)) \in Nat /\ Cardinality(Upto(k)) \in Nat BY <1>2
  <2>7. QED BY <2>5, <2>6
<1>4. rank \in [at -> 1 .. C] BY <1>2
<1>5. Queue!IsInjective(rank)
  <2>1. ASSUME NEW a \in at, NEW b \in at, rank[a] = rank[b] PROVE a = b
    <3>1. Cardinality(Upto(a)) = Cardinality(Upto(b)) BY <2>1
    <3>2. Cardinality(Upto(a)) \in Nat BY <1>2
    <3>3. ~(a < b) /\ ~(b < a) BY <1>3, <3>1, <3>2
    <3>4. QED BY <3>3
  <2>2. QED BY <2>1, <1>4 DEF Queue!IsInjective
<1>6. rank \in Injection(at, 1 .. C) BY <1>4, <1>5 DEF Injection, Queue!IsInjective, IsInjective
<1>7. IsFiniteSet(1 .. C) /\ Cardinality(1 .. C) = C BY <1>1, FirstNumbers
<1>8. rank \in Surjection(at, 1 .. C) BY <1>6, <1>7, FS_Injection
<1>9. ASSUME NEW n \in 1 .. C PROVE \E i \in at : Cardinality(Upto(i)) = n
  BY <1>8 DEF Surjection
<1>10. QED BY <1>1, <1>2, <1>3, <1>9

(* A list whose songs stand in the order in which another one has them.     *)
InOrder(t, s) ==
  \A m, n \in DOMAIN t : m < n =>
    \E i, j \in DOMAIN s : i < j /\ t[m] = s[i] /\ t[n] = s[j]

(* What is kept of a list: the songs asked for that it has, in its order.   *)
LEMMA KeptIs ==
  ASSUME NEW S, NEW s \in Seq(S), NEW these
  PROVE  /\ Queue!Kept(s, these) \in Seq(S)
         /\ Queue!Range(Queue!Kept(s, these)) = Queue!Range(s) \cap these
         /\ InOrder(Queue!Kept(s, these), s)
         /\ Queue!IsInjective(s) => Queue!IsInjective(Queue!Kept(s, these))
<1> DEFINE at == {i \in DOMAIN s : s[i] \in these}
           t == Queue!Kept(s, these)
           C == Cardinality(at)
           Count(i) == Cardinality({j \in at : j <= i})
<1>1. DOMAIN s = 1 .. Len(s) /\ Len(s) \in Nat /\ \A i \in 1 .. Len(s) : s[i] \in S OBVIOUS
<1>2. at \in SUBSET (1 .. Len(s)) /\ IsFiniteSet(1 .. Len(s)) BY <1>1, FS_Interval
<1>3. at \in SUBSET Nat /\ IsFiniteSet(at) BY <1>1, <1>2, FS_Subset
<1>4. /\ C \in Nat /\ \A i \in at : Count(i) \in 1 .. C
      /\ \A i, k \in at : i < k => Count(i) < Count(k)
      /\ \A n \in 1 .. C : \E i \in at : Count(i) = n
  BY <1>3, PlacesAreCounted
<1>5. ASSUME NEW n \in 1 .. C PROVE Queue!Nth(n, at) \in at /\ Count(Queue!Nth(n, at)) = n
  BY <1>4, QueueCounts DEF Queue!Nth
<1> HIDE DEF at, Count
<1>6. t = [n \in 1 .. C |-> s[Queue!Nth(n, at)]] BY QueueCounts DEF Queue!Kept, at
<1>7. ASSUME NEW n \in 1 .. C
      PROVE  Queue!Nth(n, at) \in DOMAIN s /\ s[Queue!Nth(n, at)] \in these /\ t[n] = s[Queue!Nth(n, at)] /\ t[n] \in S
  BY <1>1, <1>5, <1>6 DEF at
<1>8. DOMAIN t = 1 .. C /\ t \in [1 .. C -> S] BY <1>6, <1>7
<1>9. t \in Seq(S) BY <1>4, <1>8
<1>10. ASSUME NEW i \in at PROVE \E n \in 1 .. C : t[n] = s[i]
  <2>1. Count(i) \in 1 .. C BY <1>4
  <2>2. Queue!Nth(Count(i), at) \in at /\ Count(Queue!Nth(Count(i), at)) = Count(i)
    BY <1>5, <2>1
  <2>3. Queue!Nth(Count(i), at) = i
    <3>1. ~(Count(i) < Count(i)) BY <2>1, <1>4
    <3>2. ~(Queue!Nth(Count(i), at) < i) /\ ~(i < Queue!Nth(Count(i), at)) BY <1>4, <2>2, <3>1
    <3>3. i \in Nat /\ Queue!Nth(Count(i), at) \in Nat BY <1>3, <2>2
    <3>4. QED BY <3>2, <3>3
  <2>4. QED BY <1>7, <2>1, <2>3
<1>11. Queue!Range(t) = Queue!Range(s) \cap these
  <2>1. ASSUME NEW n \in 1 .. C PROVE t[n] \in Queue!Range(s) \cap these
    BY <1>7 DEF Queue!Range
  <2>2. ASSUME NEW x \in Queue!Range(s) \cap these PROVE x \in Queue!Range(t)
    <3>1. PICK i \in DOMAIN s : x = s[i] BY DEF Queue!Range
    <3>2. i \in at BY <3>1 DEF at
    <3>3. QED BY <1>8, <1>10, <3>1, <3>2 DEF Queue!Range
  <2>3. QED BY <1>8, <2>1, <2>2 DEF Queue!Range
<1>12. InOrder(t, s)
  <2>1. ASSUME NEW m \in 1 .. C, NEW n \in 1 .. C, m < n
        PROVE  Queue!Nth(m, at) < Queue!Nth(n, at)
    <3>1. Count(Queue!Nth(m, at)) = m /\ Count(Queue!Nth(n, at)) = n BY <1>5
    <3>2. Queue!Nth(m, at) \in at /\ Queue!Nth(n, at) \in at BY <1>5
    <3>3. Queue!Nth(m, at) # Queue!Nth(n, at) BY <2>1, <3>1, <1>4
    <3>4. ~(Queue!Nth(n, at) < Queue!Nth(m, at))
      <4>1. ~(n < m) BY <2>1, <1>4
      <4>2. QED BY <1>4, <3>1, <3>2, <4>1
    <3>5. Queue!Nth(m, at) \in Nat /\ Queue!Nth(n, at) \in Nat BY <1>3, <3>2
    <3>6. QED BY <3>3, <3>4, <3>5
  <2>2. QED BY <2>1, <1>7, <1>8 DEF InOrder
<1>13. ASSUME Queue!IsInjective(s) PROVE Queue!IsInjective(t)
  <2>1. ASSUME NEW m \in 1 .. C, NEW n \in 1 .. C, m < n PROVE t[m] # t[n]
    <3>1. PICK i \in DOMAIN s, j \in DOMAIN s : i < j /\ t[m] = s[i] /\ t[n] = s[j]
      BY <1>8, <1>12, <2>1 DEF InOrder
    <3>2. i # j BY <1>1, <3>1
    <3>3. QED BY <1>13, <3>1, <3>2 DEF Queue!IsInjective
  <2>2. ASSUME NEW m \in 1 .. C, NEW n \in 1 .. C, t[m] = t[n] PROVE m = n
    <3>1. ~(m < n) /\ ~(n < m) BY <2>1, <2>2
    <3>2. QED BY <1>4, <3>1
  <2>3. QED BY <1>8, <2>2 DEF Queue!IsInjective
<1>14. QED BY <1>9, <1>11, <1>12, <1>13

(* There is one such list: whatever has just the songs asked for, in the    *)
(* order of the list, is what is kept of it.                                *)
LEMMA KeptIsOnly ==
  ASSUME NEW S, NEW s \in Seq(S), Queue!IsInjective(s), NEW these, NEW t \in Seq(S),
         Queue!Range(t) = Queue!Range(s) \cap these, InOrder(t, s)
  PROVE  t = Queue!Kept(s, these)
<1> DEFINE at == {i \in DOMAIN s : s[i] \in these}
           C == Cardinality(at)
           Upto(i) == {j \in at : j <= i}
           place == [n \in DOMAIN t |-> CHOOSE i \in at : s[i] = t[n]]
<1>1. /\ DOMAIN s = 1 .. Len(s) /\ Len(s) \in Nat /\ \A i \in 1 .. Len(s) : s[i] \in S
      /\ DOMAIN t = 1 .. Len(t) /\ Len(t) \in Nat /\ \A i \in 1 .. Len(t) : t[i] \in S
  OBVIOUS
<1>2. at \in SUBSET (1 .. Len(s)) /\ IsFiniteSet(1 .. Len(s)) BY <1>1, FS_Interval
<1>3. at \in SUBSET Nat /\ IsFiniteSet(at) BY <1>1, <1>2, FS_Subset
<1>4. ASSUME NEW n \in DOMAIN t PROVE place[n] \in at /\ s[place[n]] = t[n]
  <2>1. t[n] \in Queue!Range(s) \cap these BY DEF Queue!Range
  <2>2. PICK i \in DOMAIN s : s[i] = t[n] BY <2>1 DEF Queue!Range
  <2>3. i \in at BY <2>1, <2>2
  <2>4. QED BY <2>2, <2>3
<1>5. ASSUME NEW i \in at PROVE \E n \in DOMAIN t : place[n] = i
  <2>1. s[i] \in Queue!Range(t) BY DEF Queue!Range
  <2>2. PICK n \in DOMAIN t : t[n] = s[i] BY <2>1 DEF Queue!Range
  <2>3. place[n] \in DOMAIN s /\ i \in DOMAIN s /\ s[place[n]] = s[i] BY <1>4, <2>2
  <2>4. place[n] = i BY <2>3 DEF Queue!IsInjective
  <2>5. QED BY <2>4
<1>6. DOMAIN place = DOMAIN t OBVIOUS
<1>7. ASSUME NEW m \in DOMAIN t, NEW n \in DOMAIN t, m < n PROVE place[m] < place[n]
  <2>1. PICK i \in DOMAIN s, j \in DOMAIN s : i < j /\ t[m] = s[i] /\ t[n] = s[j]
    BY <1>7 DEF InOrder
  <2>2. /\ place[m] \in DOMAIN s /\ place[n] \in DOMAIN s
        /\ s[place[m]] = s[i] /\ s[place[n]] = s[j]
    BY <1>4, <2>1
  <2>3. place[m] = i /\ place[n] = j BY <2>2 DEF Queue!IsInjective
  <2>4. QED BY <2>1, <2>3
<1> HIDE DEF place, at
<1>8. ASSUME NEW m \in DOMAIN t, NEW n \in DOMAIN t, place[m] = place[n] PROVE m = n
  <2>1. place[m] \in Nat /\ place[n] \in Nat /\ m \in Nat /\ n \in Nat
    <3>1. place[m] \in at /\ place[n] \in at BY <1>4
    <3>2. m \in Nat /\ n \in Nat BY <1>1
    <3>3. QED BY <1>3, <3>1, <3>2
  <2>2. ~(place[m] < place[n]) /\ ~(place[n] < place[m]) BY <1>8, <2>1
  <2>3. ~(m < n) /\ ~(n < m) BY <1>7, <2>2
  <2>4. QED BY <2>1, <2>3
<1>9. ASSUME NEW n \in DOMAIN t PROVE Cardinality(Upto(place[n])) = n
  <2> DEFINE first == [m \in 1 .. n |-> place[m]]
  <2>1. n \in Nat /\ 1 .. n \subseteq DOMAIN t BY <1>1
  <2>2. ASSUME NEW m \in 1 .. n PROVE first[m] \in Upto(place[n])
    <3>1. m \in DOMAIN t /\ first[m] = place[m] /\ place[m] \in at BY <2>1, <1>4
    <3>2. place[m] \in Nat /\ place[n] \in Nat BY <1>3, <1>4, <3>1
    <3>3. m = n \/ m < n BY <2>1
    <3>4. place[m] <= place[n] BY <1>7, <3>1, <3>2, <3>3
    <3>5. QED BY <3>1, <3>4
  <2>3. ASSUME NEW i \in Upto(place[n]) PROVE \E m \in 1 .. n : first[m] = i
    <3>1. i \in at /\ i <= place[n] OBVIOUS
    <3>2. PICK m \in DOMAIN t : place[m] = i BY <1>5, <3>1
    <3>3. place[m] \in Nat /\ place[n] \in Nat /\ m \in Nat /\ m >= 1
      <4>1. place[m] \in at /\ place[n] \in at BY <1>4
      <4>2. m \in Nat /\ m >= 1 BY <1>1
      <4>3. QED BY <1>3, <4>1, <4>2
    <3>4. ~(place[n] < place[m]) BY <3>1, <3>2, <3>3
    <3>5. ~(n < m) BY <1>7, <3>4
    <3>6. m \in 1 .. n BY <2>1, <3>3, <3>5
    <3>7. QED BY <3>2, <3>6
  <2>4. first \in [1 .. n -> Upto(place[n])] BY <2>2
  <2>5. Queue!IsInjective(first)
    <3>1. ASSUME NEW a \in 1 .. n, NEW b \in 1 .. n, first[a] = first[b] PROVE a = b
      BY <2>1, <1>8, <3>1
    <3>2. QED BY <3>1 DEF Queue!IsInjective
  <2>6. first \in Bijection(1 .. n, Upto(place[n]))
    BY <2>3, <2>4, <2>5 DEF Bijection, Injection, Surjection, Queue!IsInjective, IsInjective
  <2>7. IsFiniteSet(1 .. n) /\ Cardinality(1 .. n) = n BY <2>1, FirstNumbers
  <2>8. ExistsBijection(1 .. n, Upto(place[n])) BY <2>6 DEF ExistsBijection
  <2>9. QED BY <2>7, <2>8, FS_Bijection
<1>10. C = Len(t)
  <2>1. place \in [DOMAIN t -> at] BY <1>4 DEF place
  <2>2. Queue!IsInjective(place) BY <1>6, <1>8 DEF Queue!IsInjective
  <2>3. place \in Bijection(DOMAIN t, at)
    BY <1>5, <2>1, <2>2 DEF Bijection, Injection, Surjection, Queue!IsInjective, IsInjective
  <2>4. IsFiniteSet(1 .. Len(t)) /\ Cardinality(1 .. Len(t)) = Len(t)
    <3>1. Len(t) \in Nat BY <1>1
    <3>2. QED BY <3>1, FirstNumbers
  <2>5. ExistsBijection(1 .. Len(t), at) BY <1>1, <2>3 DEF ExistsBijection
  <2>6. QED BY <2>4, <2>5, FS_Bijection
<1>11. ASSUME NEW n \in DOMAIN t PROVE s[Queue!Nth(n, at)] = t[n]
  <2>1. place[n] \in at /\ Cardinality(Upto(place[n])) = n BY <1>4, <1>9
  <2>2. Queue!Nth(n, at) \in at /\ Cardinality(Upto(Queue!Nth(n, at))) = n
    BY <2>1, QueueCounts DEF Queue!Nth
  <2>3. /\ ~(Queue!Nth(n, at) < place[n]) /\ ~(place[n] < Queue!Nth(n, at))
    <3>1. \A i, k \in at : i < k => Cardinality(Upto(i)) < Cardinality(Upto(k))
      BY <1>3, PlacesAreCounted
    <3>2. ~(n < n) BY <1>1
    <3>3. QED BY <2>1, <2>2, <3>1, <3>2
  <2>4. Queue!Nth(n, at) = place[n]
    <3>1. Queue!Nth(n, at) \in Nat /\ place[n] \in Nat BY <1>3, <2>1, <2>2
    <3>2. QED BY <2>3, <3>1
  <2>5. QED BY <1>4, <2>4
<1>12. Queue!Kept(s, these) = [n \in 1 .. C |-> s[Queue!Nth(n, at)]] BY QueueCounts DEF Queue!Kept, at
<1>13. t = [n \in 1 .. Len(t) |-> t[n]] BY <1>1
<1>14. QED BY <1>1, <1>10, <1>11, <1>12, <1>13

(* The place of a song in a list.                                           *)
LEMMA PlaceIs ==
  ASSUME NEW s \in Seq(QueueSongs), NEW x
  PROVE  /\ x \in Queue!Range(s) => Queue!Place(s, x) \in 1 .. Len(s) /\ s[Queue!Place(s, x)] = x
         /\ x \notin Queue!Range(s) => Queue!Place(s, x) = 0
         /\ Queue!Place(s, x) # 0 => x \in Queue!Range(s)
<1>1. CASE x \in Queue!Range(s)
  <2>1. \E i \in DOMAIN s : s[i] = x BY <1>1 DEF Queue!Range
  <2>2. Queue!Place(s, x) = CHOOSE i \in DOMAIN s : s[i] = x BY <2>1 DEF Queue!Place
  <2>3. Queue!Place(s, x) \in DOMAIN s /\ s[Queue!Place(s, x)] = x BY <2>1, <2>2
  <2>4. QED BY <1>1, <2>3
<1>2. CASE x \notin Queue!Range(s)
  <2>1. ~(\E i \in DOMAIN s : s[i] = x) BY <1>2 DEF Queue!Range
  <2>2. Queue!Place(s, x) = 0 BY <2>1 DEF Queue!Place
  <2>3. QED BY <1>2, <2>2
<1>3. QED BY <1>1, <1>2

(* A list with each song once has as many songs as places.                  *)
LEMMA LengthIsSize ==
  ASSUME NEW s \in Seq(QueueSongs), Queue!IsInjective(s)
  PROVE  Cardinality(Queue!Range(s)) = Len(s)
<1>1. s \in [1 .. Len(s) -> Queue!Range(s)] /\ DOMAIN s = 1 .. Len(s) /\ Len(s) \in Nat
  BY DEF Queue!Range
<1>2. s \in Bijection(1 .. Len(s), Queue!Range(s))
  BY <1>1 DEF Bijection, Injection, Surjection, Queue!IsInjective, IsInjective, Queue!Range
<1>3. ExistsBijection(1 .. Len(s), Queue!Range(s)) BY <1>2 DEF ExistsBijection
<1>4. IsFiniteSet(1 .. Len(s)) /\ Cardinality(1 .. Len(s)) = Len(s) BY <1>1, FirstNumbers
<1>5. QED BY <1>3, <1>4, FS_Bijection

(* One list behind another, and a part of a list.                           *)
LEMMA Concatenated ==
  ASSUME NEW u \in Seq(QueueSongs), NEW v \in Seq(QueueSongs)
  PROVE  /\ u \o v \in Seq(QueueSongs) /\ Len(u \o v) = Len(u) + Len(v)
         /\ \A n \in 1 .. Len(u) : (u \o v)[n] = u[n]
         /\ \A n \in 1 .. Len(v) : (u \o v)[Len(u) + n] = v[n]
<1>1. u \o v \in Seq(QueueSongs) /\ Len(u \o v) = Len(u) + Len(v) OBVIOUS
<1>2. ASSUME NEW n \in 1 .. Len(u) PROVE (u \o v)[n] = u[n] OBVIOUS
<1>3. ASSUME NEW n \in 1 .. Len(v) PROVE (u \o v)[Len(u) + n] = v[n]
  <2>1. Len(u) \in Nat /\ Len(v) \in Nat OBVIOUS
  <2>2. Len(u) + n \in 1 .. Len(u) + Len(v) /\ ~(Len(u) + n <= Len(u)) /\ Len(u) + n - Len(u) = n
    BY <2>1
  <2>3. QED BY <2>2
<1>4. QED BY <1>1, <1>2, <1>3
LEMMA PartOf ==
  ASSUME NEW s \in Seq(QueueSongs), NEW m \in Int, NEW n \in Int,
         1 <= m, m <= n + 1, n <= Len(s)
  PROVE  /\ SubSeq(s, m, n) \in Seq(QueueSongs) /\ Len(SubSeq(s, m, n)) = n - m + 1
         /\ \A k \in 1 .. n - m + 1 : SubSeq(s, m, n)[k] = s[m + k - 1]
<1>1. \A k \in m .. n : s[k] \in QueueSongs
  <2>1. \A k \in m .. n : k \in 1 .. Len(s) OBVIOUS
  <2>2. QED BY <2>1
<1>2. /\ SubSeq(s, m, n) \in Seq(QueueSongs)
      /\ Len(SubSeq(s, m, n)) = IF m <= n THEN n - m + 1 ELSE 0
      /\ \A k \in 1 .. n - m + 1 : SubSeq(s, m, n)[k] = s[m + k - 1]
  BY <1>1, SubSeqProperties
<1>3. QED BY <1>2

(* A block put between the songs of a list.                                 *)
Inserting(r, b, at) == SubSeq(r, 1, at) \o b \o SubSeq(r, at + 1, Len(r))
LEMMA Inserted ==
  ASSUME NEW r \in Seq(QueueSongs), NEW b \in Seq(QueueSongs), NEW at \in 0 .. Len(r),
         Queue!IsInjective(r), Queue!IsInjective(b), Queue!Range(r) \cap Queue!Range(b) = {},
         NEW next, next = Inserting(r, b, at)
  PROVE  /\ next \in Seq(QueueSongs) /\ Len(next) = Len(r) + Len(b) /\ Queue!IsInjective(next)
         /\ \A n \in 1 .. at : next[n] = r[n]
         /\ \A n \in 1 .. Len(b) : next[at + n] = b[n]
         /\ \A n \in at + 1 .. Len(r) : next[Len(b) + n] = r[n]
         /\ Queue!Range(next) = Queue!Range(r) \cup Queue!Range(b)
         /\ InOrder(r, next) /\ InOrder(b, next)
<1>1. /\ Len(r) \in Nat /\ DOMAIN r = 1 .. Len(r) /\ \A n \in 1 .. Len(r) : r[n] \in QueueSongs
      /\ Len(b) \in Nat /\ DOMAIN b = 1 .. Len(b) /\ \A n \in 1 .. Len(b) : b[n] \in QueueSongs
      /\ at \in Nat /\ at <= Len(r)
  OBVIOUS
<1> DEFINE u == SubSeq(r, 1, at)
           v == SubSeq(r, at + 1, Len(r))
           w == u \o b
<1>2. u \in Seq(QueueSongs) /\ Len(u) = at /\ \A n \in 1 .. at : u[n] = r[n]
  <2>1. /\ u \in Seq(QueueSongs) /\ Len(u) = at - 1 + 1
        /\ \A n \in 1 .. at - 1 + 1 : u[n] = r[1 + n - 1]
    BY <1>1, PartOf
  <2>2. at - 1 + 1 = at /\ \A n \in 1 .. at : 1 + n - 1 = n BY <1>1
  <2>3. QED BY <2>1, <2>2
<1>3. v \in Seq(QueueSongs) /\ Len(v) = Len(r) - at /\ \A n \in 1 .. Len(r) - at : v[n] = r[at + n]
  <2>1. at + 1 \in Int /\ Len(r) \in Int /\ 1 <= at + 1 /\ at + 1 <= Len(r) + 1 /\ Len(r) <= Len(r)
    BY <1>1
  <2>3. /\ v \in Seq(QueueSongs) /\ Len(v) = Len(r) - (at + 1) + 1
        /\ \A n \in 1 .. Len(r) - (at + 1) + 1 : v[n] = r[at + 1 + n - 1]
    BY <2>1, PartOf
  <2>2. Len(r) - (at + 1) + 1 = Len(r) - at /\ \A n \in Nat : at + 1 + n - 1 = at + n BY <1>1
  <2>4. ASSUME NEW n \in 1 .. Len(r) - at PROVE v[n] = r[at + n]
    <3>1. n \in Nat /\ n \in 1 .. Len(r) - (at + 1) + 1 BY <1>1, <2>2
    <3>2. QED BY <2>2, <2>3, <3>1
  <2>5. QED BY <2>2, <2>3, <2>4
<1> HIDE DEF u, v
<1>4. /\ w \in Seq(QueueSongs) /\ Len(w) = at + Len(b)
      /\ \A n \in 1 .. at : w[n] = r[n]
      /\ \A n \in 1 .. Len(b) : w[at + n] = b[n]
  <2>1. /\ w \in Seq(QueueSongs) /\ Len(w) = Len(u) + Len(b)
        /\ \A n \in 1 .. Len(u) : w[n] = u[n]
        /\ \A n \in 1 .. Len(b) : w[Len(u) + n] = b[n]
    BY <1>2, Concatenated
  <2>2. QED BY <1>2, <2>1
<1> HIDE DEF w
<1>5. next = w \o v BY DEF Inserting, u, v, w
<1>6. /\ next \in Seq(QueueSongs) /\ Len(next) = Len(r) + Len(b)
      /\ \A n \in 1 .. at : next[n] = r[n]
      /\ \A n \in 1 .. Len(b) : next[at + n] = b[n]
      /\ \A n \in 1 .. Len(r) - at : next[at + Len(b) + n] = v[n]
  <2>1. /\ next \in Seq(QueueSongs) /\ Len(next) = Len(w) + Len(v)
        /\ \A n \in 1 .. Len(w) : next[n] = w[n]
        /\ \A n \in 1 .. Len(v) : next[Len(w) + n] = v[n]
    <3>1. w \in Seq(QueueSongs) /\ v \in Seq(QueueSongs) BY <1>3, <1>4
    <3>2. /\ w \o v \in Seq(QueueSongs) /\ Len(w \o v) = Len(w) + Len(v)
          /\ \A n \in 1 .. Len(w) : (w \o v)[n] = w[n]
          /\ \A n \in 1 .. Len(v) : (w \o v)[Len(w) + n] = v[n]
      BY <3>1, Concatenated
    <3>3. QED BY <1>5, <3>2
  <2>2. at + Len(b) + (Len(r) - at) = Len(r) + Len(b) BY <1>1
  <2>3. \A n \in 1 .. at : n \in 1 .. at + Len(b) BY <1>1
  <2>4. \A n \in 1 .. Len(b) : at + n \in 1 .. at + Len(b) BY <1>1
  <2>5. QED BY <1>3, <1>4, <2>1, <2>2, <2>3, <2>4
<1>7. ASSUME NEW n \in at + 1 .. Len(r) PROVE next[Len(b) + n] = r[n]
  <2>1. n - at \in 1 .. Len(r) - at /\ at + Len(b) + (n - at) = Len(b) + n /\ at + (n - at) = n
    BY <1>1
  <2>2. next[at + Len(b) + (n - at)] = v[n - at] BY <1>6, <2>1
  <2>3. v[n - at] = r[at + (n - at)] BY <1>3, <2>1
  <2>4. QED BY <2>1, <2>2, <2>3
(* Where the songs of r are now, and that there are no others.              *)
<1> DEFINE At(n) == IF n <= at THEN n ELSE Len(b) + n
<1>8. DOMAIN next = 1 .. Len(r) + Len(b)
  <2>1. next \in Seq(QueueSongs) /\ Len(next) = Len(r) + Len(b) BY <1>6
  <2>2. QED BY <2>1
<1>9. ASSUME NEW n \in 1 .. Len(r) PROVE At(n) \in DOMAIN next /\ next[At(n)] = r[n]
  <2>1. CASE n <= at
    <3>1. n \in 1 .. at /\ n \in 1 .. Len(r) + Len(b) BY <1>1, <2>1
    <3>2. QED BY <1>6, <1>8, <2>1, <3>1
  <2>2. CASE ~(n <= at)
    <3>1. n \in at + 1 .. Len(r) /\ Len(b) + n \in 1 .. Len(r) + Len(b) BY <1>1, <2>2
    <3>2. QED BY <1>7, <1>8, <2>2, <3>1
  <2>3. QED BY <2>1, <2>2
<1>10. ASSUME NEW n \in 1 .. Len(b) PROVE at + n \in DOMAIN next /\ next[at + n] = b[n]
  <2>1. at + n \in 1 .. Len(r) + Len(b) BY <1>1
  <2>2. QED BY <1>6, <1>8, <2>1
<1>11. ASSUME NEW k \in DOMAIN next
       PROVE  (\E n \in 1 .. Len(r) : k = At(n)) \/ (\E n \in 1 .. Len(b) : k = at + n)
  <2>1. k \in 1 .. Len(r) + Len(b) BY <1>8
  <2>2. CASE k <= at
    <3>1. k \in 1 .. Len(r) /\ k = At(k) BY <1>1, <2>1, <2>2
    <3>2. QED BY <3>1
  <2>3. CASE at < k /\ k <= at + Len(b)
    <3>1. k - at \in 1 .. Len(b) /\ k = at + (k - at) BY <1>1, <2>1, <2>3
    <3>2. QED BY <3>1
  <2>4. CASE at + Len(b) < k
    <3>1. k - Len(b) \in 1 .. Len(r) /\ k = At(k - Len(b)) BY <1>1, <2>1, <2>4
    <3>2. QED BY <3>1
  <2>5. QED BY <1>1, <2>1, <2>2, <2>3, <2>4
<1>12. \A m, n \in 1 .. Len(r) : m < n => At(m) < At(n) BY <1>1
<1> HIDE DEF At
<1>13. InOrder(r, next)
  BY <1>1, <1>9, <1>12 DEF InOrder
<1>14. InOrder(b, next)
  <2>1. \A m, n \in 1 .. Len(b) : m < n => at + m < at + n BY <1>1
  <2>2. QED BY <1>1, <1>10, <2>1 DEF InOrder
<1>15. Queue!Range(next) = Queue!Range(r) \cup Queue!Range(b)
  <2>1. ASSUME NEW k \in DOMAIN next PROVE next[k] \in Queue!Range(r) \cup Queue!Range(b)
    BY <1>1, <1>9, <1>10, <1>11 DEF Queue!Range
  <2>2. ASSUME NEW n \in 1 .. Len(r) PROVE r[n] \in Queue!Range(next)
    BY <1>9 DEF Queue!Range
  <2>3. ASSUME NEW n \in 1 .. Len(b) PROVE b[n] \in Queue!Range(next)
    BY <1>10 DEF Queue!Range
  <2>4. Queue!Range(r) \subseteq Queue!Range(next) BY <1>1, <2>2 DEF Queue!Range
  <2>5. Queue!Range(b) \subseteq Queue!Range(next) BY <1>1, <2>3 DEF Queue!Range
  <2>6. Queue!Range(next) \subseteq Queue!Range(r) \cup Queue!Range(b) BY <2>1 DEF Queue!Range
  <2>7. QED BY <2>4, <2>5, <2>6
<1>16. Queue!IsInjective(next)
  <2>1. ASSUME NEW n \in 1 .. Len(r), NEW m \in 1 .. Len(b) PROVE r[n] # b[m]
    BY <1>1 DEF Queue!Range
  <2>2. ASSUME NEW k \in DOMAIN next, NEW l \in DOMAIN next, next[k] = next[l] PROVE k = l
    <3>1. CASE (\E n \in 1 .. Len(r) : k = At(n)) /\ (\E n \in 1 .. Len(r) : l = At(n))
      <4>1. PICK m \in 1 .. Len(r), n \in 1 .. Len(r) : k = At(m) /\ l = At(n) BY <3>1
      <4>2. r[m] = r[n] BY <1>9, <2>2, <4>1
      <4>3. m = n BY <1>1, <4>2 DEF Queue!IsInjective
      <4>4. QED BY <4>1, <4>3
    <3>2. CASE (\E n \in 1 .. Len(b) : k = at + n) /\ (\E n \in 1 .. Len(b) : l = at + n)
      <4>1. PICK m \in 1 .. Len(b), n \in 1 .. Len(b) : k = at + m /\ l = at + n BY <3>2
      <4>2. b[m] = b[n] BY <1>10, <2>2, <4>1
      <4>3. m = n BY <1>1, <4>2 DEF Queue!IsInjective
      <4>4. QED BY <4>1, <4>3
    <3>3. ASSUME NEW n \in 1 .. Len(r), NEW m \in 1 .. Len(b) PROVE next[At(n)] # next[at + m]
      BY <1>9, <1>10, <2>1
    <3>4. CASE (\E n \in 1 .. Len(r) : k = At(n)) /\ (\E n \in 1 .. Len(b) : l = at + n)
      BY <2>2, <3>3, <3>4
    <3>5. CASE (\E n \in 1 .. Len(b) : k = at + n) /\ (\E n \in 1 .. Len(r) : l = At(n))
      BY <2>2, <3>3, <3>5
    <3>6. QED BY <1>11, <3>1, <3>2, <3>4, <3>5
  <2>3. QED BY <2>2 DEF Queue!IsInjective
<1>17. QED BY <1>6, <1>7, <1>13, <1>14, <1>15, <1>16

(* A drop: the same songs, each once; the block in its old order next to    *)
(* the target, and the others in their old order.                           *)
IsDrop(next, s, d, moved) ==
  /\ next \in Seq(QueueSongs) /\ Queue!IsInjective(next) /\ Queue!Range(next) = Queue!Range(s)
  /\ Queue!Kept(next, moved) = Queue!Kept(s, moved)
  /\ Queue!Kept(next, QueueSongs \ moved) = Queue!Kept(s, QueueSongs \ moved)
  /\ next # s => \E i \in DOMAIN next :
       /\ SubSeq(next, i, i + Cardinality(moved) - 1) = Queue!Kept(s, moved)
       /\ d.target = next[IF d.after THEN i - 1 ELSE i + Cardinality(moved)]

LEMMA ReorderedIs ==
  ASSUME NEW s \in Seq(QueueSongs), Queue!IsInjective(s), NEW sel,
         NEW d, d.anchor \in Queue!Range(s), d.target \in Queue!Range(s) \cup {None},
         NEW next, next = Queue!Reordered(s, sel, d),
         NEW moved, moved = Queue!Block(s, sel, d.anchor)
  PROVE  IsDrop(next, s, d, moved)
<1> DEFINE rest == Queue!Kept(s, QueueSongs \ moved)
           block == Queue!Kept(s, moved)
           at == Queue!Place(rest, d.target) - (IF d.after THEN 0 ELSE 1)
<1>1. d.anchor \in moved /\ moved \subseteq Queue!Range(s) BY DEF Queue!Block
<1>2. /\ rest \in Seq(QueueSongs) /\ Queue!IsInjective(rest) /\ Queue!Range(rest) = Queue!Range(s) \cap (QueueSongs \ moved)
      /\ block \in Seq(QueueSongs) /\ Queue!IsInjective(block) /\ Queue!Range(block) = Queue!Range(s) \cap moved
      /\ InOrder(rest, s) /\ InOrder(block, s)
  BY KeptIs
<1> HIDE DEF rest, block
<1>3. Queue!Range(s) \subseteq QueueSongs BY DEF Queue!Range
<1>4. Queue!Range(block) = moved /\ Cardinality(moved) = Len(block) /\ Len(block) \in Nat \ {0}
  <2>1. Queue!Range(block) = moved BY <1>1, <1>2
  <2>2. Cardinality(moved) = Len(block) BY <1>2, <2>1, LengthIsSize
  <2>3. DOMAIN block = 1 .. Len(block) /\ Len(block) \in Nat BY <1>2
  <2>4. Len(block) # 0 BY <1>1, <2>1, <2>3 DEF Queue!Range
  <2>5. QED BY <2>1, <2>2, <2>3, <2>4
<1>5. CASE next = s BY <1>5 DEF IsDrop
<1>6. CASE next # s
  <2>1. Queue!Place(rest, d.target) # 0 /\ next = SubSeq(rest, 1, at) \o block \o SubSeq(rest, at + 1, Len(rest))
    BY <1>6 DEF Queue!Reordered, rest, block
  <2>2. Queue!Place(rest, d.target) \in 1 .. Len(rest) /\ rest[Queue!Place(rest, d.target)] = d.target
    BY <1>2, <2>1, PlaceIs
  <2>3. Len(rest) \in Nat /\ at \in 0 .. Len(rest) BY <1>2, <2>2
  <2>4. Queue!Range(rest) \cap Queue!Range(block) = {} BY <1>2
  <2>5. /\ next \in Seq(QueueSongs) /\ Len(next) = Len(rest) + Len(block) /\ Queue!IsInjective(next)
        /\ \A n \in 1 .. at : next[n] = rest[n]
        /\ \A n \in 1 .. Len(block) : next[at + n] = block[n]
        /\ \A n \in at + 1 .. Len(rest) : next[Len(block) + n] = rest[n]
        /\ Queue!Range(next) = Queue!Range(rest) \cup Queue!Range(block)
        /\ InOrder(rest, next) /\ InOrder(block, next)
    <3> HIDE DEF at
    <3>1. next = Inserting(rest, block, at) BY <2>1 DEF Inserting
    <3>2. QED BY <1>2, <2>3, <2>4, <3>1, Inserted
  <2>6. Queue!Range(next) = Queue!Range(s) BY <1>2, <1>3, <2>5
  <2>7. Queue!Kept(next, moved) = block
    <3>1. Queue!Range(block) = Queue!Range(next) \cap moved BY <1>2, <2>6
    <3>2. QED BY <1>2, <2>5, <3>1, KeptIsOnly
  <2>8. Queue!Kept(next, QueueSongs \ moved) = rest
    <3>1. Queue!Range(rest) = Queue!Range(next) \cap (QueueSongs \ moved) BY <1>2, <2>6
    <3>2. QED BY <1>2, <2>5, <3>1, KeptIsOnly
  <2> DEFINE i == at + 1
             C == Cardinality(moved)
  <2>9. DOMAIN next = 1 .. Len(rest) + Len(block) BY <2>5
  <2>10. i \in DOMAIN next BY <1>4, <2>3, <2>9
  <2>11. SubSeq(next, i, i + C - 1) = block
    <3> DEFINE part == SubSeq(next, i, i + C - 1)
    <3>1. /\ i \in Int /\ i + C - 1 \in Int /\ C = Len(block) /\ C \in Nat
          /\ \A k \in i .. i + C - 1 : k \in DOMAIN next
      BY <1>4, <2>3, <2>9
    <3> HIDE DEF i, C, at
    <3>2. /\ part \in Seq(QueueSongs) /\ Len(part) = C
          /\ \A k \in 1 .. C : part[k] = next[i + k - 1]
      BY <2>5, <3>1
    <3> HIDE DEF part
    <3>3. ASSUME NEW k \in 1 .. C PROVE part[k] = block[k]
      <4>1. at \in Int /\ i + k - 1 = at + k BY <2>3, <3>1 DEF i
      <4>2. QED BY <2>5, <3>1, <3>2, <4>1
    <3>4. QED BY <1>2, <3>1, <3>2, <3>3
  <2>12. d.target = next[IF d.after THEN i - 1 ELSE i + C]
    <3>1. CASE d.after
      <4>1. at = Queue!Place(rest, d.target) /\ i - 1 = at /\ at \in 1 .. at
        BY <2>2, <2>3, <3>1
      <4>2. next[at] = rest[at] BY <2>5, <4>1
      <4>3. QED BY <2>2, <3>1, <4>1, <4>2
    <3>2. CASE ~d.after
      <4>1. i = Queue!Place(rest, d.target) /\ i \in at + 1 .. Len(rest) /\ i + C = Len(block) + i
        BY <1>4, <2>2, <2>3, <3>2
      <4>2. next[Len(block) + i] = rest[i] BY <2>5, <4>1
      <4>3. QED BY <2>2, <3>2, <4>1, <4>2
    <3>3. QED BY <3>1, <3>2
  <2>13. QED
    <3> HIDE DEF i, C
    <3>1. QED BY <2>5, <2>6, <2>7, <2>8, <2>10, <2>11, <2>12 DEF block, rest, C, IsDrop
<1>7. QED BY <1>5, <1>6

(* The invariant in three parts: the list and the song that is heard, the   *)
(* screen, and the drag.                                                    *)
Heard ==
  /\ v1 \in Seq(QueueSongs) /\ Queue!IsInjective(v1) /\ v2 \in 0 .. Len(v1)
  /\ v3 \in QueueSongs \cup {None} /\ v3 = Queue!CurrentSong
ScreenFits ==
  /\ Queue!ScreenUnlessDirty
  /\ v4 \subseteq QueueSongs /\ v9 \subseteq QueueSongs
  /\ v6 \in BOOLEAN /\ v8 \in BOOLEAN /\ v10 \in BOOLEAN
DragFits ==
  /\ v5 \in [anchor : QueueSongs, target : QueueSongs \cup {None}, after : BOOLEAN, active : BOOLEAN]
            \cup {None}
  /\ Queue!DragIsInList

LEMMA QueueIsParts ==
  /\ Queue!IInv => Heard /\ ScreenFits /\ DragFits
  /\ Heard' /\ ScreenFits' /\ DragFits' => Queue!IInv'
  BY DEF Queue!IInv, Queue!TypeOK, Queue!CurrentIsPlaying, Heard, ScreenFits, DragFits

(* Whoever plays a row, or nothing, leaves the row and the song together.   *)
LEMMA PlayIsHeard ==
  ASSUME v1' \in Seq(QueueSongs), Queue!IsInjective(v1'), NEW i \in 1 .. Len(v1'), Queue!Play(i)
  PROVE  Heard'
<1>1. v2' = i /\ v3' = v1'[i] BY DEF Queue!Play
<1>2. i # 0 /\ i \in 0 .. Len(v1)' /\ v1'[i] \in QueueSongs OBVIOUS
<1>3. QED BY <1>1, <1>2 DEF Heard, Queue!CurrentSong
LEMMA ClearIsHeard ==
  ASSUME v1' \in Seq(QueueSongs), Queue!IsInjective(v1'), Queue!ClearCurrent
  PROVE  Heard'
<1>1. v2' = 0 /\ v3' = None BY DEF Queue!ClearCurrent
<1>2. 0 \in 0 .. Len(v1)' OBVIOUS
<1>3. QED BY <1>1, <1>2 DEF Heard, Queue!CurrentSong

(* Whoever looks the current song up in the new list keeps it.              *)
LEMMA LookedUpIsHeard ==
  ASSUME Heard, v1' \in Seq(QueueSongs), Queue!IsInjective(v1'),
         v2' = Queue!NewPosition(v1'), v3' = v3,
         v2 = 0 \/ Queue!CurrentSong \in Queue!Range(v1')
  PROVE  Heard'
<1>1. CASE v2 = 0
  <2>1. v2' = 0 /\ v3' = None BY <1>1 DEF Queue!NewPosition, Heard, Queue!CurrentSong
  <2>2. 0 \in 0 .. Len(v1)' OBVIOUS
  <2>3. None \in QueueSongs \cup {None} OBVIOUS
  <2>4. QED BY <2>1, <2>2, <2>3 DEF Heard, Queue!CurrentSong
<1>2. CASE v2 # 0
  <2>1. v2' = Queue!Place(v1', Queue!CurrentSong) BY <1>2 DEF Queue!NewPosition
  <2>2. v2' \in 1 .. Len(v1') /\ v1'[v2'] = Queue!CurrentSong
    BY <1>2, <2>1, PlaceIs
  <2>3. v2' # 0 /\ v2' \in 0 .. Len(v1') BY <2>2
  <2>4. v3' = v1'[v2'] /\ v3' \in QueueSongs \cup {None} BY <2>2 DEF Heard
  <2>5. QED BY <2>3, <2>4 DEF Heard, Queue!CurrentSong
<1>3. QED BY <1>1, <1>2

(* Painting, or leaving it until the pane is visible.                       *)
LEMMA RenderedFits ==
  ASSUME ScreenFits, v6' = v6, v4' \subseteq QueueSongs, Queue!RenderPlaylist
  PROVE  ScreenFits'
<1>1. CASE v6
  <2>1. v7' = Queue!Rows(v1', v2') /\ v9' = v4'
        /\ v8' = FALSE /\ v10' = FALSE
    BY <1>1 DEF Queue!RenderPlaylist
  <2>2. v7'.songs = v1' BY <2>1 DEF Queue!Rows
  <2>3. QED BY <2>1, <2>2 DEF ScreenFits, Queue!ScreenUnlessDirty
<1>2. CASE ~v6
  <2>1. v8' = TRUE /\ UNCHANGED <<v7, v9, v10>>
    BY <1>2 DEF Queue!RenderPlaylist
  <2>2. QED BY <1>2, <2>1 DEF ScreenFits, Queue!ScreenUnlessDirty
<1>3. QED BY <1>1, <1>2
LEMMA SelectionFits ==
  ASSUME ScreenFits, v6' = v6, v1' = v1, v4' \subseteq QueueSongs, Queue!RenderSelection
  PROVE  ScreenFits'
<1>1. CASE v6
  <2>1. v9' = v4' /\ v10' = FALSE /\ UNCHANGED <<v7, v8>>
    BY <1>1 DEF Queue!RenderSelection
  <2>2. QED BY <2>1 DEF ScreenFits, Queue!ScreenUnlessDirty
<1>2. CASE ~v6
  <2>1. v10' = TRUE /\ UNCHANGED <<v7, v9, v8>>
    BY <1>2 DEF Queue!RenderSelection
  <2>2. QED BY <1>2, <2>1 DEF ScreenFits, Queue!ScreenUnlessDirty
<1>3. QED BY <1>1, <1>2

(* Songs added behind the others: those stay where they are.                *)
LEMMA AddedIs ==
  ASSUME NEW s \in Seq(QueueSongs), Queue!IsInjective(s), NEW more \in Seq(QueueSongs), Queue!IsInjective(more),
         NEW next, next = Queue!Added(s, more)
  PROVE  /\ next \in Seq(QueueSongs) /\ Queue!IsInjective(next) /\ Len(s) <= Len(next)
         /\ \A i \in 1 .. Len(s) : next[i] = s[i]
         /\ Queue!Range(more) \subseteq Queue!Range(next)
<1> DEFINE b == Queue!Kept(more, QueueSongs \ Queue!Range(s))
<1>1. b \in Seq(QueueSongs) /\ Queue!IsInjective(b) /\ Queue!Range(b) = Queue!Range(more) \cap (QueueSongs \ Queue!Range(s))
  BY KeptIs
<1>2. next = s \o b BY DEF Queue!Added
<1> HIDE DEF b
<1>3. /\ next \in Seq(QueueSongs) /\ Len(next) = Len(s) + Len(b)
      /\ \A n \in 1 .. Len(s) : next[n] = s[n]
      /\ \A n \in 1 .. Len(b) : next[Len(s) + n] = b[n]
  BY <1>1, <1>2, Concatenated
<1>4. /\ Len(s) \in Nat /\ DOMAIN s = 1 .. Len(s)
      /\ Len(b) \in Nat /\ DOMAIN b = 1 .. Len(b)
      /\ DOMAIN next = 1 .. Len(next)
  BY <1>1, <1>3
<1>5. ASSUME NEW k \in DOMAIN next
      PROVE  (k \in DOMAIN s /\ next[k] = s[k]) \/ (\E n \in DOMAIN b : k = Len(s) + n /\ next[k] = b[n])
  <2>1. CASE k <= Len(s)
    <3>1. k \in 1 .. Len(s) BY <1>3, <1>4, <2>1
    <3>2. QED BY <1>3, <1>4, <3>1
  <2>2. CASE ~(k <= Len(s))
    <3>1. k - Len(s) \in 1 .. Len(b) /\ k = Len(s) + (k - Len(s)) BY <1>3, <1>4, <2>2
    <3>2. QED BY <1>3, <1>4, <3>1
  <2>3. QED BY <2>1, <2>2
<1>6. \A i \in DOMAIN s, n \in DOMAIN b : s[i] # b[n] BY <1>1 DEF Queue!Range
<1>7. ASSUME NEW k \in DOMAIN next, NEW l \in DOMAIN next, next[k] = next[l] PROVE k = l
  <2>1. CASE k \in DOMAIN s /\ next[k] = s[k] /\ l \in DOMAIN s /\ next[l] = s[l]
    BY <1>7, <2>1 DEF Queue!IsInjective
  <2>2. ASSUME NEW m \in DOMAIN b, k = Len(s) + m /\ next[k] = b[m],
               NEW n \in DOMAIN b, l = Len(s) + n /\ next[l] = b[n]
        PROVE  k = l
    BY <1>1, <1>7, <2>2 DEF Queue!IsInjective
  <2>3. QED BY <1>5, <1>6, <1>7, <2>1, <2>2
<1>8. Queue!IsInjective(next) BY <1>7 DEF Queue!IsInjective
<1>9. ASSUME NEW x \in Queue!Range(more) PROVE x \in Queue!Range(next)
  <2>1. CASE x \in Queue!Range(s)
    <3>1. PICK i \in DOMAIN s : x = s[i] BY <2>1 DEF Queue!Range
    <3>2. i \in DOMAIN next /\ next[i] = x BY <1>3, <1>4, <3>1
    <3>3. QED BY <3>2 DEF Queue!Range
  <2>2. CASE x \notin Queue!Range(s)
    <3>1. x \in QueueSongs BY DEF Queue!Range
    <3>2. x \in Queue!Range(b) BY <1>1, <2>2, <3>1
    <3>3. PICK n \in DOMAIN b : x = b[n] BY <3>2 DEF Queue!Range
    <3>4. Len(s) + n \in DOMAIN next /\ next[Len(s) + n] = x BY <1>3, <1>4, <3>3
    <3>5. QED BY <3>4 DEF Queue!Range
  <2>3. QED BY <2>1, <2>2
<1>10. QED BY <1>3, <1>4, <1>8, <1>9

LEMMA QueueInit == Queue!Init => Queue!IInv
<1> SUFFICES ASSUME Queue!Init PROVE Queue!IInv OBVIOUS
<1>1. v1 = <<>> /\ v2 = 0 /\ v3 = None BY DEF Queue!Init
<1>2. <<>> \in Seq(QueueSongs) /\ Queue!IsInjective(<<>>) /\ 0 \in 0 .. Len(<<>>)
  BY DEF Queue!IsInjective
<1>3. Heard BY <1>1, <1>2 DEF Heard, Queue!CurrentSong
<1>4. ScreenFits BY DEF Queue!Init, ScreenFits, Queue!ScreenUnlessDirty, Queue!Rows
<1>5. DragFits BY DEF Queue!Init, DragFits, Queue!DragIsInList
<1>6. QED
  BY <1>3, <1>4, <1>5
  DEF Queue!IInv, Queue!TypeOK, Queue!CurrentIsPlaying, Heard, ScreenFits, DragFits

LEMMA ListsAre == \A list \in Queue!Lists : list \in Seq(QueueSongs) /\ Queue!IsInjective(list)
<1> TAKE list \in Queue!Lists
<1>1. PICK n \in 0 .. 3 : list \in [1 .. n -> QueueSongs] BY DEF Queue!Lists
<1>2. n \in Nat BY <1>1
<1>3. Queue!IsInjective(list) BY DEF Queue!Lists
<1>4. QED BY <1>1, <1>2, <1>3

(* No pointer drags while a handler of the pane runs.                       *)
LEMMA NoDrag == ASSUME v5 = None, v5' = v5 PROVE DragFits'
  BY DEF DragFits, Queue!DragIsInList

LEMMA AddSongsKeeps ==
  ASSUME Queue!IInv, v5 = None, NEW list \in Queue!Lists, Queue!AddSongs(list)
  PROVE  Queue!IInv'
<1>1. Heard /\ ScreenFits BY QueueIsParts
<1>2. list \in Seq(QueueSongs) /\ Queue!IsInjective(list) BY ListsAre
<1>3. /\ v1' = Queue!Added(v1, list) /\ v2' = v2 /\ v3' = v3
      /\ v4' = v4 /\ v5' = v5 /\ v6' = v6 /\ Queue!RenderPlaylist
  BY DEF Queue!AddSongs
<1>4. /\ v1' \in Seq(QueueSongs) /\ Queue!IsInjective(v1') /\ Len(v1) <= Len(v1')
      /\ \A i \in 1 .. Len(v1) : v1'[i] = v1[i]
  BY <1>1, <1>2, <1>3, AddedIs DEF Heard
<1>5. Heard'
  <2>1. v2 \in 0 .. Len(v1') BY <1>1, <1>4 DEF Heard
  <2>2. v2 # 0 => v1'[v2] = v1[v2] BY <1>1, <1>4 DEF Heard
  <2>3. QED BY <1>1, <1>3, <1>4, <2>1, <2>2 DEF Heard, Queue!CurrentSong
<1>6. ScreenFits'
  <2>1. v4' \subseteq QueueSongs BY <1>1, <1>3 DEF ScreenFits
  <2>2. QED BY <1>1, <1>3, <2>1, RenderedFits
<1>7. QED BY <1>3, <1>5, <1>6, NoDrag, QueueIsParts

LEMMA AddAndPlayKeeps ==
  ASSUME Queue!IInv, v5 = None, NEW song \in QueueSongs, Queue!AddAndPlay(song)
  PROVE  Queue!IInv'
<1>1. Heard /\ ScreenFits BY QueueIsParts
<1>2. <<song>> \in Seq(QueueSongs) /\ Queue!IsInjective(<<song>>) /\ song \in Queue!Range(<<song>>)
  BY DEF Queue!IsInjective, Queue!Range
<1>3. /\ v1' = Queue!Added(v1, <<song>>) /\ v4' = {song}
      /\ Queue!Play(Queue!Place(v1', song)) /\ v5' = v5 /\ v6' = v6 /\ Queue!RenderPlaylist
  BY DEF Queue!AddAndPlay
<1>4. v1' \in Seq(QueueSongs) /\ Queue!IsInjective(v1') /\ song \in Queue!Range(v1')
  BY <1>1, <1>2, <1>3, AddedIs DEF Heard
<1>5. Queue!Place(v1', song) \in 1 .. Len(v1') BY <1>4, PlaceIs
<1>6. Heard' BY <1>3, <1>4, <1>5, PlayIsHeard
<1>7. ScreenFits' BY <1>1, <1>3, RenderedFits
<1>8. QED BY <1>3, <1>6, <1>7, NoDrag, QueueIsParts

LEMMA LoadByNameKeeps ==
  ASSUME Queue!IInv, v5 = None, NEW list \in Queue!Lists, Queue!LoadByName(list)
  PROVE  Queue!IInv'
<1>1. Heard /\ ScreenFits BY QueueIsParts
<1>2. list \in Seq(QueueSongs) /\ Queue!IsInjective(list) BY ListsAre
<1>3. /\ v1' = list /\ v4' = {} /\ v5' = v5 /\ v6' = v6 /\ Queue!RenderPlaylist
      /\ \/ Queue!NewPosition(list) # 0 /\ v2' = Queue!NewPosition(list) /\ v3' = v3
         \/ Queue!ClearCurrent
  BY DEF Queue!LoadByName
<1>4. CASE Queue!ClearCurrent
  BY <1>1, <1>2, <1>3, <1>4, ClearIsHeard, RenderedFits, NoDrag, QueueIsParts
<1>5. CASE Queue!NewPosition(list) # 0 /\ v2' = Queue!NewPosition(list) /\ v3' = v3
  <2>1. v2 = 0 \/ Queue!Place(list, Queue!CurrentSong) # 0 BY <1>5 DEF Queue!NewPosition
  <2>2. v2 = 0 \/ Queue!CurrentSong \in Queue!Range(v1') BY <1>2, <1>3, <2>1, PlaceIs
  <2>3. Heard' BY <1>1, <1>2, <1>3, <1>5, <2>2, LookedUpIsHeard
  <2>4. QED BY <1>1, <1>3, <2>3, RenderedFits, NoDrag, QueueIsParts
<1>6. QED BY <1>3, <1>4, <1>5

LEMMA LoadRecentKeeps ==
  ASSUME Queue!IInv, v5 = None, NEW list \in Queue!Lists, NEW song \in QueueSongs, Queue!LoadRecent(list, song)
  PROVE  Queue!IInv'
<1>1. Heard /\ ScreenFits BY QueueIsParts
<1>2. list \in Seq(QueueSongs) /\ Queue!IsInjective(list) BY ListsAre
<1>3. /\ v1' = list /\ v4' = {} /\ v5' = v5 /\ v6' = v6 /\ Queue!RenderPlaylist
      /\ \/ Queue!Place(list, song) # 0 /\ Queue!Play(Queue!Place(list, song))
         \/ Queue!ClearCurrent
  BY DEF Queue!LoadRecent
<1>4. CASE Queue!ClearCurrent
  BY <1>1, <1>2, <1>3, <1>4, ClearIsHeard, RenderedFits, NoDrag, QueueIsParts
<1>5. CASE Queue!Place(list, song) # 0 /\ Queue!Play(Queue!Place(list, song))
  <2>1. Queue!Place(list, song) \in 1 .. Len(v1') BY <1>2, <1>3, <1>5, PlaceIs
  <2>2. Heard' BY <1>2, <1>3, <1>5, <2>1, PlayIsHeard
  <2>3. QED BY <1>1, <1>3, <2>2, RenderedFits, NoDrag, QueueIsParts
<1>6. QED BY <1>3, <1>4, <1>5

(* A row is played, by the user or because its turn has come.               *)
LEMMA PlayRowKeeps ==
  ASSUME Queue!IInv, NEW i \in DOMAIN v1, Queue!Play(i), Queue!RenderPlaylist,
         UNCHANGED <<v1, v4, v5, v6>>
  PROVE  Queue!IInv'
<1>1. Heard /\ ScreenFits /\ DragFits BY QueueIsParts
<1>2. v1' \in Seq(QueueSongs) /\ Queue!IsInjective(v1') /\ i \in 1 .. Len(v1')
  BY <1>1 DEF Heard
<1>3. Heard' BY <1>2, PlayIsHeard
<1>4. ScreenFits'
  <2>1. v4' \subseteq QueueSongs BY <1>1 DEF ScreenFits
  <2>2. QED BY <1>1, <2>1, RenderedFits
<1>5. DragFits' BY <1>1 DEF DragFits, Queue!DragIsInList
<1>6. QED BY <1>3, <1>4, <1>5, QueueIsParts

LEMMA EndedKeeps == ASSUME Queue!IInv, Queue!Ended PROVE Queue!IInv'
<1>1. UNCHANGED <<v1, v4, v5, v6>> BY DEF Queue!Ended
<1>2. CASE \E i \in DOMAIN v1 : Queue!Play(i) /\ Queue!RenderPlaylist
  BY <1>1, <1>2, PlayRowKeeps
<1>3. CASE Queue!ClearCurrent /\ UNCHANGED Queue!screen
  <2>1. Heard /\ ScreenFits /\ DragFits BY QueueIsParts
  <2>2. Heard' BY <1>1, <1>3, <2>1, ClearIsHeard DEF Heard
  <2>3. ScreenFits' BY <1>1, <1>3, <2>1 DEF ScreenFits, Queue!ScreenUnlessDirty, Queue!screen
  <2>4. DragFits' BY <1>1, <2>1 DEF DragFits, Queue!DragIsInList
  <2>5. QED BY <2>2, <2>3, <2>4, QueueIsParts
<1>4. QED BY <1>2, <1>3 DEF Queue!Ended

(* Another selection, with or without a drag that begins.                   *)
LEMMA SelectionKeeps ==
  ASSUME Queue!IInv, UNCHANGED <<v1, v2, v3, v6>>, v4' \subseteq QueueSongs,
         Queue!RenderSelection, DragFits'
  PROVE  Queue!IInv'
<1>1. Heard /\ ScreenFits BY QueueIsParts
<1>2. Heard' BY <1>1 DEF Heard, Queue!CurrentSong
<1>3. ScreenFits' BY <1>1, SelectionFits
<1>4. QED BY <1>2, <1>3, QueueIsParts

LEMMA QueueSelectKeeps == ASSUME Queue!IInv, NEW s \in SUBSET QueueSongs, Queue!Select(s) PROVE Queue!IInv'
<1>1. UNCHANGED <<v1, v2, v3, v5, v6>> /\ v4' = s /\ Queue!RenderSelection
  BY DEF Queue!Select
<1>2. DragFits' BY <1>1, QueueIsParts DEF DragFits, Queue!DragIsInList
<1>3. QED BY <1>1, <1>2, SelectionKeeps

LEMMA RangeIsSongs == ASSUME Queue!IInv PROVE Queue!Range(v1) \subseteq QueueSongs /\ v4 \subseteq QueueSongs
  BY QueueIsParts DEF Heard, ScreenFits, Queue!Range

LEMMA StartDragKeeps == ASSUME Queue!IInv, NEW song \in Queue!Range(v1), Queue!StartDrag(song) PROVE Queue!IInv'
<1>1. /\ UNCHANGED <<v1, v2, v3, v6>> /\ Queue!RenderSelection
      /\ v5' = [anchor |-> song, target |-> None, after |-> FALSE, active |-> FALSE]
      /\ v4' = IF song \in v4 THEN v4 ELSE {song}
  BY DEF Queue!StartDrag
<1>2. song \in QueueSongs /\ v4' \subseteq QueueSongs BY <1>1, RangeIsSongs
<1>3. DragFits' BY <1>1, <1>2 DEF DragFits, Queue!DragIsInList
<1>4. QED BY <1>1, <1>2, <1>3, SelectionKeeps

LEMMA DragMoveKeeps == ASSUME Queue!IInv, Queue!DragMove PROVE Queue!IInv'
<1>1. Heard /\ ScreenFits /\ DragFits BY QueueIsParts
<1>2. /\ v5 # None /\ UNCHANGED <<v1, v2, v3, v4, v6, Queue!screen>>
      /\ \E target \in Queue!Range(v1) \cup {None}, after \in BOOLEAN :
           v5' = [v5 EXCEPT !.target = target, !.after = after /\ target # None, !.active = TRUE]
  BY DEF Queue!DragMove
<1>3. Heard' BY <1>1, <1>2 DEF Heard, Queue!CurrentSong
<1>4. ScreenFits' BY <1>1, <1>2 DEF ScreenFits, Queue!ScreenUnlessDirty, Queue!screen
<1>5. DragFits'
  <2>1. PICK target \in Queue!Range(v1) \cup {None}, after \in BOOLEAN :
          v5' = [v5 EXCEPT !.target = target, !.after = after /\ target # None, !.active = TRUE]
    BY <1>2
  <2>2. target \in QueueSongs \cup {None} BY RangeIsSongs
  <2>3. (after /\ target # None) \in BOOLEAN OBVIOUS
  <2>4. v5 \in [anchor : QueueSongs, target : QueueSongs \cup {None}, after : BOOLEAN, active : BOOLEAN]
        /\ v5.anchor \in Queue!Range(v1)
    BY <1>1, <1>2 DEF DragFits, Queue!DragIsInList
  <2>5. /\ v5' \in [anchor : QueueSongs, target : QueueSongs \cup {None}, after : BOOLEAN, active : BOOLEAN]
        /\ v5'.anchor = v5.anchor /\ v5'.target = target
    BY <2>1, <2>2, <2>3, <2>4
  <2>6. QED BY <1>2, <2>4, <2>5 DEF DragFits, Queue!DragIsInList
<1>6. QED BY <1>3, <1>4, <1>5, QueueIsParts

LEMMA CurrentIsSong ==
  ASSUME Heard, v2 # 0
  PROVE  v2 \in 1 .. Len(v1) /\ Queue!CurrentSong \in Queue!Range(v1) /\ Queue!CurrentSong \in QueueSongs
<1>1. v2 \in 1 .. Len(v1) /\ DOMAIN v1 = 1 .. Len(v1) BY DEF Heard
<1>2. Queue!CurrentSong = v1[v2] BY DEF Queue!CurrentSong
<1>3. QED BY <1>1, <1>2 DEF Heard, Queue!Range

LEMMA RemoveSelectedKeeps ==
  ASSUME Queue!NoneIsNoSong, Queue!IInv, v5 = None, Queue!RemoveSelected
  PROVE  Queue!IInv'
<1>1. Heard /\ ScreenFits BY QueueIsParts
<1>2. /\ v1' = Queue!Kept(v1, QueueSongs \ v4) /\ v4' = {}
      /\ v5' = v5 /\ v6' = v6 /\ Queue!RenderPlaylist
  BY DEF Queue!RemoveSelected
<1>3. v1' \in Seq(QueueSongs) /\ Queue!IsInjective(v1') /\ Queue!Range(v1') = Queue!Range(v1) \cap (QueueSongs \ v4)
  BY <1>1, <1>2, KeptIs DEF Heard
<1>4. Heard'
  <2>1. CASE Queue!CurrentSong \in v4 /\ v1' # <<>>
             /\ Queue!Play(IF v2 < Len(v1') THEN v2 ELSE Len(v1'))
    <3>1. v2 # 0
      <4>1. Queue!CurrentSong # None BY <1>1, <2>1 DEF ScreenFits, Queue!NoneIsNoSong
      <4>2. QED BY <4>1 DEF Queue!CurrentSong
    <3>2. v2 \in 1 .. Len(v1) BY <1>1, <3>1, CurrentIsSong
    <3>3. Len(v1') \in Nat \ {0} BY <1>3, <2>1
    <3> DEFINE i == IF v2 < Len(v1') THEN v2 ELSE Len(v1')
    <3>4. i \in 1 .. Len(v1') BY <3>2, <3>3
    <3> HIDE DEF i
    <3>5. Queue!Play(i) BY <2>1 DEF i
    <3>6. QED BY <1>3, <3>4, <3>5, PlayIsHeard
  <2>2. CASE Queue!ClearCurrent BY <1>3, <2>2, ClearIsHeard
  <2>3. CASE Queue!CurrentSong \notin v4 /\ v2' = Queue!NewPosition(v1') /\ v3' = v3
    <3>1. v2 = 0 \/ Queue!CurrentSong \in Queue!Range(v1') BY <1>1, <1>3, <2>3, CurrentIsSong
    <3>2. QED BY <1>1, <1>3, <2>3, <3>1, LookedUpIsHeard
  <2>4. QED BY <2>1, <2>2, <2>3 DEF Queue!RemoveSelected
<1>5. ScreenFits' BY <1>1, <1>2, RenderedFits
<1>6. QED BY <1>2, <1>4, <1>5, NoDrag, QueueIsParts

LEMMA DragEndKeeps ==
  ASSUME Queue!NoneIsNoSong, Queue!IInv, NEW c \in BOOLEAN, Queue!DragEnd(c)
  PROVE  Queue!IInv'
<1>1. Heard /\ ScreenFits /\ DragFits BY QueueIsParts
<1>2. v5 # None /\ v5' = None BY DEF Queue!DragEnd
<1>3. DragFits' BY <1>2 DEF DragFits, Queue!DragIsInList
<1> DEFINE next == IF c \/ ~v5.active THEN v1 ELSE Queue!Reordered(v1, v4, v5)
<1>4. CASE next = v1 /\ UNCHANGED <<v1, v4, v2, v3, v6, Queue!screen>>
  <2>1. Heard' BY <1>1, <1>4 DEF Heard, Queue!CurrentSong
  <2>2. ScreenFits' BY <1>1, <1>4 DEF ScreenFits, Queue!ScreenUnlessDirty, Queue!screen
  <2>3. QED BY <1>3, <2>1, <2>2, QueueIsParts
<1>5. CASE /\ next # v1 /\ v1' = next /\ v4' = Queue!Block(v1, v4, v5.anchor)
           /\ v2' = Queue!NewPosition(next) /\ v3' = v3 /\ v6' = v6
           /\ Queue!RenderPlaylist
  <2>1. next = Queue!Reordered(v1, v4, v5) BY <1>5
  <2>2. v5.anchor \in Queue!Range(v1) /\ v5.target \in Queue!Range(v1) \cup {None}
    BY <1>1, <1>2 DEF DragFits, Queue!DragIsInList
  <2> HIDE DEF next
  <2>3. v1 \in Seq(QueueSongs) /\ Queue!IsInjective(v1) BY <1>1 DEF Heard
  <2>4. next \in Seq(QueueSongs) /\ Queue!IsInjective(next) /\ Queue!Range(next) = Queue!Range(v1)
    <3>1. IsDrop(next, v1, v5, Queue!Block(v1, v4, v5.anchor))
      BY <2>1, <2>2, <2>3, ReorderedIs
    <3>2. QED BY <3>1 DEF IsDrop
  <2>5. v2 = 0 \/ Queue!CurrentSong \in Queue!Range(v1') BY <1>1, <1>5, <2>4, CurrentIsSong
  <2>6. Heard' BY <1>1, <1>5, <2>4, <2>5, LookedUpIsHeard
  <2>7. v4' \subseteq QueueSongs BY <1>5, <2>2, RangeIsSongs DEF Queue!Block
  <2>8. ScreenFits' BY <1>1, <1>5, <2>7, RenderedFits
  <2>9. QED BY <1>3, <2>6, <2>8, QueueIsParts
<1>6. QED BY <1>4, <1>5 DEF Queue!DragEnd

LEMMA HideKeeps == ASSUME Queue!IInv, Queue!Hide PROVE Queue!IInv'
<1>1. Heard /\ ScreenFits /\ DragFits BY QueueIsParts
<1>2. v6' = FALSE /\ UNCHANGED <<v1, v2, v3, v4, v5, Queue!screen>> BY DEF Queue!Hide
<1>3. Heard' BY <1>1, <1>2 DEF Heard, Queue!CurrentSong
<1>4. ScreenFits' BY <1>1, <1>2 DEF ScreenFits, Queue!ScreenUnlessDirty, Queue!screen
<1>5. DragFits' BY <1>1, <1>2 DEF DragFits, Queue!DragIsInList
<1>6. QED BY <1>3, <1>4, <1>5, QueueIsParts

(* What was put off is painted when the pane is visible again.              *)
LEMMA ShowKeeps == ASSUME Queue!IInv, Queue!Show PROVE Queue!IInv'
<1>1. Heard /\ ScreenFits /\ DragFits BY QueueIsParts
<1>2. /\ v6' = TRUE /\ UNCHANGED <<v1, v2, v3, v4, v5>>
      /\ v8' = FALSE /\ v10' = FALSE
  BY DEF Queue!Show
<1>3. Heard' BY <1>1, <1>2 DEF Heard, Queue!CurrentSong
<1>4. ScreenFits'
  <2>1. v7'.songs = v1 /\ v9' = v4
    <3>1. CASE v8 /\ v7' = Queue!Rows(v1, v2) /\ v9' = v4
      BY <3>1 DEF Queue!Rows
    <3>2. CASE ~v8 /\ v10 /\ v9' = v4 /\ UNCHANGED v7
      BY <1>1, <3>2 DEF ScreenFits, Queue!ScreenUnlessDirty
    <3>3. CASE ~v8 /\ ~v10 /\ UNCHANGED <<v7, v9>>
      BY <1>1, <3>3 DEF ScreenFits, Queue!ScreenUnlessDirty
    <3>4. QED BY <3>1, <3>2, <3>3 DEF Queue!Show
  <2>2. QED BY <1>1, <1>2, <2>1 DEF ScreenFits, Queue!ScreenUnlessDirty
<1>5. DragFits' BY <1>1, <1>2 DEF DragFits, Queue!DragIsInList
<1>6. QED BY <1>3, <1>4, <1>5, QueueIsParts

LEMMA PaneKeeps == ASSUME Queue!NoneIsNoSong, Queue!IInv, v5 = None, Queue!Pane PROVE Queue!IInv'
<1>1. Queue!Range(v1) \subseteq QueueSongs /\ v4 \subseteq QueueSongs BY RangeIsSongs
<1>2. CASE Queue!Click
  <2>1. PICK x \in Queue!Range(v1) : Queue!Select({x}) \/ Queue!Select((v4 \cup {x}) \ (v4 \cap {x}))
    BY <1>2 DEF Queue!Click
  <2>2. {x} \in SUBSET QueueSongs /\ (v4 \cup {x}) \ (v4 \cap {x}) \in SUBSET QueueSongs
    BY <1>1
  <2>3. QED BY <2>1, <2>2, QueueSelectKeeps
<1>3. CASE Queue!RemoveSelected BY <1>3, RemoveSelectedKeeps
<1>4. CASE \E s \in Queue!Range(v1) : Queue!StartDrag(s) BY <1>4, StartDragKeeps
<1>5. CASE \E i \in DOMAIN v1 : Queue!PlayRow(i) BY <1>5, PlayRowKeeps DEF Queue!PlayRow
<1>6. CASE \E list \in Queue!Lists : Queue!LoadByName(list) BY <1>6, LoadByNameKeeps
<1>7. CASE \E list \in Queue!Lists : \E s \in QueueSongs : Queue!LoadRecent(list, s)
  BY <1>7, LoadRecentKeeps
<1>8. CASE \E list \in Queue!Lists : Queue!AddSongs(list) BY <1>8, AddSongsKeeps
<1>9. CASE \E s \in QueueSongs : Queue!AddAndPlay(s) BY <1>9, AddAndPlayKeeps
<1>10. QED BY <1>2, <1>3, <1>4, <1>5, <1>6, <1>7, <1>8, <1>9 DEF Queue!Pane

LEMMA QueueNext == Queue!NoneIsNoSong /\ Queue!IInv /\ [Queue!Next]_(Queue!vars) => Queue!IInv'
<1> SUFFICES ASSUME Queue!NoneIsNoSong, Queue!IInv, [Queue!Next]_(Queue!vars) PROVE Queue!IInv' OBVIOUS
<1>1. CASE v5 = None /\ Queue!Pane BY <1>1, PaneKeeps
<1>2. CASE Queue!SelectAll
  <2>1. Queue!Range(v1) \in SUBSET QueueSongs BY RangeIsSongs
  <2>2. QED BY <1>2, <2>1, QueueSelectKeeps DEF Queue!SelectAll
<1>3. CASE Queue!DragMove BY <1>3, DragMoveKeeps
<1>4. CASE \E c \in BOOLEAN : Queue!DragEnd(c) BY <1>4, DragEndKeeps
<1>5. CASE Queue!Ended BY <1>5, EndedKeeps
<1>6. CASE Queue!Hide BY <1>6, HideKeeps
<1>7. CASE Queue!Show BY <1>7, ShowKeeps
<1>8. CASE UNCHANGED Queue!vars
  BY <1>8
  DEF Queue!vars, Queue!IInv, Queue!TypeOK, Queue!CurrentIsPlaying, Queue!CurrentSong,
      Queue!ScreenUnlessDirty, Queue!DragIsInList
<1>9. QED BY <1>1, <1>2, <1>3, <1>4, <1>5, <1>6, <1>7, <1>8 DEF Queue!Next

(* What the invariant means; for a drop that is what the lists are alone.   *)
LEMMA QueueMeans ==
  Queue!NoneIsNoSong /\ Queue!IInv => Queue!CurrentIsPlaying /\ Queue!DropKeepsOrder /\ Queue!ScreenIsCurrent
<1> SUFFICES ASSUME Queue!NoneIsNoSong, Queue!IInv PROVE Queue!CurrentIsPlaying /\ Queue!DropKeepsOrder /\ Queue!ScreenIsCurrent
  OBVIOUS
<1>1. Heard /\ ScreenFits /\ DragFits BY QueueIsParts
<1>2. Queue!CurrentIsPlaying /\ Queue!ScreenIsCurrent
  BY <1>1
  DEF Heard, ScreenFits, Queue!ScreenUnlessDirty, Queue!CurrentIsPlaying,
      Queue!ScreenIsCurrent
<1>3. v5 # None =>
        IsDrop(Queue!Reordered(v1, v4, v5), v1, v5, Queue!Block(v1, v4, v5.anchor))
  <2>1. v5 # None => v5.anchor \in Queue!Range(v1) /\ v5.target \in Queue!Range(v1) \cup {None}
    BY <1>1 DEF DragFits, Queue!DragIsInList
  <2>2. v1 \in Seq(QueueSongs) /\ Queue!IsInjective(v1) BY <1>1 DEF Heard
  <2>3. QED BY <2>1, <2>2, ReorderedIs
<1>4. Queue!DropKeepsOrder BY <1>3, QueueCounts DEF Queue!DropKeepsOrder, IsDrop
<1>5. QED BY <1>2, <1>4
=============================================================================
