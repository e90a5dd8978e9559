------------------------------ MODULE Playlists ------------------------------
(***************************************************************************)
(* The saved playlists of a media pane: media-library/playlist.js (its      *)
(* dialogs, save, rename, load, delete and import) and playlist-store.js.    *)
(*                                                                         *)
(* The pane edits one active playlist; saved playlists live in memory       *)
(* (state.persistedPlaylists) and in localStorage.  The songs of a playlist *)
(* are one value of Contents: what is compared and kept is the whole list.  *)
(* A modal dialog covers the pane, so its buttons answer only while no      *)
(* dialog is open and the confirmation dialog covers the others.  Each      *)
(* file of an import is read by a FileReader and merged when its text       *)
(* arrives, whatever the user does in between.  Settings.set swallows what  *)
(* localStorage throws, and another tab of the browser writes the same key  *)
(* whenever its user saves: nothing tells this page of either.              *)
(***************************************************************************)
EXTENDS Sequences, Functions

CONSTANTS
  Names,      \* names a playlist can have
  Default,    \* DEFAULT_PLAYLIST_NAME, the name of an unnamed playlist
  None,       \* no name, no stored playlist, no action
  Contents,   \* song lists
  Empty,      \* the empty list
  Batches     \* import batches: sequences of files; a file is the sequence
              \* of the playlists it merges and whether it then fails

VARIABLES
  active,     \* activePlaylist: its name and its songs
  saved,      \* activePlaylistSavedName and activePlaylistSavedSignature
  dirty,      \* activePlaylistDirty
  stored,     \* persistedPlaylists: the songs saved under a name, or None
  disk,       \* what localStorage holds of them
  dialogs,    \* the visible dialogs
  pending,    \* pendingPlaylistConfirmAction and the name it captured
  importing,  \* the files the running import has still to merge
  touched,    \* history: names an import has merged since the active playlist
              \* was last saved or loaded
  apart       \* history: localStorage need not hold what this page has stored:
              \* an import has not ended, a write failed, or another tab wrote

vars == <<active, saved, dirty, stored, disk, dialogs, pending, importing, touched, apart>>
lists == <<active, saved, dirty, touched>>
storage == <<stored, disk, apart>>

List(n, c) == [name |-> n, songs |-> c]
NoAction == [kind |-> None, name |-> None]
Dialogs == {"rename", "save", "load", "recent", "confirm"}
ActionKinds == {"save", "rename", "load", "new"}
Stores == [Names -> Contents \cup {None}]

(* What the proofs and MCParts assume of the constants.                     *)
NamesAndContents ==
  /\ Default \in Names /\ None \notin Names
  /\ Empty \in Contents /\ None \notin Contents
  /\ None \notin ActionKinds

(* An import is of files with playlists; importPlaylistFiles returns when   *)
(* it is given none.                                                        *)
Files == [lists : Seq([name : Names, songs : Contents]), fails : BOOLEAN]
ImportsAreFiles == \A b \in Batches : b \in Seq(Files) \ {<<>>}

TypeOK ==
  /\ active \in [name : Names, songs : Contents]
  /\ saved \in [name : Names \cup {None}, sig : [name : Names, songs : Contents] \cup {None}]
  /\ dirty \in BOOLEAN
  /\ stored \in Stores /\ disk \in Stores
  /\ dialogs \subseteq Dialogs
  /\ pending \in [kind : ActionKinds, name : Names] \cup {NoAction}
  /\ importing \in Seq(UNION {Range(b) : b \in Batches}) \cup {None}
  /\ touched \subseteq Names /\ apart \in BOOLEAN

-----------------------------------------------------------------------------
(* A fresh page: what localStorage has is read, the playlist is empty.      *)
Blank == [name |-> None, sig |-> List(Default, Empty)]
Init ==
  /\ active = List(Default, Empty) /\ saved = Blank /\ dirty = FALSE
  /\ disk = [n \in Names |-> None] /\ stored = disk
  /\ dialogs = {} /\ pending = NoAction /\ importing = None
  /\ touched = {} /\ apart = FALSE

(* Replaces the active playlist by one that counts as saved under n.        *)
Adopt(n, list) ==
  /\ active' = list
  /\ saved' = [name |-> n, sig |-> list]
  /\ dirty' = FALSE
  /\ touched' = {}

(* upsertPersistedPlaylist: one entry per name; replaceName moves a list.   *)
Upsert(n, c, replaceName) ==
  [m \in Names |-> IF m = n THEN c ELSE IF m = replaceName THEN None ELSE stored[m]]

(* persistPlaylistStore: the whole store is written, or the write fails and *)
(* the caller goes on as if it had not.                                     *)
Persist ==
  \/ disk' = stored' /\ apart' = FALSE
  \/ disk' = disk /\ apart' = TRUE

(* The active playlist is stored under n, and counts as saved.              *)
StoreActive(n, replaceName) ==
  /\ stored' = Upsert(n, active.songs, replaceName) /\ Persist
  /\ Adopt(n, List(n, active.songs))

Open(dialog) == dialogs' = dialogs \cup {dialog}
Idle == dialogs = {}
OnTop(dialog) == dialog \in dialogs /\ "confirm" \notin dialogs

(* overwriteConfirmationRequired                                            *)
MustAsk(n) == stored[n] # None /\ saved.name # n
Ask(kind, n) ==
  /\ pending' = [kind |-> kind, name |-> n]
  /\ dialogs' = (dialogs \ {"rename", "save"}) \cup {"confirm"}
  /\ UNCHANGED <<lists, storage>>

(* savePlaylist and renamePlaylist.  A save under the default name asks for *)
(* a name first; a rename replaces what was saved under the old name.       *)
Save(n, skipAsk) ==
  \/ /\ n = Default
     /\ Open("save") /\ UNCHANGED <<lists, storage, pending>>
  \/ n # Default /\ ~skipAsk /\ MustAsk(n) /\ Ask("save", n)
  \/ /\ n # Default /\ (skipAsk \/ ~MustAsk(n))
     /\ StoreActive(n, None)
     /\ dialogs' = dialogs \ {"rename", "save", "confirm"} /\ pending' = NoAction
Rename(n, skipAsk) ==
  \/ ~skipAsk /\ MustAsk(n) /\ Ask("rename", n)
  \/ /\ skipAsk \/ ~MustAsk(n)
     /\ StoreActive(n, saved.name)
     /\ dialogs' = dialogs \ {"rename", "save", "confirm"} /\ pending' = NoAction

(* loadPlaylistByName and loadNewPlaylist close the load dialog; a name     *)
(* that is no longer stored loads nothing.                                  *)
Load(n) ==
  /\ UNCHANGED storage
  /\ \/ stored[n] # None /\ Adopt(n, List(n, stored[n])) /\ dialogs' = dialogs \ {"load", "confirm"}
     \/ stored[n] = None /\ UNCHANGED lists /\ dialogs' = dialogs \ {"confirm"}
  /\ pending' = NoAction
LoadNew ==
  /\ UNCHANGED storage
  /\ Adopt(None, List(Default, Empty))
  /\ dialogs' = dialogs \ {"load", "confirm"} /\ pending' = NoAction

-----------------------------------------------------------------------------
(* Songs are added, removed or reordered; the dirty flag follows.           *)
Edit(c) ==
  /\ Idle /\ c # active.songs
  /\ active' = [active EXCEPT !.songs = c]
  /\ dirty' = (active' # saved.sig)
  /\ UNCHANGED <<saved, touched, storage, dialogs, pending, importing>>

OpenDialog ==
  /\ Idle
  /\ \E d \in {"rename", "load", "recent"} : Open(d)
  /\ UNCHANGED <<lists, storage, pending, importing>>
CloseDialog(d) ==
  /\ OnTop(d) /\ dialogs' = dialogs \ {d}
  /\ UNCHANGED <<lists, storage, pending, importing>>

SaveButton == Idle /\ Save(active.name, FALSE) /\ UNCHANGED importing
NameGiven(n) ==
  /\ \/ OnTop("save") /\ Save(n, FALSE)
     \/ OnTop("rename") /\ Rename(n, FALSE)
  /\ UNCHANGED importing

(* maybeConfirmDiscardUnsavedPlaylist: unsaved changes are asked about.     *)
Discarding(kind, n, load) ==
  \/ active = saved.sig /\ load
  \/ /\ active # saved.sig
     /\ dirty' = TRUE /\ pending' = [kind |-> kind, name |-> n] /\ Open("confirm")
     /\ UNCHANGED <<active, saved, touched, storage>>
LoadChosen(n) ==
  /\ OnTop("load") /\ stored[n] # None
  /\ Discarding("load", n, Load(n))
  /\ UNCHANGED importing
NewChosen == OnTop("load") /\ Discarding("new", Default, LoadNew) /\ UNCHANGED importing

(* The confirmation dialog: OK runs the captured action, whatever happened  *)
(* since it was asked for.                                                  *)
Confirm ==
  /\ "confirm" \in dialogs
  /\ \/ pending.kind = "save" /\ Save(pending.name, TRUE)
     \/ pending.kind = "rename" /\ Rename(pending.name, TRUE)
     \/ pending.kind = "load" /\ Load(pending.name)
     \/ pending.kind = "new" /\ LoadNew
  /\ UNCHANGED importing
Cancel ==
  /\ "confirm" \in dialogs
  /\ dialogs' = dialogs \ {"confirm"} /\ pending' = NoAction
  /\ UNCHANGED <<lists, storage, importing>>

(* Slip: the active playlist still counts as saved after its deletion.      *)
DeleteUnnoticed(n) ==
  /\ OnTop("load") /\ stored[n] # None
  /\ stored' = [stored EXCEPT ![n] = None] /\ Persist
  /\ UNCHANGED <<active, saved, dirty, touched, dialogs, pending, importing>>

(* deletePersistedPlaylist, from the load dialog's context menu.            *)
Delete(n) ==
  /\ OnTop("load") /\ stored[n] # None
  /\ stored' = [stored EXCEPT ![n] = None] /\ Persist
  /\ IF saved.name = n
       THEN saved' = [name |-> None, sig |-> None] /\ dirty' = TRUE
       ELSE UNCHANGED <<saved, dirty>>
  /\ UNCHANGED <<active, touched, dialogs, pending, importing>>

(* restoreRecentRecord: the playlist the record names, or else a new one    *)
(* with the recorded song; nothing is asked.                                *)
RestoreRecent(n, song) ==
  /\ OnTop("recent")
  /\ UNCHANGED <<storage, pending, importing>>
  /\ IF stored[n] # None THEN Adopt(n, List(n, stored[n])) ELSE Adopt(None, List(Default, song))
  /\ dialogs' = dialogs \ {"recent"}

-----------------------------------------------------------------------------
(* importPlaylistFiles: one file after another, stored on disk after the    *)
(* last; a file that fails ends the chain where it is.                      *)
ImportFiles(batch) ==
  /\ Idle /\ importing = None
  /\ importing' = batch
  /\ UNCHANGED <<lists, storage, dialogs, pending>>
Named(file, n) == {i \in DOMAIN file.lists : file.lists[i].name = n}
Latest(file, n) == CHOOSE i \in Named(file, n) : \A j \in Named(file, n) : j <= i
Merge(file) ==
  /\ stored' = [n \in Names |-> IF Named(file, n) = {} THEN stored[n]
                                ELSE file.lists[Latest(file, n)].songs]
  /\ touched' = touched \cup {l.name : l \in Range(file.lists)}
ImportFile ==
  /\ importing # None
  /\ Merge(Head(importing))
  /\ \/ /\ ~Head(importing).fails /\ Tail(importing) = <<>>
        /\ importing' = None /\ Persist
     \/ /\ Head(importing).fails \/ Tail(importing) # <<>>
        /\ importing' = IF Head(importing).fails THEN None ELSE Tail(importing)
        /\ apart' = (apart \/ stored' # stored) /\ UNCHANGED disk
  /\ UNCHANGED <<active, saved, dirty, dialogs, pending>>

(* The page is left and opened again.                                       *)
Reload ==
  /\ active' = List(Default, Empty) /\ saved' = Blank /\ dirty' = FALSE
  /\ stored' = disk /\ UNCHANGED disk
  /\ dialogs' = {} /\ pending' = NoAction /\ importing' = None
  /\ touched' = {} /\ apart' = FALSE

(* Another tab writes its own store over the key; this page does not listen *)
(* to storage events.                                                       *)
OtherTab ==
  /\ disk' \in Stores \ {disk} /\ apart' = TRUE
  /\ UNCHANGED <<lists, stored, dialogs, pending, importing>>

Next ==
  \/ \E c \in Contents : Edit(c)
  \/ OpenDialog \/ SaveButton \/ NewChosen \/ Confirm \/ Cancel \/ ImportFile \/ Reload
  \/ OtherTab
  \/ \E d \in Dialogs : CloseDialog(d)
  \/ \E n \in Names : NameGiven(n) \/ LoadChosen(n) \/ Delete(n)
  \/ \E n \in Names, c \in Contents \ {Empty} : RestoreRecent(n, c)
  \/ \E b \in Batches : ImportFiles(b)

Spec == Init /\ [][Next]_vars

-----------------------------------------------------------------------------
(* A playlist shown as saved is what is saved: while the dirty mark is off, *)
(* the name the active playlist was saved under holds these songs, unless   *)
(* an import has merged over it; and localStorage has them too, unless a    *)
(* write failed, another tab wrote its own or an import is not yet through. *)
SavedIsKept ==
  ~dirty /\ saved.name # None /\ saved.name \notin touched =>
    /\ stored[saved.name] = active.songs
    /\ ~apart => disk[saved.name] = active.songs

(* What keeps it: the signature of the active playlist is that of its saved *)
(* entry, whether it was edited or not, until the entry is deleted or       *)
(* imported over.                                                           *)
Typed ==
  /\ active = List(active.name, active.songs) /\ active.name \in Names
  /\ saved.name \in Names \cup {None}
  /\ DOMAIN stored = Names /\ DOMAIN disk = Names
  /\ pending = NoAction \/ pending.name \in Names

(* Each change of the store is written when it is made, but for the cases   *)
(* that apart remembers.                                                    *)
DiskFollows == ~apart => stored = disk

(* The signature is the saved entry's.                                      *)
SignatureIsSaved ==
  saved.name # None /\ saved.name \notin touched => saved.sig.songs = stored[saved.name]

(* Without the dirty mark the active playlist has the signature.            *)
CleanIsSigned == ~dirty => active = saved.sig

IInv == Typed /\ DiskFollows /\ SignatureIsSaved /\ CleanIsSigned
=============================================================================
