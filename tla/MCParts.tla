------------------------------ MODULE MCParts ------------------------------
(***************************************************************************)
(* An instance of Parts for TLC; MCParts.cfg has the values that are sets    *)
(* and numbers.                                                             *)
(*                                                                         *)
(* Two names and two song lists.  Three songs in the queue, so that a block  *)
(* can be dropped between two others; a song with a title and one with a     *)
(* cover, two loads and two tasks on their way, one record in the waveform   *)
(* cache.  Two folders with a song each.  Two videos and two positions;      *)
(* three tokens are a chain, one that overtakes it and the restart that one  *)
(* asks for.  One text track, two positions a window apart.  A folder with   *)
(* more photos than a batch holds; three thumbnails for two slots.  Three    *)
(* fetches of listings after the first.  One page that opens three sessions  *)
(* where the server keeps two.  One path and one thread of the write path,   *)
(* and enough repairs that their bound is not met.                          *)
(***************************************************************************)
EXTENDS Parts, TLC

(* An import of one file, and one whose second file fails.                  *)
OneList(n, c, fails) == [lists |-> <<[name |-> n, songs |-> c]>>, fails |-> fails]
MCImports == {<<OneList("A", 1, FALSE)>>, <<OneList("A", 0, FALSE), OneList("New", 1, TRUE)>>}

(* Edits between lists of every length up to three, one with another order. *)
MCEdits == {<<>>, <<"b">>, <<"c", "a">>, <<"a", "b", "c">>, <<"c", "b", "a">>}

MCSongsOf == "f" :> {"a"} @@ "g" :> {"b"}
(* Two queries; one of the scans finds nothing.                             *)
MCMatches == "f" :> ("q" :> {"x", "y"} @@ "r" :> {"y"}) @@ "g" :> ("q" :> {"z"} @@ "r" :> {})
MCPhotosOf == "f" :> <<"x", "y", "z">> @@ "g" :> <<"w">>
MCVersions == [p \in Paths |-> 3]
MCMaxEpoch == [p \in Paths |-> 2]

-----------------------------------------------------------------------------
(* photo-map/thumbnails.js: what stays in demand is answered in the end;    *)
(* "x" stands for the others, which the model does not tell apart.          *)
DemandEnds ==
  (part = "thumbs" /\ Thumbs!InDemand("x")) ~>
    (part = "thumbs" /\ (~Thumbs!InDemand("x") \/ "x" \in Thumbs!Answered))

(* foldercache.py: once a thread is in the flush loop every change of a     *)
(* record reaches the disk, unless a newer content or an invalidation       *)
(* overtakes it, or a failing write loses it or leaves it for the next loop. *)
EventuallyOnDisk ==
  \A v \in 1 .. 3 :
    (part = "cache" /\ Cache!Holds("p", v)) ~> (part = "cache" /\ Cache!IsOver("p", v))
=============================================================================
