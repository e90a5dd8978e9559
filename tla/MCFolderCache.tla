---------------------------- MODULE MCFolderCache ----------------------------
(* Instances of FolderCache for TLC: small trees below the page "r".  Totals *)
(* are powers of two, so that a sum tells which folders it counts.           *)
EXTENDS FolderCache

CONSTANTS w1, w2

MCWorkers == {w1, w2}
MCTotal == [r |-> 1, a |-> 2, b |-> 4, c |-> 8]
MCRank == [r |-> 1, a |-> 2, b |-> 4, c |-> 3]
MCPages == {"r"}

(* r has the subfolders a and b, and a has c.                               *)
TreePaths == {"r", "a", "b", "c"}
TreeSubfolders == [r |-> <<"a", "b">>, a |-> <<"c">>, b |-> <<>>, c |-> <<>>]
TreeDiffs == {"b"}

(* r has the subfolders a and b.                                            *)
ForkPaths == {"r", "a", "b"}
ForkSubfolders == [r |-> <<"a", "b">>, a |-> <<>>, b |-> <<>>]

(* r has a, and a has c.                                                    *)
ChainPaths == {"r", "a", "c"}
ChainSubfolders == [r |-> <<"a">>, a |-> <<"c">>, c |-> <<>>]
ChainDiffs == {"c"}

(* r has a.                                                                 *)
PairPaths == {"r", "a"}
PairSubfolders == [r |-> <<"a">>, a |-> <<>>]
PairDiffs == {"a"}

Interchangeable == Permutations(MCWorkers)
=============================================================================
