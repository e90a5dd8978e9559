----------------------------- MODULE MCSyncJobs -----------------------------
(* Instances of SyncJobs for TLC: a download of one file, a plan that sends  *)
(* nested folders and a file to Dropbox, one that brings a folder with a     *)
(* file to the computer, and one that finds nothing to copy.  A plan lists   *)
(* folders first, the deepest ones before the others (_dir_plan_key).       *)
EXTENDS SyncJobs

CONSTANTS w1, w2

MCWorkers == {w1, w2}
MCKind == [i \in {<<"x">>, <<"a", "y">>, <<"a">>, <<"a", "b">>, <<"c">>, <<"c", "z">>} |->
             CASE i \in {<<"x">>, <<"c", "z">>} -> "download"
               [] i = <<"a", "y">> -> "upload"
               [] i = <<"c">> -> "folder"
               [] OTHER -> "mkdir"]
MCSingleItem == [o \in {"single"} |-> <<"x">>]
Up == << <<"a", "b">>, <<"a">>, <<"a", "y">> >>
Down == << <<"c">>, <<"c", "z">> >>
MCUp == {Up}
MCAny == {Up, Down, <<>>}
Interchangeable == Permutations(MCWorkers)
=============================================================================
