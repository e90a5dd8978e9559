----------------------------- MODULE MCSyncPage -----------------------------
(* Instances of SyncPage for TLC: a page that may copy one file or plan and  *)
(* run one batch, over the server of SyncJobs with two workers.  A plan      *)
(* finds a folder with a file to upload, nested folders, or nothing;         *)
(* folders come first, the deepest before the others (_dir_plan_key). *)
EXTENDS SyncPage

CONSTANTS w1, w2

MCWorkers == {w1, w2}
MCKind == [i \in {<<"x">>, <<"a", "y">>, <<"a">>, <<"a", "b">>} |->
             CASE i = <<"x">> -> "download"
               [] i = <<"a", "y">> -> "upload"
               [] OTHER -> "mkdir"]
MCSingleItem == [o \in {"single"} |-> <<"x">>]
MCFinds == {<< <<"a">>, <<"a", "y">> >>, << <<"a", "b">>, <<"a">> >>, <<>>}
=============================================================================
