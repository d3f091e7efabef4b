-------------------------- MODULE MCRefreshRequest --------------------------
(***************************************************************************)
(* Instances of RefreshRequest for TLC: two folders of one account, and    *)
(* every filter over them, another account and another folder.             *)
(***************************************************************************)
EXTENDS RefreshRequest, TLC

Folder(a, f) == [account |-> a, folder |-> f]

OneAccount == <<Folder("a", "inbox"), Folder("a", "sent")>>
MCFilter == {Folder(a, f) : a \in {"a", "b", "all"}, f \in {"inbox", "junk", "all"}}

Symmetry == Permutations(Request)
=============================================================================
