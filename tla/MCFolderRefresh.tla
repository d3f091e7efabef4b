-------------------------- MODULE MCFolderRefresh --------------------------
(***************************************************************************)
(* Instances of FolderRefresh for TLC.  One domain is configured and one   *)
(* header searched: the server returns the messages of the domain ("in")   *)
(* and those whose header merely contains its name ("near").               *)
(***************************************************************************)
EXTENDS FolderRefresh, TLC

MCKind == {"in", "near"}
MCQuery == {"from"}
MCHitBy == [q \in MCQuery |-> {"in", "near"}]
MCMatchBy == [q \in MCQuery |-> {"in"}]

\* Only messages the policy approves.
InsideOnly == {"in"}

Full == [full |-> TRUE, queries |-> {}]
Private == [full |-> FALSE, queries |-> MCQuery]

BothPolicies == {Full, Private}
OnlyPrivate == {Private}

Narrowing == {<<Full, Private>>}
BackAndForth == Narrowing \cup {<<Private, Full>>}
NoChange == {}

Symmetry == Permutations(Request)
=============================================================================
