---------------------------- MODULE FolderMirror ----------------------------
(***************************************************************************)
(* What the cache promises of one folder to whoever reads it: a mirror of  *)
(* a mailbox that may be renumbered at any time.                           *)
(*                                                                         *)
(* A message is known by a generation of the mailbox and a UID.  The       *)
(* mirror may lag behind the mailbox, lose messages and be incomplete, but *)
(* it never mixes generations, it passes from one to the next only through *)
(* the empty mirror, and the generation it claims to be of is never ahead  *)
(* of what it holds.  Uids are compared without their generation in places *)
(* (cache.go, ListUIDsForFolder and DeleteByMessageRef): this is the       *)
(* contract that makes them right.                                         *)
(***************************************************************************)
EXTENDS Naturals

VARIABLES
    epoch,          \* the generation of the mailbox
    held,           \* the messages held, as <<generation, uid>>
    claim           \* the generation recorded for the mirror, if any

vars == <<epoch, held, claim>>

Id == Nat \X Nat

Init == epoch = 1 /\ held = {} /\ claim = {}

\* The mailbox is renumbered, unnoticed.
Renumber == epoch' = epoch + 1 /\ UNCHANGED <<held, claim>>

\* A message is taken in, of the generation of the others and of no older one
\* than was claimed.
Store(id) ==
    /\ id \in Id
    /\ \A h \in held : h[1] = id[1]
    /\ \A g \in claim : g <= id[1]
    /\ id[1] <= epoch
    /\ held' = held \cup {id}
    /\ UNCHANGED <<epoch, claim>>

\* Messages are dropped; with the last of them the claim may go.
Forget ==
    /\ held' \subseteq held
    /\ claim' = claim \/ (held' = {} /\ claim' = {})
    /\ UNCHANGED epoch

\* A cycle is over: the mirror is of generation g.
Claim(g) ==
    /\ g \in Nat
    /\ \A h \in held : h[1] = g
    /\ \A c \in claim : c <= g
    /\ g <= epoch
    /\ claim' = {g}
    /\ UNCHANGED <<epoch, held>>

Next == \/ Renumber
        \/ \E id \in held' : Store(id)
        \/ Forget
        \/ \E g \in claim' : Claim(g)

Spec == Init /\ [][Next]_vars

-----------------------------------------------------------------------------
(* What follows for a reader *)

\* UIDs tell the messages held apart.
OneEpoch == \A h, i \in held : h[1] = i[1]

\* A mirror claimed for the generation the mailbox is in has nothing of another
\* one: what the fast path of a refresh trusts is of that generation.
ClaimTrue == \A g \in claim : g = epoch => \A h \in held : h[1] = epoch

\* Both follow by induction from this.
MirrorInv ==
    /\ epoch \in Nat /\ held \subseteq Id /\ claim \subseteq Nat
    /\ OneEpoch
    /\ \A h \in held : h[1] <= epoch
    /\ \A g \in claim : g <= epoch /\ \A h \in held : g <= h[1]

=============================================================================
