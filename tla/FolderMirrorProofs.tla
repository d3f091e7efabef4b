------------------------- MODULE FolderMirrorProofs -------------------------
(* What every mirror promises its readers, proved from its steps. *)
EXTENDS FolderMirror, TLAPS

LEMMA MirrorStep == MirrorInv /\ [Next]_vars => MirrorInv'
<1> SUFFICES ASSUME MirrorInv, [Next]_vars PROVE MirrorInv'
  OBVIOUS
<1> USE DEF MirrorInv, OneEpoch
<1>1. CASE Renumber
  BY <1>1 DEF Renumber, Id
<1>2. ASSUME NEW id \in held', Store(id) PROVE MirrorInv'
  <2>1. /\ id \in Id /\ id[1] <= epoch /\ held' = held \cup {id}
        /\ \A h \in held : h[1] = id[1]
        /\ \A g \in claim : g <= id[1]
        /\ epoch' = epoch /\ claim' = claim
    BY <1>2 DEF Store
  <2>2. \A h \in held' : h \in Id /\ h[1] = id[1]
    BY <2>1
  <2>3. QED
    BY <2>1, <2>2
<1>3. CASE Forget
  BY <1>3 DEF Forget
<1>4. ASSUME NEW g \in claim', Claim(g) PROVE MirrorInv'
  <2>1. /\ g \in Nat /\ g <= epoch /\ claim' = {g}
        /\ \A h \in held : h[1] = g
        /\ epoch' = epoch /\ held' = held
    BY <1>4 DEF Claim
  <2>2. QED
    BY <2>1
<1>5. CASE UNCHANGED vars
  BY <1>5 DEF vars
<1>6. QED
  BY <1>1, <1>2, <1>3, <1>4, <1>5 DEF Next

LEMMA MirrorInvariant == Spec => []MirrorInv
<1>1. Init => MirrorInv
  BY DEF Init, MirrorInv, OneEpoch
<1>2. QED
  BY <1>1, MirrorStep, PTL DEF Spec

\* A reader of a mirror may go by the UID alone.
THEOREM MirrorOneEpoch == Spec => []OneEpoch
<1>1. MirrorInv => OneEpoch
  BY DEF MirrorInv
<1>2. QED
  BY <1>1, MirrorInvariant, PTL

\* A claim for the generation the mailbox is in is about what is held: between a
\* claim and the generations held and current there is no room for a third.
THEOREM MirrorClaimTrue == Spec => []ClaimTrue
<1>1. MirrorInv => ClaimTrue
  <2> SUFFICES ASSUME MirrorInv, NEW g \in claim, g = epoch, NEW h \in held
               PROVE  h[1] = epoch
    BY DEF ClaimTrue
  <2>1. g <= h[1] /\ h[1] <= epoch /\ h[1] \in Nat /\ epoch \in Nat
    BY DEF MirrorInv, Id
  <2>2. QED
    BY <2>1
<1>2. QED
  BY <1>1, MirrorInvariant, PTL

=============================================================================
