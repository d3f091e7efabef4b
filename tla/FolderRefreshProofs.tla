------------------------ MODULE FolderRefreshProofs ------------------------
(***************************************************************************)
(* Theorems about FolderRefresh, for every set of requests, every policy   *)
(* and every bound: the types, the mutex, the single generation of UIDs in *)
(* the cache, and what its rows contain: rows that mix two messages, the   *)
(* gate in front of content, and the purge.                                *)
(***************************************************************************)
EXTENDS FolderRefresh, TLAPS

\* Setting the place and the locals of a request keeps their types.
LEMMA GoType ==
    ASSUME pc \in [Request -> Unlocked \cup Locked], job \in [Request -> Job],
           NEW r \in Request, NEW j \in Job, NEW phase \in Unlocked \cup Locked,
           Go(r, j, phase)
    PROVE  /\ pc' \in [Request -> Unlocked \cup Locked]
           /\ job' \in [Request -> Job]
           /\ pc'[r] = phase /\ job'[r] = j
           /\ \A s \in Request \ {r} : pc'[s] = pc[s] /\ job'[s] = job[s]
BY DEF Go

\* The locals of a request that has not begun.
LEMMA NoJobType == NoJob \in Job
<1>1. (CHOOSE p \in Policy : TRUE) \in Policy
  BY PolicyAssumption
<1>2. QED
  BY <1>1 DEF NoJob, Job, Selection

\* What is still to be done names a phase under the mutex.
LEMMA NextPhase ==
    ASSUME NEW j \in Job
    PROVE  /\ Reconcile(j) \in Rebuilding
           /\ Gate(j) \in Rebuilding
           /\ Sift(j) \in Rebuilding
<1>1. Reconcile(j) \in Rebuilding
  BY DEF Reconcile, Rebuilding, Selected, Locked
<1>2. Gate(j) \in Rebuilding
  BY <1>1 DEF Gate, Rebuilding, Selected, Locked
<1>3. QED
  BY <1>1, <1>2 DEF Sift, Rebuilding, Selected, Locked

\* The candidates of a scan are UIDs the scan found.
LEMMA DiscoveredType ==
    ASSUME NEW j \in Job, NEW uids \in SUBSET Uid
    PROVE  /\ Discovered(j, uids) \in Job
           /\ Discovered(j, uids).seen = j.seen
           /\ Discovered(j, uids).known = j.known
BY DEF Discovered, NewestOf, Job

\* A step of a request that leaves the cycle keeps the types.
LEMMA FinishType ==
    ASSUME TypeOK, NEW r \in Request, Finish(r)
    PROVE  /\ pc' \in [Request -> Unlocked \cup Locked]
           /\ job' \in [Request -> Job]
           /\ lock' \subseteq Request /\ quiet' \subseteq Request
           /\ pc'[r] = "idle" /\ lock' = lock \ {r}
           /\ \A s \in Request \ {r} : pc'[s] = pc[s] /\ job'[s] = job[s]
<1>1. Go(r, NoJob, "idle") /\ "idle" \in Unlocked \cup Locked
  BY DEF Finish, Unlocked
<1>2. /\ pc' \in [Request -> Unlocked \cup Locked]
      /\ job' \in [Request -> Job]
      /\ pc'[r] = "idle"
      /\ \A s \in Request \ {r} : pc'[s] = pc[s] /\ job'[s] = job[s]
  BY <1>1, GoType, NoJobType DEF TypeOK
<1>3. QED
  BY <1>2 DEF Finish, TypeOK

\* The steps outside the daemon, and its crash, keep the types.
LEMMA OutsideType ==
    ASSUME TypeOK, Environment \/ Crash
    PROVE  TypeOK'
<1> USE DEF TypeOK, Unchanged_but_server, Disturbed, server, tables, daemon
<1>1. ASSUME NEW k \in Kind, Deliver(k) PROVE TypeOK'
  <2>1. [uid |-> uidnext, kind |-> k, modseq |-> modseq + 1] \in Message
    BY DEF Message, Uid
  <2>2. mailbox' \subseteq Message /\ uidnext' \in Uid /\ modseq' \in Nat
    BY <1>1, <2>1 DEF Deliver, Uid
  <2>3. QED
    BY <1>1, <2>2 DEF Deliver
<1>2. ASSUME NEW m \in mailbox, Expunge(m) PROVE TypeOK'
  BY <1>2 DEF Expunge
<1>3. ASSUME NEW m \in mailbox, ChangeFlags(m) PROVE TypeOK'
  <2>1. [m EXCEPT !.modseq = modseq + 1] \in Message
    BY DEF Message
  <2>2. QED
    BY <1>3, <2>1 DEF ChangeFlags
<1>4. CASE Renumber
  BY <1>4 DEF Renumber, Uid
<1>5. CASE EditPolicy
  BY <1>5 DEF EditPolicy
<1>6. CASE Tick
  BY <1>6 DEF Tick
<1>7. CASE Crash
  <2>1. pc' \in [Request -> Unlocked \cup Locked]
    BY <1>7 DEF Crash, Unlocked
  <2>2. job' \in [Request -> Job]
    BY <1>7, NoJobType DEF Crash
  <2>3. QED
    BY <1>7, <2>1, <2>2 DEF Crash
<1>8. QED
  BY <1>1, <1>2, <1>3, <1>4, <1>5, <1>6, <1>7 DEF Environment

\* The tables after a row's verification time is set.
LEMMA VerifiedType ==
    ASSUME NEW S \in SUBSET Row, NEW t \in Nat
    PROVE  Verified(S, t) \in SUBSET Row
BY DEF Verified, Row

\* What one step of a request does to its place and locals, with their types.
\* The later proofs need of a step of a cycle which phase it leads to.
LEMMA RequestStartType ==
    ASSUME TypeOK, NEW r \in Request, Start(r)
    PROVE  /\ TypeOK' /\ pc'[r] \in {"lock", "expire"}
           /\ \A s \in Request \ {r} : pc'[s] = pc[s] /\ job'[s] = job[s]
<1>1. PICK c \in Cap :
        LET j == [NoJob EXCEPT !.policy = policy, !.cap = c, !.now = clock,
                    !.expired = {PublicId(x) : x \in Expired(clock)}]
        IN Go(r, j, IF j.expired = {} THEN "lock" ELSE "expire")
  BY DEF Start
<1> DEFINE gone == {PublicId(x) : x \in Expired(clock)}
           j == [NoJob EXCEPT !.policy = policy, !.cap = c, !.now = clock,
                              !.expired = gone]
           phase == IF j.expired = {} THEN "lock" ELSE "expire"
<1>2. Go(r, j, phase)
  BY <1>1
<1>3. gone \in SUBSET (Nat \X Uid)
  BY DEF Expired, PublicId, TypeOK, Row
<1>4. c \in Nat /\ clock \in Nat /\ policy \in Policy
  BY NumberAssumption DEF TypeOK
<1>5. j \in Job
  <2> HIDE DEF gone
  <2> QED BY <1>3, <1>4, NoJobType DEF Job
<1>6. phase \in Unlocked \cup Locked /\ phase \in {"lock", "expire"}
  BY DEF Unlocked
<1>7. /\ pc' \in [Request -> Unlocked \cup Locked]
      /\ job' \in [Request -> Job] /\ pc'[r] = phase
      /\ \A s \in Request \ {r} : pc'[s] = pc[s] /\ job'[s] = job[s]
  <2> HIDE DEF j, phase
  <2> QED BY <1>2, <1>5, <1>6, GoType DEF TypeOK
<1>8. QED
  BY <1>6, <1>7 DEF Start, TypeOK, server, tables

\* The purge only takes rows and states away.
LEMMA CleanupType ==
    ASSUME TypeOK, NEW r \in Request, CleanupExpired(r)
    PROVE  /\ TypeOK' /\ pc[r] = "expire" /\ pc'[r] = "lock"
           /\ rows' \subseteq rows /\ folderState' \subseteq folderState
           /\ \A s \in Request \ {r} : pc'[s] = pc[s] /\ job'[s] = job[s]
<1> DEFINE j == [job[r] EXCEPT !.now = clock, !.expired = {}]
<1>1. j \in Job
  <2>1. job[r] \in Job /\ clock \in Nat
    BY DEF TypeOK
  <2>2. QED
    BY <2>1 DEF Job
<1>2. Go(r, j, "lock") /\ "lock" \in Unlocked \cup Locked
  BY DEF CleanupExpired, Unlocked
<1>3. /\ pc' \in [Request -> Unlocked \cup Locked]
      /\ job' \in [Request -> Job] /\ pc'[r] = "lock"
      /\ \A s \in Request \ {r} : pc'[s] = pc[s] /\ job'[s] = job[s]
  <2> HIDE DEF j
  <2> QED BY <1>1, <1>2, GoType DEF TypeOK
<1>4. rows' \subseteq rows /\ folderState' \subseteq folderState
  BY DEF CleanupExpired
<1>5. QED
  BY <1>3, <1>4 DEF CleanupExpired, TypeOK, server

\* The mutex is taken by one request, which has then read the folder state.
LEMMA AcquireType ==
    ASSUME TypeOK, NEW r \in Request, Acquire(r)
    PROVE  /\ TypeOK' /\ lock = {} /\ lock' = {r} /\ pc'[r] = "select"
           /\ job'[r].known = folderState
           /\ \A s \in Request \ {r} : pc'[s] = pc[s] /\ job'[s] = job[s]
<1> DEFINE j == [job[r] EXCEPT !.known = folderState]
<1>1. j \in Job /\ j.known = folderState
  <2>1. job[r] \in Job /\ folderState \in SUBSET FolderState
    BY DEF TypeOK
  <2>2. QED
    BY <2>1 DEF Job
<1>2. Go(r, j, "select") /\ "select" \in Unlocked \cup Locked
  BY DEF Acquire, Locked
<1>3. /\ pc' \in [Request -> Unlocked \cup Locked]
      /\ job' \in [Request -> Job] /\ pc'[r] = "select" /\ job'[r] = j
      /\ \A s \in Request \ {r} : pc'[s] = pc[s] /\ job'[s] = job[s]
  <2> HIDE DEF j
  <2> QED BY <1>1, <1>2, GoType DEF TypeOK
<1>4. QED
  BY <1>1, <1>3 DEF Acquire, TypeOK, server, tables

\* SelectFolder records the generation of the server.  It skips the
\* invalidation only for a known state of that generation.
LEMMA SelectType ==
    ASSUME TypeOK, NEW r \in Request, SelectFolder(r)
    PROVE  /\ TypeOK' /\ pc[r] = "select" /\ pc'[r] \in Selected
           /\ job'[r].seen.uidvalidity = uidvalidity
           /\ job'[r].known = job[r].known
           /\ \/ pc'[r] = "invalidate"
              \/ \E s \in job[r].known : s.uidvalidity = uidvalidity
           /\ \A s \in Request \ {r} : pc'[s] = pc[s] /\ job'[s] = job[s]
<1> DEFINE sel == [uidvalidity |-> uidvalidity, uidnext |-> uidnext,
                   highestmodseq |-> HighestModSeq]
           j == [job[r] EXCEPT !.seen = sel, !.queries = job[r].policy.queries]
           fast == [j EXCEPT !.queries = {}, !.whole = TRUE]
<1>1. sel \in Selection /\ sel.uidvalidity = uidvalidity
  BY DEF TypeOK, Selection, HighestModSeq, Uid
<1>2. j \in Job /\ j.seen.uidvalidity = uidvalidity /\ j.known = job[r].known
  <2>1. job[r] \in Job /\ job[r].policy \in Policy
    BY DEF TypeOK, Job
  <2>2. job[r].policy.queries \subseteq Query
    BY <2>1, PolicyAssumption
  <2> HIDE DEF sel
  <2> QED BY <1>1, <2>1, <2>2 DEF Job
<1>3. fast \in Job /\ fast.seen = j.seen /\ fast.known = j.known
  <2> HIDE DEF j
  <2> QED BY <1>2 DEF Job
<1>4. PICK k \in {j, fast}, phase \in {"invalidate", "verify", "discover"} :
        /\ Go(r, k, phase)
        /\ \/ phase = "invalidate"
           \/ \E s \in job[r].known : s.uidvalidity = uidvalidity
  <2>1. \/ Go(r, j, "invalidate")
        \/ /\ \E s \in j.known : Unmodified(s, j.policy, sel)
           /\ Go(r, fast, "verify")
        \/ /\ \E s \in j.known : s.uidvalidity = uidvalidity
           /\ Go(r, j, "discover")
    BY DEF SelectFolder
  <2>2. (\E s \in j.known : Unmodified(s, j.policy, sel))
            => \E s \in job[r].known : s.uidvalidity = uidvalidity
    <3>1. ASSUME NEW s, Unmodified(s, j.policy, sel)
          PROVE  s.uidvalidity = uidvalidity
      BY <3>1 DEF Unmodified
    <3> HIDE DEF j, sel
    <3> QED BY <1>2, <3>1
  <2> HIDE DEF j, fast, sel
  <2> QED BY <2>1, <2>2, <1>2
<1>5. phase \in Unlocked \cup Locked /\ phase \in Selected
  BY DEF Locked, Selected
<1>6. k \in Job /\ k.seen.uidvalidity = uidvalidity /\ k.known = job[r].known
  <2> HIDE DEF j, fast
  <2> QED BY <1>2, <1>3
<1>7. /\ pc' \in [Request -> Unlocked \cup Locked]
      /\ job' \in [Request -> Job] /\ pc'[r] = phase /\ job'[r] = k
      /\ \A s \in Request \ {r} : pc'[s] = pc[s] /\ job'[s] = job[s]
  BY <1>4, <1>5, <1>6, GoType DEF TypeOK
<1>8. pc[r] = "select" /\ TypeOK'
  BY <1>7 DEF SelectFolder, TypeOK, server, tables
<1>9. QED
  BY <1>4, <1>5, <1>6, <1>7, <1>8

\* A step that only scans: it leaves the tables, the mutex and the server
\* alone, and what the cycle knows and has selected.
Scan(r) == \/ ListUIDs(r) \/ SearchAllowed(r) \/ UncachedUIDs(r)
           \/ PolicyAllowedUIDs(r) \/ FetchEnvelopes(r) \/ NoneMissing(r)

LEMMA ScanJob ==
    ASSUME TypeOK, NEW r \in Request, Scan(r)
    PROVE  /\ pc[r] \in Rebuilding
           /\ \E j \in Job, phase \in Rebuilding :
                /\ Go(r, j, phase)
                /\ j.seen = job[r].seen /\ j.known = job[r].known
           /\ UNCHANGED <<server, tables, policy, clock, lock, quiet>>
<1>0. job[r] \in Job /\ mailbox \subseteq Message /\ rows \subseteq Row
      /\ uidvalidity \in Nat
  BY DEF TypeOK
<1> USE DEF Unchanged_but_job
<1>1. CASE ListUIDs(r)
  <2> DEFINE uids == {m.uid : m \in {n \in mailbox : InScope(job[r], n.uid)}}
             base == [job[r] EXCEPT !.queries = {}]
             j == Discovered(base, uids)
  <2>1. uids \in SUBSET Uid
    BY <1>0 DEF Message
  <2>2. base \in Job /\ base.seen = job[r].seen /\ base.known = job[r].known
    BY <1>0 DEF Job
  <2>3. j \in Job /\ j.seen = job[r].seen /\ j.known = job[r].known
    <3> HIDE DEF base, uids
    <3> QED BY <2>1, <2>2, DiscoveredType
  <2>4. Go(r, j, Sift(j)) /\ pc[r] = "discover"
    BY <1>1 DEF ListUIDs
  <2>5. Sift(j) \in Rebuilding
    <3> HIDE DEF j
    <3> QED BY <2>3, NextPhase
  <2>6. QED
    <3> HIDE DEF j
    <3> QED BY <1>1, <2>3, <2>4, <2>5 DEF ListUIDs, Rebuilding, Selected, Locked
<1>2. CASE SearchAllowed(r)
  <2>1. PICK q \in job[r].queries :
          LET hits == {m.uid : m \in {n \in mailbox :
                         InScope(job[r], n.uid) /\ n.kind \in HitBy[q]}}
              uids == job[r].candidates \cup hits
              left == [job[r] EXCEPT !.queries = @ \ {q}, !.candidates = uids]
              j    == Discovered(left, uids)
          IN IF left.queries # {} THEN Go(r, left, "discover")
                                  ELSE Go(r, j, Sift(j))
    BY <1>2 DEF SearchAllowed
  <2> DEFINE hits == {m.uid : m \in {n \in mailbox :
                        InScope(job[r], n.uid) /\ n.kind \in HitBy[q]}}
             uids == job[r].candidates \cup hits
             left == [job[r] EXCEPT !.queries = @ \ {q}, !.candidates = uids]
             j    == Discovered(left, uids)
  <2>2. hits \in SUBSET Uid
    BY <1>0 DEF Message
  <2>3. uids \in SUBSET Uid
    <3> HIDE DEF hits
    <3> QED BY <1>0, <2>2 DEF Job
  <2>4. left \in Job /\ left.seen = job[r].seen /\ left.known = job[r].known
    <3> HIDE DEF uids
    <3> QED BY <1>0, <2>3 DEF Job
  <2>5. j \in Job /\ j.seen = job[r].seen /\ j.known = job[r].known
    <3> HIDE DEF left, uids
    <3> QED BY <2>3, <2>4, DiscoveredType
  <2>6. Go(r, left, "discover") \/ Go(r, j, Sift(j))
    BY <2>1
  <2>7. Sift(j) \in Rebuilding /\ "discover" \in Rebuilding
    <3> HIDE DEF j
    <3> QED BY <2>5, NextPhase DEF Rebuilding, Selected, Locked
  <2>8. QED
    <3> HIDE DEF left, j
    <3> QED BY <1>2, <2>4, <2>5, <2>6, <2>7
              DEF SearchAllowed, Rebuilding, Selected, Locked
<1>3. CASE UncachedUIDs(r)
  <2> DEFINE held == job[r].candidates \cap {x.uid : x \in rows}
             j == [job[r] EXCEPT !.fetch = @ \ held, !.keep = held,
                                 !.observed = held]
  <2>1. held \in SUBSET Uid
    BY <1>0 DEF Job
  <2>2. j \in Job /\ j.seen = job[r].seen /\ j.known = job[r].known
    <3> HIDE DEF held
    <3> QED BY <1>0, <2>1 DEF Job
  <2>3. Go(r, j, Gate(j)) /\ pc[r] = "compare"
    BY <1>3 DEF UncachedUIDs
  <2>4. Gate(j) \in Rebuilding
    <3> HIDE DEF j
    <3> QED BY <2>2, NextPhase
  <2>5. QED
    <3> HIDE DEF j
    <3> QED BY <1>3, <2>2, <2>3, <2>4
              DEF UncachedUIDs, Rebuilding, Selected, Locked
<1>4. CASE PolicyAllowedUIDs(r)
  <2> DEFINE allowed == {m.uid : m \in {n \in mailbox :
                n.uid \in job[r].fetch /\ Approved(job[r].policy, n.kind)}}
             j == [job[r] EXCEPT !.fetch = allowed]
             phase == IF allowed = {} THEN Reconcile(j) ELSE "envelopes"
  <2>1. allowed \in SUBSET Uid
    BY <1>0 DEF Message
  <2>2. j \in Job /\ j.seen = job[r].seen /\ j.known = job[r].known
    <3> HIDE DEF allowed
    <3> QED BY <1>0, <2>1 DEF Job
  <2>3. Go(r, j, phase) /\ pc[r] = "headers"
    BY <1>4 DEF PolicyAllowedUIDs
  <2>4. phase \in Rebuilding
    <3> HIDE DEF j, allowed
    <3> QED BY <2>2, NextPhase DEF Rebuilding, Selected, Locked
  <2>5. QED
    <3> HIDE DEF j, phase
    <3> QED BY <1>4, <2>2, <2>3, <2>4
              DEF PolicyAllowedUIDs, Rebuilding, Selected, Locked
<1>5. CASE FetchEnvelopes(r)
  <2> DEFINE envelopes == {[uid |-> m.uid, kind |-> m.kind,
                            modseq |-> m.modseq, from |-> uidvalidity] :
                             m \in {n \in mailbox : n.uid \in job[r].fetch}}
             j == [job[r] EXCEPT !.fetch = {}, !.envelopes = envelopes]
             phase == IF envelopes = {} THEN Reconcile(j) ELSE "store"
  <2>1. envelopes \in SUBSET Envelope
    BY <1>0 DEF Message, Envelope
  <2>2. j \in Job /\ j.seen = job[r].seen /\ j.known = job[r].known
    <3> HIDE DEF envelopes
    <3> QED BY <1>0, <2>1 DEF Job
  <2>3. Go(r, j, phase) /\ pc[r] = "envelopes"
    BY <1>5 DEF FetchEnvelopes
  <2>4. phase \in Rebuilding
    <3> HIDE DEF j, envelopes
    <3> QED BY <2>2, NextPhase DEF Rebuilding, Selected, Locked
  <2>5. QED
    <3> HIDE DEF j, phase
    <3> QED BY <1>5, <2>2, <2>3, <2>4
              DEF FetchEnvelopes, Rebuilding, Selected, Locked
<1>6. CASE NoneMissing(r)
  BY <1>0, <1>6 DEF NoneMissing, Rebuilding, Selected, Locked
<1>7. QED
  BY <1>1, <1>2, <1>3, <1>4, <1>5, <1>6 DEF Scan

LEMMA ScanType ==
    ASSUME TypeOK, NEW r \in Request, Scan(r)
    PROVE  /\ TypeOK' /\ pc[r] \in Rebuilding /\ pc'[r] \in Rebuilding
           /\ job'[r].seen = job[r].seen /\ job'[r].known = job[r].known
           /\ \A s \in Request \ {r} : pc'[s] = pc[s] /\ job'[s] = job[s]
           /\ UNCHANGED <<server, tables, policy, clock, lock, quiet>>
<1>1. PICK j \in Job, phase \in Rebuilding :
        Go(r, j, phase) /\ j.seen = job[r].seen /\ j.known = job[r].known
  BY ScanJob
<1>2. phase \in Unlocked \cup Locked
  BY DEF Rebuilding, Selected
<1>3. /\ pc' \in [Request -> Unlocked \cup Locked]
      /\ job' \in [Request -> Job] /\ pc'[r] = phase /\ job'[r] = j
      /\ \A s \in Request \ {r} : pc'[s] = pc[s] /\ job'[s] = job[s]
  BY <1>1, <1>2, GoType DEF TypeOK
<1>4. pc[r] \in Rebuilding /\ UNCHANGED <<server, tables, policy, clock, lock, quiet>>
  BY ScanJob
<1>5. TypeOK'
  BY <1>3, <1>4 DEF TypeOK, server, tables
<1>6. QED
  BY <1>1, <1>3, <1>4, <1>5

\* The rows of another generation go, and with them what was known of them.
LEMMA InvalidateType ==
    ASSUME TypeOK, NEW r \in Request, DeleteByFolder(r)
    PROVE  /\ TypeOK' /\ pc[r] = "invalidate" /\ pc'[r] = "discover"
           /\ rows' = {} /\ job'[r].known = {} /\ job'[r].seen = job[r].seen
           /\ \A s \in Request \ {r} : pc'[s] = pc[s] /\ job'[s] = job[s]
<1> DEFINE j == [job[r] EXCEPT !.known = {}]
<1>1. j \in Job /\ j.known = {} /\ j.seen = job[r].seen
  <2>1. job[r] \in Job
    BY DEF TypeOK
  <2>2. QED
    BY <2>1 DEF Job
<1>2. Go(r, j, "discover") /\ "discover" \in Unlocked \cup Locked
  BY DEF DeleteByFolder, Locked
<1>3. /\ pc' \in [Request -> Unlocked \cup Locked]
      /\ job' \in [Request -> Job] /\ pc'[r] = "discover" /\ job'[r] = j
      /\ \A s \in Request \ {r} : pc'[s] = pc[s] /\ job'[s] = job[s]
  <2> HIDE DEF j
  <2> QED BY <1>1, <1>2, GoType DEF TypeOK
<1>4. QED
  BY <1>1, <1>3 DEF DeleteByFolder, TypeOK, server

\* One message is stored, under the generation that was selected.
LEMMA StoreType ==
    ASSUME TypeOK, NEW r \in Request, StoreMessage(r)
    PROVE  /\ TypeOK' /\ pc[r] = "store" /\ pc'[r] \in Rebuilding
           /\ \A x \in rows' :
                x \in rows \/ x.uidvalidity = job[r].seen.uidvalidity
           /\ job'[r].seen = job[r].seen /\ job'[r].known = job[r].known
           /\ \A s \in Request \ {r} : pc'[s] = pc[s] /\ job'[s] = job[s]
<1>1. PICK e \in job[r].envelopes :
        LET row == [uidvalidity |-> job[r].seen.uidvalidity, uid |-> e.uid,
                    envelope |-> e,
                    body |-> IF \E m \in mailbox : m.uid = e.uid
                               THEN uidvalidity ELSE 0,
                    verified |-> job[r].now]
            j == [job[r] EXCEPT !.envelopes = @ \ {e}, !.keep = @ \cup {e.uid}]
        IN /\ rows' = {x \in rows : PublicId(x) # PublicId(row)} \cup {row}
           /\ Go(r, j, IF j.envelopes = {} THEN Reconcile(j) ELSE "store")
  BY DEF StoreMessage
<1> DEFINE row == [uidvalidity |-> job[r].seen.uidvalidity, uid |-> e.uid,
                   envelope |-> e,
                   body |-> IF \E m \in mailbox : m.uid = e.uid
                              THEN uidvalidity ELSE 0,
                   verified |-> job[r].now]
           j == [job[r] EXCEPT !.envelopes = @ \ {e}, !.keep = @ \cup {e.uid}]
           phase == IF j.envelopes = {} THEN Reconcile(j) ELSE "store"
<1>2. job[r] \in Job /\ uidvalidity \in Nat /\ e \in Envelope /\ e.uid \in Uid
  <2>1. job[r] \in Job /\ uidvalidity \in Nat
    BY DEF TypeOK
  <2>2. e \in Envelope
    BY <2>1 DEF Job
  <2>3. QED
    BY <2>1, <2>2 DEF Envelope
<1>3. row \in Row /\ row.uidvalidity = job[r].seen.uidvalidity
  <2>1. job[r].seen.uidvalidity \in Nat /\ job[r].now \in Nat
    BY <1>2 DEF Job, Selection
  <2>2. QED
    BY <1>2, <2>1 DEF Row
<1>4. j \in Job /\ j.seen = job[r].seen /\ j.known = job[r].known
  BY <1>2 DEF Job
<1>5. phase \in Rebuilding /\ phase \in Unlocked \cup Locked
  <2> HIDE DEF j
  <2> QED BY <1>4, NextPhase DEF Rebuilding, Selected, Locked
<1>6. /\ rows' = {x \in rows : PublicId(x) # PublicId(row)} \cup {row}
      /\ Go(r, j, phase)
  BY <1>1
<1>7. /\ pc' \in [Request -> Unlocked \cup Locked]
      /\ job' \in [Request -> Job] /\ pc'[r] = phase /\ job'[r] = j
      /\ \A s \in Request \ {r} : pc'[s] = pc[s] /\ job'[s] = job[s]
  <2> HIDE DEF j, phase
  <2> QED BY <1>4, <1>5, <1>6, GoType DEF TypeOK
<1>8. rows' \subseteq Row
      /\ \A x \in rows' : x \in rows \/ x.uidvalidity = job[r].seen.uidvalidity
  <2> HIDE DEF row
  <2> QED BY <1>3, <1>6 DEF TypeOK
<1>9. TypeOK' /\ pc[r] = "store"
  BY <1>7, <1>8 DEF StoreMessage, TypeOK, server
<1>10. QED
  <2> HIDE DEF j, phase, row
  <2> QED BY <1>4, <1>5, <1>7, <1>8, <1>9

\* Rows of one message, verified at different times.
SameMessage(x, y) ==
    PublicId(x) = PublicId(y) /\ x.uidvalidity = y.uidvalidity

\* Verification times are no business of the generations.
LEMMA VerifiedRows ==
    ASSUME rows \subseteq Row, NEW hit \in SUBSET rows, NEW t \in Nat,
           rows' = (rows \ hit) \cup Verified(hit, t)
    PROVE  /\ rows' \subseteq Row
           /\ \A x \in rows' : \E y \in rows : SameMessage(x, y)
<1>1. ASSUME NEW y \in hit
      PROVE  [y EXCEPT !.verified = t] \in Row
             /\ SameMessage([y EXCEPT !.verified = t], y)
  BY DEF Row, SameMessage, PublicId
<1>2. \A x \in Verified(hit, t) :
        x \in Row /\ \E y \in rows : SameMessage(x, y)
  BY <1>1 DEF Verified
<1>3. \A y \in rows : SameMessage(y, y)
  BY DEF SameMessage
<1>4. QED
  BY <1>2, <1>3

LEMMA FolderVerifiedType ==
    ASSUME TypeOK, NEW r \in Request, MarkFolderVerified(r)
    PROVE  /\ TypeOK' /\ pc[r] = "verify" /\ pc'[r] = "commit"
           /\ \A x \in rows' : \E y \in rows : SameMessage(x, y)
           /\ job' = job
           /\ \A s \in Request \ {r} : pc'[s] = pc[s]
<1> DEFINE hit == {x \in rows : x.uidvalidity = job[r].seen.uidvalidity}
<1>1. job[r] \in Job /\ job[r].now \in Nat /\ rows \subseteq Row
  BY DEF TypeOK, Job
<1>2. rows' = (rows \ hit) \cup Verified(hit, job[r].now)
  BY DEF MarkFolderVerified
<1>3. /\ rows' \subseteq Row
      /\ \A x \in rows' : \E y \in rows : SameMessage(x, y)
  <2>1. hit \in SUBSET rows
    OBVIOUS
  <2> HIDE DEF hit
  <2> QED BY <1>1, <1>2, <2>1, VerifiedRows
<1>4. Go(r, job[r], "commit") /\ "commit" \in Unlocked \cup Locked
  BY DEF MarkFolderVerified, Locked
<1>5. /\ pc' \in [Request -> Unlocked \cup Locked] /\ pc'[r] = "commit"
      /\ \A s \in Request \ {r} : pc'[s] = pc[s]
  BY <1>1, <1>4, GoType DEF TypeOK
<1>6. job' = job
  BY <1>4 DEF Go, TypeOK
<1>7. QED
  BY <1>3, <1>5, <1>6 DEF MarkFolderVerified, TypeOK, server

LEMMA UIDsVerifiedType ==
    ASSUME TypeOK, NEW r \in Request, MarkUIDsVerified(r)
    PROVE  /\ TypeOK' /\ pc[r] = "mark"
           /\ \A x \in rows' : \E y \in rows : SameMessage(x, y)
           /\ \A s \in Request \ {r} : pc'[s] = pc[s] /\ job'[s] = job[s]
           /\ \/ /\ pc'[r] = "prune" /\ lock' = lock
                 /\ job'[r].seen = job[r].seen /\ job'[r].known = job[r].known
              \/ pc'[r] = "idle" /\ lock' = lock \ {r}
<1> DEFINE j == [job[r] EXCEPT !.observed = {}]
           hit(done) == {x \in rows : x.uid \in done
                                /\ x.uidvalidity = j.seen.uidvalidity}
<1>1. PICK done \in SUBSET job[r].observed :
        /\ rows' = (rows \ hit(done)) \cup Verified(hit(done), j.now)
        /\ \/ Go(r, j, "prune") /\ UNCHANGED <<lock, quiet>>
           \/ Finish(r)
  BY DEF MarkUIDsVerified
<1>2. job[r] \in Job /\ rows \subseteq Row
  BY DEF TypeOK
<1>3. j \in Job /\ j.seen = job[r].seen /\ j.known = job[r].known /\ j.now \in Nat
  BY <1>2 DEF Job
<1>4. /\ rows' \subseteq Row
      /\ \A x \in rows' : \E y \in rows : SameMessage(x, y)
  <2>1. hit(done) \in SUBSET rows
    OBVIOUS
  <2> HIDE DEF hit, j
  <2> QED BY <1>1, <1>2, <1>3, <2>1, VerifiedRows
<1>5. CASE Go(r, j, "prune") /\ UNCHANGED <<lock, quiet>>
  <2>1. "prune" \in Unlocked \cup Locked
    BY DEF Locked
  <2>2. /\ pc' \in [Request -> Unlocked \cup Locked]
        /\ job' \in [Request -> Job] /\ pc'[r] = "prune" /\ job'[r] = j
        /\ \A s \in Request \ {r} : pc'[s] = pc[s] /\ job'[s] = job[s]
    <3> HIDE DEF j
    <3> QED BY <1>3, <1>5, <2>1, GoType DEF TypeOK
  <2>3. TypeOK' /\ pc[r] = "mark"
    BY <1>4, <1>5, <2>2 DEF MarkUIDsVerified, TypeOK, server
  <2>4. QED
    <3> HIDE DEF j
    <3> QED BY <1>3, <1>4, <1>5, <2>2, <2>3
<1>6. CASE Finish(r)
  <2>1. TypeOK' /\ pc[r] = "mark"
    BY <1>4, <1>6, FinishType DEF MarkUIDsVerified, TypeOK, server
  <2>2. QED
    BY <1>4, <1>6, <2>1, FinishType
<1>7. QED
  BY <1>1, <1>5, <1>6

LEMMA DeleteType ==
    ASSUME TypeOK, NEW r \in Request, DeleteMissing(r)
    PROVE  /\ TypeOK' /\ pc[r] = "prune" /\ rows' \subseteq rows
           /\ pc' = pc /\ job' = job /\ lock' = lock
BY DEF DeleteMissing, TypeOK, server, daemon

\* The state records the generation that was selected, and the cycle ends.
LEMMA CommitType ==
    ASSUME TypeOK, NEW r \in Request, UpsertFolderState(r)
    PROVE  /\ TypeOK' /\ pc[r] = "commit" /\ pc'[r] = "idle"
           /\ \A s \in folderState' : s.uidvalidity = job[r].seen.uidvalidity
           /\ lock' = lock \ {r}
           /\ \A s \in Request \ {r} : pc'[s] = pc[s] /\ job'[s] = job[s]
<1> DEFINE j == job[r]
           state == [uidvalidity |-> j.seen.uidvalidity,
                     uidnext |-> j.seen.uidnext,
                     highestmodseq |-> IF j.whole THEN j.seen.highestmodseq ELSE 0,
                     policy |-> j.policy, refreshed |-> j.now]
<1>1. j \in Job
  BY DEF TypeOK
<1>2. state \in FolderState /\ state.uidvalidity = j.seen.uidvalidity
  <2>1. /\ j.seen.uidvalidity \in Nat /\ j.seen.uidnext \in Nat
        /\ j.seen.highestmodseq \in Nat /\ j.policy \in Policy /\ j.now \in Nat
    BY <1>1 DEF Job, Selection
  <2> HIDE DEF j
  <2> QED BY <2>1 DEF FolderState
<1>3. folderState' = {state} /\ pc[r] = "commit" /\ Finish(r)
  BY DEF UpsertFolderState
<1>4. folderState' \subseteq FolderState
      /\ \A s \in folderState' : s.uidvalidity = job[r].seen.uidvalidity
  <2> HIDE DEF state
  <2> QED BY <1>2, <1>3
<1>5. TypeOK'
  <2> HIDE DEF state
  <2> QED BY <1>3, <1>4, FinishType DEF UpsertFolderState, TypeOK, server
<1>6. QED
  BY <1>3, <1>4, <1>5, FinishType

LEMMA FailType ==
    ASSUME TypeOK, NEW r \in Request, Fail(r)
    PROVE  /\ TypeOK' /\ pc[r] \in Locked \cup {"expire"} /\ pc'[r] = "idle"
           /\ rows' = rows /\ folderState' = folderState
           /\ lock' = lock \ {r}
           /\ \A s \in Request \ {r} : pc'[s] = pc[s] /\ job'[s] = job[s]
BY FinishType DEF Fail, TypeOK, server, tables

-----------------------------------------------------------------------------
(* Types *)

\* The first state: an empty cache, and any mailbox.
LEMMA InitType == Init => TypeOK
<1> SUFFICES ASSUME Init PROVE TypeOK
  OBVIOUS
<1>1. mailbox \subseteq Message /\ uidnext \in Uid
  BY NumberAssumption DEF Init, Message, Uid
<1>2. job \in [Request -> Job]
  BY NoJobType DEF Init
<1>3. QED
  BY <1>1, <1>2 DEF Init, TypeOK, Unlocked

LEMMA StepType == TypeOK /\ [Next]_vars => TypeOK'
<1> SUFFICES ASSUME TypeOK, [Next]_vars PROVE TypeOK'
  OBVIOUS
<1>1. CASE Environment \/ Crash
  BY <1>1, OutsideType
<1>2. ASSUME NEW r \in Request, Start(r) \/ Progress(r)
      PROVE  TypeOK'
  <2>1. CASE Start(r)
    BY <2>1, RequestStartType
  <2>2. CASE CleanupExpired(r) \/ Acquire(r) \/ SelectFolder(r)
    BY <2>2, CleanupType, AcquireType, SelectType
  <2>3. CASE Scan(r)
    BY <2>3, ScanType
  <2>4. CASE DeleteByFolder(r) \/ StoreMessage(r) \/ MarkUIDsVerified(r)
    BY <2>4, InvalidateType, StoreType, UIDsVerifiedType
  <2>5. CASE DeleteMissing(r) \/ MarkFolderVerified(r)
    BY <2>5, DeleteType, FolderVerifiedType
  <2>6. CASE UpsertFolderState(r) \/ Fail(r)
    BY <2>6, CommitType, FailType
  <2>7. QED
    BY <1>2, <2>1, <2>2, <2>3, <2>4, <2>5, <2>6 DEF Progress, Cycle, Scan
<1>3. CASE UNCHANGED vars
  BY <1>3 DEF vars, server, tables, daemon, TypeOK
<1>4. QED
  BY <1>1, <1>2, <1>3 DEF Next

\* Every variable keeps its type, with any number of requests in flight.
THEOREM TypeCorrect == Spec => []TypeOK
<1>1. QED
  BY InitType, StepType, PTL DEF Spec

-----------------------------------------------------------------------------
(* The mutex *)

LEMMA OutsideMutex ==
    ASSUME TypeOK, MutexOK, Environment \/ Crash
    PROVE  MutexOK'
<1>1. CASE Crash
  BY <1>1 DEF Crash, MutexOK, Locked
<1>2. CASE Environment
  <2>1. pc' = pc /\ lock' = lock
    BY <1>2 DEF Environment, Deliver, Expunge, ChangeFlags, Renumber, EditPolicy,
                Tick, Unchanged_but_server, daemon
  <2>2. QED
    BY <2>1 DEF MutexOK
<1>3. QED
  BY <1>1, <1>2

LEMMA StepMutex == TypeOK /\ MutexOK /\ [Next]_vars => MutexOK'
<1> SUFFICES ASSUME TypeOK, MutexOK, [Next]_vars PROVE MutexOK'
  OBVIOUS
<1>1. CASE Environment \/ Crash
  BY <1>1, OutsideMutex
<1>2. ASSUME NEW r \in Request, Start(r) \/ Progress(r)
      PROVE  MutexOK'
  <2> USE DEF MutexOK, Locked
  <2>1. CASE Start(r)
    BY <2>1, RequestStartType DEF Start
  <2>2. CASE CleanupExpired(r)
    BY <2>2, CleanupType DEF CleanupExpired
  <2>3. CASE Acquire(r)
    BY <2>3, AcquireType
  <2>4. CASE SelectFolder(r)
    BY <2>4, SelectType DEF SelectFolder, Selected
  <2>5. CASE Scan(r)
    BY <2>5, ScanType DEF Rebuilding, Selected
  <2>6. CASE DeleteByFolder(r)
    BY <2>6, InvalidateType DEF DeleteByFolder
  <2>7. CASE StoreMessage(r)
    BY <2>7, StoreType DEF StoreMessage, Rebuilding, Selected
  <2>8. CASE MarkUIDsVerified(r)
    BY <2>8, UIDsVerifiedType
  <2>9. CASE DeleteMissing(r)
    BY <2>9, DeleteType
  <2>10. CASE MarkFolderVerified(r)
    BY <2>10, FolderVerifiedType DEF MarkFolderVerified
  <2>11. CASE UpsertFolderState(r)
    BY <2>11, CommitType
  <2>12. CASE Fail(r)
    BY <2>12, FailType
  <2>13. QED
    BY <1>2, <2>1, <2>2, <2>3, <2>4, <2>5, <2>6, <2>7, <2>8, <2>9, <2>10,
       <2>11, <2>12 DEF Progress, Cycle, Scan
<1>3. CASE UNCHANGED vars
  BY <1>3 DEF vars, daemon, MutexOK
<1>4. QED
  BY <1>1, <1>2, <1>3 DEF Next

\* Two requests are never in a refresh cycle of the folder together, and every
\* way out of a cycle, errors and crashes included, releases the mutex.
THEOREM CyclesSerialized == Spec => []MutexOK
<1>1. Init => MutexOK
  BY DEF Init, MutexOK, Locked
<1>2. QED
  BY <1>1, StepMutex, TypeCorrect, PTL DEF Spec

-----------------------------------------------------------------------------
(* The single generation of UIDs *)

Generations == OneGeneration /\ BehindServer /\ StateBehindRows /\ RowsAsSelected

\* The arithmetic needs the numbers in the tables to be numbers.
LEMMA Numbers ==
    ASSUME TypeOK
    PROVE  /\ uidvalidity \in Nat
           /\ \A x \in rows : x.uidvalidity \in Nat
           /\ \A s \in folderState : s.uidvalidity \in Nat
           /\ \A r \in Request : /\ job[r].seen.uidvalidity \in Nat
                                 /\ \A s \in job[r].known : s.uidvalidity \in Nat
<1>1. /\ uidvalidity \in Nat /\ \A x \in rows : x.uidvalidity \in Nat
      /\ \A s \in folderState : s.uidvalidity \in Nat
  BY DEF TypeOK, Row, FolderState
<1>2. ASSUME NEW r \in Request
      PROVE  /\ job[r].seen.uidvalidity \in Nat
             /\ \A s \in job[r].known : s.uidvalidity \in Nat
  <2>1. job[r] \in Job
    BY DEF TypeOK
  <2>2. job[r].seen \in Selection /\ job[r].known \subseteq FolderState
    BY <2>1 DEF Job
  <2>3. QED
    BY <2>2 DEF Selection, FolderState
<1>3. QED
  BY <1>1, <1>2

\* A step that adds no generation to the rows and no state to the table, and
\* begins no phase of a cycle, keeps the invariant.
LEMMA NothingNew ==
    ASSUME TypeOK, TypeOK', Generations, uidvalidity <= uidvalidity',
           \A x \in rows' : \E y \in rows : x.uidvalidity = y.uidvalidity,
           folderState' \subseteq folderState,
           \A r \in Request :
             /\ pc'[r] \in Locked =>
                  pc[r] \in Locked /\ job'[r].known = job[r].known
             /\ pc'[r] \in Selected =>
                  pc[r] \in Selected /\ job'[r].seen = job[r].seen
             /\ pc'[r] \in Rebuilding => pc[r] \in Rebuilding
    PROVE  Generations'
<1>1. /\ uidvalidity' \in Nat /\ \A x \in rows' : x.uidvalidity \in Nat
      /\ \A s \in folderState' : s.uidvalidity \in Nat
  BY Numbers, TypeOK' DEF TypeOK, Row, FolderState
<1>2. OneGeneration'
  BY DEF Generations, OneGeneration
<1>3. BehindServer'
  <2>1. \A x \in rows' : x.uidvalidity <= uidvalidity'
    BY Numbers, <1>1 DEF Generations, BehindServer
  <2>2. \A s \in folderState' : s.uidvalidity <= uidvalidity'
    BY Numbers, <1>1 DEF Generations, BehindServer
  <2>3. ASSUME NEW r \in Request, pc'[r] \in Locked, NEW s \in job'[r].known
        PROVE  s.uidvalidity <= uidvalidity'
    BY Numbers, <1>1, <2>3 DEF Generations, BehindServer
  <2>4. ASSUME NEW r \in Request, pc'[r] \in Selected
        PROVE  /\ job'[r].seen.uidvalidity <= uidvalidity'
               /\ \A s \in folderState' :
                    s.uidvalidity <= job'[r].seen.uidvalidity
               /\ \A s \in job'[r].known :
                    s.uidvalidity <= job'[r].seen.uidvalidity
    <3>1. pc'[r] \in Locked
      BY <2>4 DEF Selected
    <3>2. QED
      BY Numbers, <1>1, <2>4, <3>1 DEF Generations, BehindServer
  <2>5. QED
    BY <2>1, <2>2, <2>3, <2>4 DEF BehindServer
<1>4. StateBehindRows'
  BY Numbers, <1>1 DEF Generations, StateBehindRows
<1>5. RowsAsSelected'
  <2>1. ASSUME NEW r \in Request, pc'[r] \in Rebuilding, NEW x \in rows'
        PROVE  x.uidvalidity = job'[r].seen.uidvalidity
    <3>1. pc'[r] \in Selected
      BY <2>1 DEF Rebuilding
    <3>2. QED
      BY <2>1, <3>1 DEF Generations, RowsAsSelected
  <2>2. QED
    BY <2>1 DEF RowsAsSelected
<1>6. QED
  BY <1>2, <1>3, <1>4, <1>5 DEF Generations

\* Nobody else is in a cycle while a request holds the mutex.
LEMMA Alone ==
    ASSUME TypeOK, MutexOK, NEW r \in Request, pc[r] \in Locked
    PROVE  \A s \in Request \ {r} : pc[s] \notin Locked
BY DEF MutexOK

LEMMA OutsideGenerations ==
    ASSUME TypeOK, Generations, Environment \/ Crash
    PROVE  Generations'
<1>1. TypeOK'
  BY OutsideType
<1>2. /\ uidvalidity <= uidvalidity'
      /\ rows' = rows /\ folderState' = folderState
  BY Numbers DEF Environment, Crash, Deliver, Expunge, ChangeFlags, Renumber,
       EditPolicy, Tick, Unchanged_but_server, server, tables
<1>3. \A r \in Request : \/ pc'[r] = "idle"
                         \/ pc'[r] = pc[r] /\ job'[r] = job[r]
  BY DEF Environment, Crash, Deliver, Expunge, ChangeFlags, Renumber,
       EditPolicy, Tick, Unchanged_but_server, daemon
<1>4. "idle" \notin Locked
  BY DEF Locked
<1>5. QED
  BY <1>1, <1>2, <1>3, <1>4, NothingNew DEF Rebuilding, Selected

\* The steps of a request that bring no generation in.
LEMMA PlainGenerations ==
    ASSUME TypeOK, MutexOK, Generations, NEW r \in Request,
           \/ Start(r) \/ CleanupExpired(r) \/ Scan(r) \/ MarkUIDsVerified(r)
           \/ MarkFolderVerified(r) \/ DeleteMissing(r) \/ Fail(r)
    PROVE  Generations'
<1> USE DEF server, tables, Locked, Selected, Rebuilding
<1>1. CASE Start(r)
  <2>1. uidvalidity' = uidvalidity /\ rows' = rows /\ folderState' = folderState
    BY <1>1 DEF Start
  <2>2. QED
    BY <1>1, <2>1, Numbers, RequestStartType, NothingNew
<1>2. CASE CleanupExpired(r)
  <2>1. uidvalidity' = uidvalidity
    BY <1>2 DEF CleanupExpired
  <2>2. QED
    BY <1>2, <2>1, Numbers, CleanupType, NothingNew
<1>3. CASE Scan(r)
  <2>1. uidvalidity' = uidvalidity /\ rows' = rows /\ folderState' = folderState
    BY <1>3, ScanType
  <2>2. QED
    BY <1>3, <2>1, Numbers, ScanType, NothingNew
<1>4. CASE MarkUIDsVerified(r)
  <2>1. uidvalidity' = uidvalidity /\ folderState' = folderState
    BY <1>4 DEF MarkUIDsVerified
  <2>2. QED
    BY <1>4, <2>1, Numbers, UIDsVerifiedType, NothingNew DEF SameMessage
<1>5. CASE MarkFolderVerified(r)
  <2>1. uidvalidity' = uidvalidity /\ folderState' = folderState
    BY <1>5 DEF MarkFolderVerified
  <2>2. QED
    BY <1>5, <2>1, Numbers, FolderVerifiedType, NothingNew DEF SameMessage
<1>6. CASE DeleteMissing(r)
  <2>1. uidvalidity' = uidvalidity /\ folderState' = folderState
    BY <1>6 DEF DeleteMissing
  <2>2. QED
    BY <1>6, <2>1, Numbers, DeleteType, NothingNew
<1>7. CASE Fail(r)
  <2>1. uidvalidity' = uidvalidity
    BY <1>7 DEF Fail
  <2>2. QED
    BY <1>7, <2>1, Numbers, FailType, NothingNew
<1>8. QED
  BY <1>1, <1>2, <1>3, <1>4, <1>5, <1>6, <1>7

\* A cycle begins with what the table says, which is behind the rows.
LEMMA AcquireGenerations ==
    ASSUME TypeOK, MutexOK, Generations, NEW r \in Request, Acquire(r)
    PROVE  Generations'
<1>1. /\ uidvalidity' = uidvalidity /\ rows' = rows
      /\ folderState' = folderState
  BY DEF Acquire, server, tables
<1>2. /\ pc'[r] = "select" /\ job'[r].known = folderState
      /\ \A s \in Request \ {r} : pc'[s] = pc[s] /\ job'[s] = job[s]
  BY AcquireType
<1>3. OneGeneration'
  BY <1>1 DEF Generations, OneGeneration
<1>4. BehindServer'
  BY <1>1, <1>2 DEF Generations, BehindServer, Selected
<1>5. StateBehindRows'
  BY <1>1, <1>2 DEF Generations, StateBehindRows
<1>6. RowsAsSelected'
  BY <1>1, <1>2 DEF Generations, RowsAsSelected, Rebuilding, Selected
<1>7. QED
  BY <1>3, <1>4, <1>5, <1>6 DEF Generations

\* The rows are between the known state and the server: when the two agree
\* the rows are of the generation selected, and need no invalidation.
LEMMA SelectGenerations ==
    ASSUME TypeOK, MutexOK, Generations, NEW r \in Request, SelectFolder(r)
    PROVE  Generations'
<1>1. /\ uidvalidity' = uidvalidity /\ rows' = rows
      /\ folderState' = folderState
  BY DEF SelectFolder, server, tables
<1>2. /\ pc[r] = "select" /\ pc'[r] \in Selected
      /\ job'[r].seen.uidvalidity = uidvalidity
      /\ job'[r].known = job[r].known
      /\ \/ pc'[r] = "invalidate"
         \/ \E s \in job[r].known : s.uidvalidity = uidvalidity
      /\ \A s \in Request \ {r} : pc'[s] = pc[s] /\ job'[s] = job[s]
  BY SelectType
<1>3. pc[r] \in Locked /\ pc'[r] \in Locked
  BY <1>2 DEF Locked, Selected
<1>4. OneGeneration'
  BY <1>1 DEF Generations, OneGeneration
<1>5. BehindServer'
  BY <1>1, <1>2, <1>3, Numbers DEF Generations, BehindServer
<1>6. StateBehindRows'
  BY <1>1, <1>2, <1>3 DEF Generations, StateBehindRows
<1>7. RowsAsSelected'
  <2>1. ASSUME pc'[r] \in Rebuilding, NEW x \in rows
        PROVE  x.uidvalidity = uidvalidity
    <3>1. PICK s \in job[r].known : s.uidvalidity = uidvalidity
      BY <1>2, <2>1 DEF Rebuilding
    <3>2. s.uidvalidity <= x.uidvalidity
      BY <1>3, <3>1 DEF Generations, StateBehindRows
    <3>3. x.uidvalidity <= uidvalidity
      BY DEF Generations, BehindServer
    <3>4. QED
      BY <3>1, <3>2, <3>3, Numbers
  <2>2. QED
    BY <1>1, <1>2, <2>1 DEF Generations, RowsAsSelected
<1>8. QED
  BY <1>4, <1>5, <1>6, <1>7 DEF Generations

\* Without rows there is nothing to disagree.
LEMMA InvalidateGenerations ==
    ASSUME TypeOK, MutexOK, Generations, NEW r \in Request, DeleteByFolder(r)
    PROVE  Generations'
<1>1. uidvalidity' = uidvalidity /\ folderState' = folderState
  BY DEF DeleteByFolder, server
<1>2. /\ pc[r] = "invalidate" /\ pc'[r] = "discover"
      /\ rows' = {} /\ job'[r].known = {} /\ job'[r].seen = job[r].seen
      /\ \A s \in Request \ {r} : pc'[s] = pc[s] /\ job'[s] = job[s]
  BY InvalidateType
<1>3. pc[r] \in Selected
  BY <1>2 DEF Selected, Locked
<1>4. BehindServer'
  BY <1>1, <1>2, <1>3 DEF Generations, BehindServer
<1>5. QED
  BY <1>2, <1>4 DEF Generations, OneGeneration, StateBehindRows, RowsAsSelected

\* A stored row is of the generation selected, as the others are by then.
LEMMA StoreGenerations ==
    ASSUME TypeOK, MutexOK, Generations, NEW r \in Request, StoreMessage(r)
    PROVE  Generations'
<1>1. uidvalidity' = uidvalidity /\ folderState' = folderState
  BY DEF StoreMessage, server
<1>2. /\ pc[r] = "store" /\ pc'[r] \in Rebuilding
      /\ \A x \in rows' : x \in rows \/ x.uidvalidity = job[r].seen.uidvalidity
      /\ job'[r].seen = job[r].seen /\ job'[r].known = job[r].known
      /\ \A s \in Request \ {r} : pc'[s] = pc[s] /\ job'[s] = job[s]
  BY StoreType
<1>3. pc[r] \in Locked /\ pc[r] \in Selected /\ pc[r] \in Rebuilding
  BY <1>2 DEF Rebuilding, Selected, Locked
<1>4. \A x \in rows' : x.uidvalidity = job[r].seen.uidvalidity
  BY <1>2, <1>3 DEF Generations, RowsAsSelected
<1>5. \A s \in Request \ {r} : pc'[s] \notin Locked
  BY <1>2, <1>3, Alone
<1>6. OneGeneration'
  BY <1>4 DEF OneGeneration
<1>7. BehindServer'
  BY <1>1, <1>2, <1>3, <1>4 DEF Generations, BehindServer
<1>8. StateBehindRows'
  BY <1>1, <1>2, <1>3, <1>4, <1>5 DEF Generations, StateBehindRows, BehindServer
<1>9. RowsAsSelected'
  BY <1>2, <1>4, <1>5 DEF RowsAsSelected, Rebuilding, Selected
<1>10. QED
  BY <1>6, <1>7, <1>8, <1>9 DEF Generations

\* The state written is of the generation of the rows.
LEMMA CommitGenerations ==
    ASSUME TypeOK, MutexOK, Generations, NEW r \in Request, UpsertFolderState(r)
    PROVE  Generations'
<1>1. uidvalidity' = uidvalidity /\ rows' = rows
  BY DEF UpsertFolderState, server
<1>2. /\ pc[r] = "commit" /\ pc'[r] = "idle"
      /\ \A s \in folderState' : s.uidvalidity = job[r].seen.uidvalidity
      /\ \A s \in Request \ {r} : pc'[s] = pc[s] /\ job'[s] = job[s]
  BY CommitType
<1>3. pc[r] \in Locked /\ pc[r] \in Selected /\ pc[r] \in Rebuilding
  BY <1>2 DEF Rebuilding, Selected, Locked
<1>4. \A s \in Request : pc'[s] \notin Locked
  BY <1>2, <1>3, Alone DEF Locked
<1>5. \A x \in rows : x.uidvalidity = job[r].seen.uidvalidity
  BY <1>3 DEF Generations, RowsAsSelected
<1>6. OneGeneration'
  BY <1>1 DEF Generations, OneGeneration
<1>7. BehindServer'
  BY <1>1, <1>2, <1>3, <1>4 DEF Generations, BehindServer, Selected
<1>8. StateBehindRows'
  BY <1>1, <1>2, <1>4, <1>5, Numbers DEF StateBehindRows
<1>9. RowsAsSelected'
  BY <1>4 DEF RowsAsSelected, Rebuilding, Selected
<1>10. QED
  BY <1>6, <1>7, <1>8, <1>9 DEF Generations

LEMMA StepGenerations ==
    TypeOK /\ MutexOK /\ Generations /\ [Next]_vars => Generations'
<1> SUFFICES ASSUME TypeOK, MutexOK, Generations, [Next]_vars
             PROVE  Generations'
  OBVIOUS
<1>1. CASE Environment \/ Crash
  BY <1>1, OutsideGenerations
<1>2. ASSUME NEW r \in Request, Start(r) \/ Progress(r)
      PROVE  Generations'
  BY <1>2, PlainGenerations, AcquireGenerations, SelectGenerations,
     InvalidateGenerations, StoreGenerations, CommitGenerations
     DEF Progress, Cycle, Scan
<1>3. CASE UNCHANGED vars
  BY <1>3 DEF vars, server, tables, daemon, Generations, OneGeneration,
              BehindServer, StateBehindRows, RowsAsSelected
<1>4. QED
  BY <1>1, <1>2, <1>3 DEF Next

LEMMA GenerationsInvariant == Spec => []GenerationInv
<1>1. Init => Generations
  BY DEF Init, Generations, OneGeneration, BehindServer, StateBehindRows,
         RowsAsSelected, Locked, Selected, Rebuilding
<1>2. Spec => []Generations
  BY <1>1, StepGenerations, TypeCorrect, CyclesSerialized, PTL DEF Spec
<1>3. TypeOK /\ MutexOK /\ Generations => GenerationInv
  BY DEF Generations, GenerationInv
<1>4. QED
  BY <1>2, <1>3, TypeCorrect, CyclesSerialized, PTL

\* The cache never holds rows of two generations of UIDs, so a UID alone names
\* a row: through renumbering of the folder, failures and crashes at any step
\* of a cycle, and purges beside it.
THEOREM CacheHoldsOneGeneration == Spec => []OneGeneration
<1>1. GenerationInv => OneGeneration
  BY DEF GenerationInv
<1>2. QED
  BY <1>1, GenerationsInvariant, PTL

-----------------------------------------------------------------------------
(* The cache implements the mirror *)

Held == {PublicId(x) : x \in rows}
Claimed == {s.uidvalidity : s \in folderState}

\* A step that only takes rows away, or changes nothing in the tables.
LEMMA OnlyForgets ==
    ASSUME uidvalidity' = uidvalidity,
           \A x \in rows' : \E y \in rows : PublicId(x) = PublicId(y),
           folderState' = folderState \/ (folderState' = {} /\ rows' = {})
    PROVE  Mirror!Next
<1>1. Held' \subseteq Held
  BY DEF Held
<1>2. Claimed' = Claimed \/ (Held' = {} /\ Claimed' = {})
  BY DEF Held, Claimed
<1>3. Mirror!Forget
  BY <1>1, <1>2 DEF Mirror!Forget, Held, Claimed
<1>4. QED
  BY <1>3 DEF Mirror!Next

\* The server and the owner: the mirror sees only that the mailbox is renumbered.
LEMMA OutsideMirror ==
    ASSUME TypeOK, Environment \/ Crash
    PROVE  Mirror!Next
<1>1. rows' = rows /\ folderState' = folderState
  BY DEF Environment, Crash, Deliver, Expunge, ChangeFlags, Renumber,
       EditPolicy, Tick, Unchanged_but_server, tables
<1>2. CASE uidvalidity' = uidvalidity
  BY <1>1, <1>2, OnlyForgets
<1>3. CASE uidvalidity' # uidvalidity
  <2>1. Renumber
    BY <1>3 DEF Environment, Crash, Deliver, Expunge, ChangeFlags,
         EditPolicy, Tick, Unchanged_but_server, server
  <2>2. Mirror!Renumber
    BY <1>1, <2>1 DEF Renumber, Mirror!Renumber
  <2>3. QED
    BY <2>2 DEF Mirror!Next
<1>4. QED
  BY <1>2, <1>3

\* A stored message joins others of its own generation.
LEMMA StoreMirror ==
    ASSUME TypeOK, Generations, NEW r \in Request, StoreMessage(r)
    PROVE  Mirror!Next
<1>1. PICK e \in job[r].envelopes :
        LET row == [uidvalidity |-> job[r].seen.uidvalidity, uid |-> e.uid,
                    envelope |-> e,
                    body |-> IF \E m \in mailbox : m.uid = e.uid
                               THEN uidvalidity ELSE 0,
                    verified |-> job[r].now]
        IN rows' = {x \in rows : PublicId(x) # PublicId(row)} \cup {row}
  BY DEF StoreMessage
<1> DEFINE row == [uidvalidity |-> job[r].seen.uidvalidity, uid |-> e.uid,
                   envelope |-> e,
                   body |-> IF \E m \in mailbox : m.uid = e.uid
                              THEN uidvalidity ELSE 0,
                   verified |-> job[r].now]
<1> DEFINE id == <<job[r].seen.uidvalidity, e.uid>>
<1>2. pc[r] = "store" /\ pc[r] \in Locked /\ pc[r] \in Selected
      /\ pc[r] \in Rebuilding
  BY StoreType DEF Locked, Selected, Rebuilding
<1>3. id \in Nat \X Nat
  <2>1. job[r] \in Job
    BY DEF TypeOK
  <2>2. job[r].seen \in Selection /\ e \in Envelope
    BY <2>1 DEF Job
  <2>3. QED
    BY <2>2 DEF Selection, Envelope, Uid
<1>4. \A h \in Held : h[1] = id[1]
  BY <1>2 DEF Held, PublicId, Generations, RowsAsSelected
<1>5. (\A g \in Claimed : g <= id[1]) /\ id[1] <= uidvalidity
  BY <1>2 DEF Claimed, Generations, BehindServer
<1>6. PublicId(row) = id
  BY DEF PublicId
<1>7. Held' = Held \cup {id}
  <2>1. rows' = {x \in rows : PublicId(x) # PublicId(row)} \cup {row}
    BY <1>1
  <2> HIDE DEF row, id
  <2> QED BY <1>6, <2>1 DEF Held
<1>8. Claimed' = Claimed /\ uidvalidity' = uidvalidity
  BY DEF StoreMessage, Claimed, server
<1>9. Mirror!Store(id)
  BY <1>3, <1>4, <1>5, <1>7, <1>8
     DEF Mirror!Store, Mirror!Id, Held, Claimed
<1>10. id \in Held'
  BY <1>7
<1>11. QED
  BY <1>9, <1>10 DEF Mirror!Next, Held

\* A cycle claims the generation it selected, which its rows are of.
LEMMA CommitMirror ==
    ASSUME TypeOK, Generations, NEW r \in Request, UpsertFolderState(r)
    PROVE  Mirror!Next
<1>1. PICK g \in Nat : g = job[r].seen.uidvalidity
  BY Numbers
<1>2. /\ pc[r] = "commit" /\ pc[r] \in Locked /\ pc[r] \in Selected
      /\ pc[r] \in Rebuilding
  BY CommitType DEF Locked, Selected, Rebuilding
<1>3. uidvalidity' = uidvalidity /\ rows' = rows
  BY DEF UpsertFolderState, server
<1>4. Claimed' = {g}
  BY <1>1 DEF UpsertFolderState, Claimed
<1>5. \A h \in Held : h[1] = g
  BY <1>1, <1>2 DEF Held, PublicId, Generations, RowsAsSelected
<1>6. (\A c \in Claimed : c <= g) /\ g <= uidvalidity
  BY <1>1, <1>2 DEF Claimed, Generations, BehindServer
<1>7. Mirror!Claim(g)
  BY <1>3, <1>4, <1>5, <1>6 DEF Mirror!Claim, Held, Claimed
<1>8. g \in Claimed'
  BY <1>4
<1>9. QED
  BY <1>7, <1>8 DEF Mirror!Next, Claimed

LEMMA StepMirror ==
    TypeOK /\ Generations /\ [Next]_vars => [Mirror!Next]_(Mirror!vars)
<1> SUFFICES ASSUME TypeOK, Generations, [Next]_vars
             PROVE  [Mirror!Next]_(Mirror!vars)
  OBVIOUS
<1>1. CASE Environment \/ Crash
  BY <1>1, OutsideMirror
<1>2. ASSUME NEW r \in Request, Start(r) \/ Progress(r)
      PROVE  Mirror!Next
  <2>1. CASE Start(r) \/ Acquire(r) \/ SelectFolder(r) \/ Scan(r) \/ Fail(r)
    <3>1. uidvalidity' = uidvalidity /\ rows' = rows /\ folderState' = folderState
      BY <2>1, ScanType DEF Start, Acquire, SelectFolder, Fail, server, tables
    <3>2. QED
      BY <3>1, OnlyForgets
  <2>2. CASE CleanupExpired(r)
    <3>1. /\ uidvalidity' = uidvalidity
          /\ folderState' = folderState \/ (folderState' = {} /\ rows' = {})
      BY <2>2 DEF CleanupExpired, server
    <3>2. QED
      BY <2>2, <3>1, CleanupType, OnlyForgets
  <2>3. CASE DeleteByFolder(r)
    BY <2>3, OnlyForgets DEF DeleteByFolder, server
  <2>4. CASE StoreMessage(r)
    BY <2>4, StoreMirror
  <2>5. CASE MarkUIDsVerified(r)
    <3>1. uidvalidity' = uidvalidity /\ folderState' = folderState
      BY <2>5 DEF MarkUIDsVerified, server
    <3>2. QED
      BY <2>5, <3>1, UIDsVerifiedType, OnlyForgets DEF SameMessage
  <2>6. CASE MarkFolderVerified(r)
    <3>1. uidvalidity' = uidvalidity /\ folderState' = folderState
      BY <2>6 DEF MarkFolderVerified, server
    <3>2. QED
      BY <2>6, <3>1, FolderVerifiedType, OnlyForgets DEF SameMessage
  <2>7. CASE DeleteMissing(r)
    <3>1. uidvalidity' = uidvalidity /\ folderState' = folderState
      BY <2>7 DEF DeleteMissing, server
    <3>2. QED
      BY <2>7, <3>1, DeleteType, OnlyForgets
  <2>8. CASE UpsertFolderState(r)
    BY <2>8, CommitMirror
  <2>9. QED
    BY <1>2, <2>1, <2>2, <2>3, <2>4, <2>5, <2>6, <2>7, <2>8
       DEF Progress, Cycle, Scan
<1>3. CASE UNCHANGED vars
  BY <1>3 DEF vars, server, tables, Mirror!vars
<1>4. QED
  BY <1>1, <1>2, <1>3 DEF Next

\* The two tables are a mirror of the folder in every behaviour, whatever
\* requests, failures, crashes and other clients do: each step is a step of
\* FolderMirror, or none.  The two theorems of FolderMirrorProofs then hold of the
\* cache.
THEOREM CacheIsMirror == Spec => ImplementsMirror
<1>1. Init => Mirror!Init
  BY DEF Init, Mirror!Init
<1>2. GenerationInv => TypeOK /\ Generations
  BY DEF GenerationInv, Generations
<1>3. QED
  BY <1>1, <1>2, StepMirror, GenerationsInvariant, PTL
     DEF Spec, ImplementsMirror, Mirror!Spec

-----------------------------------------------------------------------------
(* Where a step leads *)

\* What is left to do after a scan is neither to fetch nor to store, except
\* under the full policy.
LEMMA NextIsNoFetch ==
    ASSUME NEW j \in Job
    PROVE  /\ Reconcile(j) \notin {"envelopes", "store"}
           /\ Gate(j) # "store" /\ Sift(j) # "store"
           /\ ~j.policy.full => Gate(j) # "envelopes" /\ Sift(j) # "envelopes"
<1>1. Reconcile(j) \notin {"envelopes", "store"}
  BY DEF Reconcile
<1>2. Gate(j) # "store" /\ (~j.policy.full => Gate(j) # "envelopes")
  BY <1>1 DEF Gate
<1>3. QED
  BY <1>1, <1>2 DEF Sift

\* The candidates of a scan are a matter of no other local.
LEMMA DiscoveredKeeps ==
    ASSUME NEW j \in Job, NEW uids \in SUBSET Uid
    PROVE  /\ Discovered(j, uids).policy = j.policy
           /\ Discovered(j, uids).now = j.now
           /\ Discovered(j, uids).seen = j.seen
BY DEF Discovered, Job

\* The locals that a cycle reads once.
Keeps(r) == /\ job'[r].policy = job[r].policy
            /\ job'[r].now = job[r].now
            /\ job'[r].seen = job[r].seen

\* Setting the place and the locals of a request.
LEMMA GoSets ==
    ASSUME TypeOK, NEW r \in Request, NEW j, NEW phase, Go(r, j, phase)
    PROVE  /\ pc'[r] = phase /\ job'[r] = j
           /\ \A s \in Request \ {r} : pc'[s] = pc[s] /\ job'[s] = job[s]
BY DEF Go, TypeOK

\* A scan before the gate leads past it only under the full policy.
LEMMA ScanBeforeGate ==
    ASSUME TypeOK, NEW r \in Request,
           ListUIDs(r) \/ SearchAllowed(r) \/ UncachedUIDs(r) \/ NoneMissing(r)
    PROVE  /\ Keeps(r) /\ pc'[r] # "store"
           /\ ~job[r].policy.full => pc'[r] # "envelopes"
<1>0. job[r] \in Job /\ mailbox \subseteq Message
  BY DEF TypeOK
<1>1. CASE ListUIDs(r)
  <2> DEFINE uids == {m.uid : m \in {n \in mailbox : InScope(job[r], n.uid)}}
             base == [job[r] EXCEPT !.queries = {}]
             j == Discovered(base, uids)
  <2>1. uids \in SUBSET Uid
    BY <1>0 DEF Message
  <2>2. base \in Job /\ base.seen = job[r].seen /\ base.now = job[r].now
        /\ base.policy = job[r].policy
    BY <1>0 DEF Job
  <2>3. j \in Job /\ j.seen = job[r].seen /\ j.now = job[r].now
        /\ j.policy = job[r].policy
    <3> HIDE DEF base, uids
    <3> QED BY <2>1, <2>2, DiscoveredType, DiscoveredKeeps
  <2>4. Go(r, j, Sift(j))
    BY <1>1 DEF ListUIDs
  <2>5. QED
    <3> HIDE DEF j
    <3> QED BY <2>3, <2>4, GoSets, NextIsNoFetch DEF Keeps
<1>2. CASE SearchAllowed(r)
  <2>1. PICK q \in job[r].queries :
          LET hits == {m.uid : m \in {n \in mailbox :
                         InScope(job[r], n.uid) /\ n.kind \in HitBy[q]}}
              uids == job[r].candidates \cup hits
              left == [job[r] EXCEPT !.queries = @ \ {q}, !.candidates = uids]
              j    == Discovered(left, uids)
          IN IF left.queries # {} THEN Go(r, left, "discover")
                                  ELSE Go(r, j, Sift(j))
    BY <1>2 DEF SearchAllowed
  <2> DEFINE hits == {m.uid : m \in {n \in mailbox :
                        InScope(job[r], n.uid) /\ n.kind \in HitBy[q]}}
             uids == job[r].candidates \cup hits
             left == [job[r] EXCEPT !.queries = @ \ {q}, !.candidates = uids]
             j    == Discovered(left, uids)
  <2>2. uids \in SUBSET Uid
    <3>1. hits \in SUBSET Uid
      BY <1>0 DEF Message
    <3> HIDE DEF hits
    <3> QED BY <1>0, <3>1 DEF Job
  <2>3. left \in Job /\ left.seen = job[r].seen /\ left.now = job[r].now
        /\ left.policy = job[r].policy
    <3> HIDE DEF uids
    <3> QED BY <1>0, <2>2 DEF Job
  <2>4. j \in Job /\ j.seen = job[r].seen /\ j.now = job[r].now
        /\ j.policy = job[r].policy
    <3> HIDE DEF left, uids
    <3> QED BY <2>2, <2>3, DiscoveredType, DiscoveredKeeps
  <2>5. Go(r, left, "discover") \/ Go(r, j, Sift(j))
    BY <2>1
  <2>6. QED
    <3> HIDE DEF left, j
    <3> QED BY <2>3, <2>4, <2>5, GoSets, NextIsNoFetch DEF Keeps
<1>3. CASE UncachedUIDs(r)
  <2> DEFINE held == job[r].candidates \cap {x.uid : x \in rows}
             j == [job[r] EXCEPT !.fetch = @ \ held, !.keep = held,
                                 !.observed = held]
  <2>1. held \in SUBSET Uid
    BY <1>0 DEF Job
  <2>2. j \in Job /\ j.seen = job[r].seen /\ j.now = job[r].now
        /\ j.policy = job[r].policy
    <3> HIDE DEF held
    <3> QED BY <1>0, <2>1 DEF Job
  <2>3. Go(r, j, Gate(j))
    BY <1>3 DEF UncachedUIDs
  <2>4. QED
    <3> HIDE DEF j
    <3> QED BY <2>2, <2>3, GoSets, NextIsNoFetch DEF Keeps
<1>4. CASE NoneMissing(r)
  <2>1. PICK phase \in {"verify", "commit"} : Go(r, job[r], phase)
    BY <1>4 DEF NoneMissing
  <2>2. QED
    BY <2>1, GoSets DEF Keeps
<1>5. QED
  BY <1>1, <1>2, <1>3, <1>4

\* The gate lets through the UIDs of approved messages.
LEMMA GateFilters ==
    ASSUME TypeOK, NEW r \in Request, PolicyAllowedUIDs(r)
    PROVE  /\ Keeps(r) /\ pc'[r] # "store"
           /\ job'[r].fetch = {m.uid : m \in {n \in mailbox :
                n.uid \in job[r].fetch /\ Approved(job[r].policy, n.kind)}}
<1> DEFINE allowed == {m.uid : m \in {n \in mailbox :
              n.uid \in job[r].fetch /\ Approved(job[r].policy, n.kind)}}
           j == [job[r] EXCEPT !.fetch = allowed]
           phase == IF allowed = {} THEN Reconcile(j) ELSE "envelopes"
<1>1. job[r] \in Job /\ allowed \in SUBSET Uid
  BY DEF TypeOK, Message
<1>2. j \in Job /\ j.seen = job[r].seen /\ j.now = job[r].now
      /\ j.policy = job[r].policy /\ j.fetch = allowed
  <2> HIDE DEF allowed
  <2> QED BY <1>1 DEF Job
<1>3. Go(r, j, phase)
  BY DEF PolicyAllowedUIDs
<1>4. phase # "store"
  <2> HIDE DEF j, allowed
  <2> QED BY <1>2, NextIsNoFetch
<1>5. pc'[r] = phase /\ job'[r] = j
  <2> HIDE DEF j, phase
  <2> QED BY <1>3, GoSets
<1>6. QED
  <2> HIDE DEF j, phase
  <2> QED BY <1>2, <1>4, <1>5 DEF Keeps

\* Envelopes are of messages whose UIDs passed the gate, as they are now.
LEMMA FetchBrings ==
    ASSUME TypeOK, NEW r \in Request, FetchEnvelopes(r)
    PROVE  /\ Keeps(r) /\ pc[r] = "envelopes" /\ pc'[r] # "envelopes"
           /\ \A e \in job'[r].envelopes :
                /\ e.from = uidvalidity
                /\ \E m \in mailbox : m.uid \in job[r].fetch /\ m.kind = e.kind
<1> DEFINE envelopes == {[uid |-> m.uid, kind |-> m.kind,
                          modseq |-> m.modseq, from |-> uidvalidity] :
                           m \in {n \in mailbox : n.uid \in job[r].fetch}}
           j == [job[r] EXCEPT !.fetch = {}, !.envelopes = envelopes]
           phase == IF envelopes = {} THEN Reconcile(j) ELSE "store"
<1>1. job[r] \in Job /\ envelopes \in SUBSET Envelope
  BY DEF TypeOK, Message, Envelope
<1>2. j \in Job /\ j.seen = job[r].seen /\ j.now = job[r].now
      /\ j.policy = job[r].policy /\ j.envelopes = envelopes
  <2> HIDE DEF envelopes
  <2> QED BY <1>1 DEF Job
<1>3. Go(r, j, phase) /\ pc[r] = "envelopes"
  BY DEF FetchEnvelopes
<1>4. phase # "envelopes"
  <2> HIDE DEF j, envelopes
  <2> QED BY <1>2, NextIsNoFetch
<1>5. pc'[r] = phase /\ job'[r] = j
  <2> HIDE DEF j, phase
  <2> QED BY <1>3, GoSets
<1>6. \A e \in envelopes :
        /\ e.from = uidvalidity
        /\ \E m \in mailbox : m.uid \in job[r].fetch /\ m.kind = e.kind
  OBVIOUS
<1>7. QED
  <2> HIDE DEF j, phase, envelopes
  <2> QED BY <1>2, <1>3, <1>4, <1>5, <1>6 DEF Keeps

\* What one step of the loop stores.
Stored(r, e) == [uidvalidity |-> job[r].seen.uidvalidity, uid |-> e.uid,
                 envelope |-> e,
                 body |-> IF \E m \in mailbox : m.uid = e.uid
                            THEN uidvalidity ELSE 0,
                 verified |-> job[r].now]

LEMMA StoreBrings ==
    ASSUME TypeOK, NEW r \in Request, StoreMessage(r)
    PROVE  /\ Keeps(r) /\ pc[r] = "store" /\ pc'[r] # "envelopes"
           /\ job'[r].envelopes \subseteq job[r].envelopes
           /\ \E e \in job[r].envelopes :
                \A x \in rows' : x \in rows \/ x = Stored(r, e)
<1>1. PICK e \in job[r].envelopes :
        LET row == [uidvalidity |-> job[r].seen.uidvalidity, uid |-> e.uid,
                    envelope |-> e,
                    body |-> IF \E m \in mailbox : m.uid = e.uid
                               THEN uidvalidity ELSE 0,
                    verified |-> job[r].now]
            j == [job[r] EXCEPT !.envelopes = @ \ {e}, !.keep = @ \cup {e.uid}]
        IN /\ rows' = {x \in rows : PublicId(x) # PublicId(row)} \cup {row}
           /\ Go(r, j, IF j.envelopes = {} THEN Reconcile(j) ELSE "store")
  BY DEF StoreMessage
<1> DEFINE j == [job[r] EXCEPT !.envelopes = @ \ {e}, !.keep = @ \cup {e.uid}]
           phase == IF j.envelopes = {} THEN Reconcile(j) ELSE "store"
<1>2. job[r] \in Job /\ e.uid \in Uid
  <2>1. job[r] \in Job
    BY DEF TypeOK
  <2>2. e \in Envelope
    BY <2>1 DEF Job
  <2>3. QED
    BY <2>1, <2>2 DEF Envelope
<1>3. j \in Job /\ j.seen = job[r].seen /\ j.now = job[r].now
      /\ j.policy = job[r].policy /\ j.envelopes \subseteq job[r].envelopes
  BY <1>2 DEF Job
<1>4. phase # "envelopes"
  <2> HIDE DEF j
  <2> QED BY <1>3, NextIsNoFetch
<1>5. pc'[r] = phase /\ job'[r] = j
  <2>1. Go(r, j, phase)
    BY <1>1
  <2> HIDE DEF j, phase
  <2> QED BY <2>1, GoSets
<1>6. \A x \in rows' : x \in rows \/ x = Stored(r, e)
  BY <1>1 DEF Stored
<1>7. pc[r] = "store"
  BY DEF StoreMessage
<1>8. QED
  <2> HIDE DEF j, phase
  <2> QED BY <1>3, <1>4, <1>5, <1>6, <1>7 DEF Keeps

\* Rows that differ in their verification time only.
SameContent(x, y) == /\ x.uidvalidity = y.uidvalidity
                     /\ x.envelope = y.envelope /\ x.body = y.body

\* A verification changes no content.
LEMMA VerifiedContent ==
    ASSUME rows \subseteq Row, NEW hit \in SUBSET rows, NEW t \in Nat,
           rows' = (rows \ hit) \cup Verified(hit, t)
    PROVE  \A x \in rows' : \E y \in rows : SameContent(x, y)
<1>1. \A y \in hit : SameContent([y EXCEPT !.verified = t], y)
  BY DEF Row, SameContent
<1>2. \A x \in Verified(hit, t) : \E y \in rows : SameContent(x, y)
  BY <1>1 DEF Verified
<1>3. \A y \in rows : SameContent(y, y)
  BY DEF SameContent
<1>4. QED
  BY <1>2, <1>3

\* The steps that neither scan nor store.
Plain(r) == \/ Start(r) \/ CleanupExpired(r) \/ Acquire(r) \/ SelectFolder(r)
            \/ DeleteByFolder(r) \/ MarkUIDsVerified(r) \/ DeleteMissing(r)
            \/ MarkFolderVerified(r) \/ UpsertFolderState(r) \/ Fail(r)

LEMMA PlainPhase ==
    ASSUME TypeOK, NEW r \in Request, Plain(r)
    PROVE  /\ pc'[r] \notin {"envelopes", "store"}
           /\ \A s \in Request \ {r} : pc'[s] = pc[s] /\ job'[s] = job[s]
           /\ UNCHANGED server /\ clock' = clock
<1>1. CASE Start(r)
  BY <1>1, RequestStartType DEF Start
<1>2. CASE CleanupExpired(r)
  BY <1>2, CleanupType DEF CleanupExpired
<1>3. CASE Acquire(r)
  BY <1>3, AcquireType DEF Acquire
<1>4. CASE SelectFolder(r)
  <2> DEFINE sel == [uidvalidity |-> uidvalidity, uidnext |-> uidnext,
                     highestmodseq |-> HighestModSeq]
             j == [job[r] EXCEPT !.seen = sel, !.queries = job[r].policy.queries]
             fast == [j EXCEPT !.queries = {}, !.whole = TRUE]
  <2>1. \E phase \in {"invalidate", "verify", "discover"} :
          Go(r, j, phase) \/ Go(r, fast, phase)
    BY <1>4 DEF SelectFolder
  <2>2. UNCHANGED server /\ clock' = clock
    BY <1>4 DEF SelectFolder
  <2>3. QED
    <3> HIDE DEF j, fast
    <3> QED BY <2>1, <2>2, GoSets
<1>5. CASE DeleteByFolder(r)
  BY <1>5, InvalidateType DEF DeleteByFolder
<1>6. CASE MarkUIDsVerified(r)
  BY <1>6, UIDsVerifiedType DEF MarkUIDsVerified
<1>7. CASE DeleteMissing(r)
  BY <1>7, DeleteType DEF DeleteMissing
<1>8. CASE MarkFolderVerified(r)
  BY <1>8, FolderVerifiedType DEF MarkFolderVerified
<1>9. CASE UpsertFolderState(r)
  BY <1>9, CommitType DEF UpsertFolderState
<1>10. CASE Fail(r)
  BY <1>10, FailType DEF Fail
<1>11. QED
  BY <1>1, <1>2, <1>3, <1>4, <1>5, <1>6, <1>7, <1>8, <1>9, <1>10 DEF Plain

LEMMA PlainRows ==
    ASSUME TypeOK, NEW r \in Request, Plain(r)
    PROVE  \A x \in rows' : \E y \in rows : SameContent(x, y)
<1>0. \A y \in rows : SameContent(y, y)
  BY DEF SameContent
<1>1. CASE \/ Start(r) \/ Acquire(r) \/ SelectFolder(r) \/ DeleteByFolder(r)
           \/ DeleteMissing(r) \/ UpsertFolderState(r) \/ Fail(r)
           \/ CleanupExpired(r)
  <2>1. rows' \subseteq rows
    BY <1>1, CleanupType DEF Start, Acquire, SelectFolder, DeleteByFolder,
         DeleteMissing, UpsertFolderState, Fail, tables
  <2>2. QED
    BY <1>0, <2>1
<1>2. CASE MarkUIDsVerified(r)
  <2> DEFINE j == [job[r] EXCEPT !.observed = {}]
             hit(done) == {x \in rows : x.uid \in done
                                  /\ x.uidvalidity = j.seen.uidvalidity}
  <2>1. PICK done \in SUBSET job[r].observed :
          rows' = (rows \ hit(done)) \cup Verified(hit(done), j.now)
    BY <1>2 DEF MarkUIDsVerified
  <2>2. rows \subseteq Row /\ j.now \in Nat
    BY DEF TypeOK, Job
  <2>3. hit(done) \in SUBSET rows
    OBVIOUS
  <2>4. QED
    <3> HIDE DEF hit, j
    <3> QED BY <2>1, <2>2, <2>3, VerifiedContent
<1>3. CASE MarkFolderVerified(r)
  <2> DEFINE hit == {x \in rows : x.uidvalidity = job[r].seen.uidvalidity}
  <2>1. rows' = (rows \ hit) \cup Verified(hit, job[r].now)
    BY <1>3 DEF MarkFolderVerified
  <2>2. rows \subseteq Row /\ job[r].now \in Nat
    BY DEF TypeOK, Job
  <2>3. hit \in SUBSET rows
    OBVIOUS
  <2>4. QED
    <3> HIDE DEF hit
    <3> QED BY <2>1, <2>2, <2>3, VerifiedContent
<1>4. QED
  BY <1>1, <1>2, <1>3 DEF Plain

\* A request reads the clock when it begins and after a purge.
LEMMA PlainNow ==
    ASSUME TypeOK, NEW r \in Request, Plain(r), job[r].now <= clock
    PROVE  job'[r].now <= clock
<1>0. job[r] \in Job /\ clock \in Nat /\ NoJob.now = 0 /\ clock <= clock
  BY DEF TypeOK, NoJob
<1>1. CASE Start(r)
  <2>1. PICK j : (\E phase : Go(r, j, phase)) /\ j.now = clock
    <3>1. PICK c \in Cap :
            LET j == [NoJob EXCEPT !.policy = policy, !.cap = c, !.now = clock,
                        !.expired = {PublicId(x) : x \in Expired(clock)}]
            IN Go(r, j, IF j.expired = {} THEN "lock" ELSE "expire")
      BY <1>1 DEF Start
    <3> DEFINE gone == {PublicId(x) : x \in Expired(clock)}
               j == [NoJob EXCEPT !.policy = policy, !.cap = c, !.now = clock,
                                  !.expired = gone]
               phase == IF j.expired = {} THEN "lock" ELSE "expire"
    <3>2. Go(r, j, phase)
      BY <3>1
    <3>3. j.now = clock
      <4> HIDE DEF gone
      <4> QED BY NoJobType DEF Job
    <3>4. QED
      <4> HIDE DEF j, phase
      <4> QED BY <3>2, <3>3
  <2>2. QED
    BY <1>0, <2>1, GoSets
<1>2. CASE CleanupExpired(r)
  <2> DEFINE j == [job[r] EXCEPT !.now = clock, !.expired = {}]
  <2>1. Go(r, j, "lock")
    BY <1>2 DEF CleanupExpired
  <2>2. j.now = clock
    BY <1>0 DEF Job
  <2>3. QED
    <3> HIDE DEF j
    <3> QED BY <1>0, <2>1, <2>2, GoSets
<1>3. CASE Acquire(r)
  <2> DEFINE j == [job[r] EXCEPT !.known = folderState]
  <2>1. Go(r, j, "select")
    BY <1>3 DEF Acquire
  <2>2. j.now = job[r].now
    BY <1>0 DEF Job
  <2>3. QED
    <3> HIDE DEF j
    <3> QED BY <2>1, <2>2, GoSets
<1>4. CASE SelectFolder(r)
  <2> DEFINE sel == [uidvalidity |-> uidvalidity, uidnext |-> uidnext,
                     highestmodseq |-> HighestModSeq]
             j == [job[r] EXCEPT !.seen = sel, !.queries = job[r].policy.queries]
             fast == [j EXCEPT !.queries = {}, !.whole = TRUE]
  <2>1. \E phase : Go(r, j, phase) \/ Go(r, fast, phase)
    BY <1>4 DEF SelectFolder
  <2>2. j.now = job[r].now /\ fast.now = job[r].now
    <3> HIDE DEF sel
    <3> QED BY <1>0 DEF Job
  <2>3. QED
    <3> HIDE DEF j, fast
    <3> QED BY <2>1, <2>2, GoSets
<1>5. CASE DeleteByFolder(r)
  <2> DEFINE j == [job[r] EXCEPT !.known = {}]
  <2>1. Go(r, j, "discover")
    BY <1>5 DEF DeleteByFolder
  <2>2. j.now = job[r].now
    BY <1>0 DEF Job
  <2>3. QED
    <3> HIDE DEF j
    <3> QED BY <2>1, <2>2, GoSets
<1>6. CASE MarkUIDsVerified(r)
  <2> DEFINE j == [job[r] EXCEPT !.observed = {}]
  <2>1. Go(r, j, "prune") \/ Go(r, NoJob, "idle")
    BY <1>6 DEF MarkUIDsVerified, Finish
  <2>2. j.now = job[r].now
    BY <1>0 DEF Job
  <2>3. QED
    <3> HIDE DEF j
    <3> QED BY <1>0, <2>1, <2>2, GoSets
<1>7. CASE DeleteMissing(r) \/ MarkFolderVerified(r)
  BY <1>7, DeleteType, FolderVerifiedType
<1>8. CASE UpsertFolderState(r) \/ Fail(r)
  <2>1. Go(r, NoJob, "idle")
    BY <1>8 DEF UpsertFolderState, Fail, Finish
  <2>2. QED
    BY <1>0, <2>1, GoSets
<1>9. QED
  BY <1>1, <1>2, <1>3, <1>4, <1>5, <1>6, <1>7, <1>8 DEF Plain

-----------------------------------------------------------------------------
(* The invariant *)

\* The arithmetic needs the numbers to be numbers.
LEMMA ContentNumbers ==
    ASSUME TypeOK
    PROVE  /\ uidvalidity \in Nat /\ uidnext \in Nat /\ clock \in Nat
           /\ \A m \in mailbox : m.uid \in Nat
           /\ \A x \in rows : /\ x.uidvalidity \in Nat /\ x.body \in Nat
                              /\ x.envelope.from \in Nat
           /\ \A r \in Request :
                /\ job[r].seen.uidvalidity \in Nat /\ job[r].now \in Nat
                /\ \A u \in job[r].fetch : u \in Nat
                /\ \A e \in job[r].envelopes : e.from \in Nat
<1>1. /\ uidvalidity \in Nat /\ uidnext \in Nat /\ clock \in Nat
      /\ \A m \in mailbox : m.uid \in Nat
  BY DEF TypeOK, Message, Uid
<1>2. ASSUME NEW x \in rows
      PROVE  x.uidvalidity \in Nat /\ x.body \in Nat /\ x.envelope.from \in Nat
  <2>1. x \in Row
    BY DEF TypeOK
  <2>2. x.envelope \in Envelope
    BY <2>1 DEF Row
  <2>3. QED
    BY <2>1, <2>2 DEF Row, Envelope
<1>3. ASSUME NEW r \in Request
      PROVE  /\ job[r].seen.uidvalidity \in Nat /\ job[r].now \in Nat
             /\ \A u \in job[r].fetch : u \in Nat
             /\ \A e \in job[r].envelopes : e.from \in Nat
  <2>1. job[r] \in Job
    BY DEF TypeOK
  <2>2. /\ job[r].seen \in Selection /\ job[r].now \in Nat
        /\ job[r].fetch \subseteq Uid /\ job[r].envelopes \subseteq Envelope
    BY <2>1 DEF Job
  <2>3. QED
    BY <2>2 DEF Selection, Envelope, Uid
<1>4. QED
  BY <1>1, <1>2, <1>3

\* A step of a request that fetches nothing keeps the invariant.
LEMMA NothingFetched ==
    ASSUME TypeOK, TypeOK', ContentInv, NEW r \in Request,
           UNCHANGED server, clock' = clock,
           \A s \in Request \ {r} : pc'[s] = pc[s] /\ job'[s] = job[s],
           \A x \in rows' : \E y \in rows : SameContent(x, y),
           pc'[r] # "store", pc'[r] = "envelopes" => job'[r].policy.full,
           job'[r].now <= clock
    PROVE  ContentInv'
<1>1. /\ uidvalidity' = uidvalidity /\ uidnext' = uidnext
      /\ mailbox' = mailbox
  BY DEF server
<1>2. UidsFresh'
  BY <1>1 DEF ContentInv, UidsFresh
<1>3. NowIsPast'
  BY DEF ContentInv, NowIsPast
<1>4. PartsNotOlder'
  BY <1>1 DEF ContentInv, PartsNotOlder, SameContent
<1>5. PastTheGate'
  BY <1>1 DEF ContentInv, PastTheGate, Approved
<1>6. QED
  BY <1>2, <1>3, <1>4, <1>5 DEF ContentInv

\* Outside the daemon: a message that arrives gets a UID that was never given
\* out, and a folder that is renumbered makes every promise about UIDs void.
LEMMA OutsideContent ==
    ASSUME TypeOK, BehindServer, ContentInv, Environment \/ Crash
    PROVE  ContentInv'
<1>0. TypeOK' /\ rows' = rows
  BY OutsideType DEF Environment, Crash, Deliver, Expunge, ChangeFlags,
       Renumber, EditPolicy, Tick, Unchanged_but_server, tables
<1>1. CASE Crash
  <2>1. /\ uidvalidity' = uidvalidity /\ uidnext' = uidnext
        /\ mailbox' = mailbox /\ clock' = clock
    BY <1>1 DEF Crash, server
  <2>2. \A r \in Request : pc'[r] = "idle" /\ job'[r].now = 0
    BY <1>1 DEF Crash, NoJob
  <2>3. QED
    BY <1>0, <2>1, <2>2, ContentNumbers
       DEF ContentInv, UidsFresh, PartsNotOlder, PastTheGate, NowIsPast
<1>2. CASE EditPolicy \/ Tick
  <2>1. /\ uidvalidity' = uidvalidity /\ uidnext' = uidnext
        /\ mailbox' = mailbox /\ pc' = pc /\ job' = job
        /\ clock' = clock \/ clock' = clock + 1
    BY <1>2 DEF EditPolicy, Tick, server, daemon
  <2>2. NowIsPast'
    BY <2>1, ContentNumbers DEF ContentInv, NowIsPast
  <2>3. UidsFresh' /\ PartsNotOlder' /\ PastTheGate'
    BY <1>0, <2>1 DEF ContentInv, UidsFresh, PartsNotOlder, PastTheGate
  <2>4. QED
    BY <2>2, <2>3 DEF ContentInv
<1>3. CASE Renumber
  <2>1. /\ uidvalidity' = uidvalidity + 1 /\ mailbox' = {}
        /\ pc' = pc /\ job' = job /\ clock' = clock
    BY <1>3 DEF Renumber, Unchanged_but_server, daemon
  <2>2. UidsFresh' /\ NowIsPast'
    BY <2>1 DEF ContentInv, UidsFresh, NowIsPast
  <2>3. PartsNotOlder'
    BY <1>0, <2>1, ContentNumbers DEF ContentInv, PartsNotOlder
  <2>4. PastTheGate'
    <3>1. ASSUME NEW r \in Request, pc[r] = "envelopes"
          PROVE  job[r].seen.uidvalidity # uidvalidity'
      BY <2>1, <3>1, ContentNumbers DEF BehindServer, Selected, Locked
    <3>2. QED
      BY <2>1, <3>1 DEF ContentInv, PastTheGate
  <2>5. QED
    BY <2>2, <2>3, <2>4 DEF ContentInv
<1>4. CASE \/ \E k \in Kind : Deliver(k)
           \/ \E m \in mailbox : Expunge(m) \/ ChangeFlags(m)
  <2>1. /\ uidvalidity' = uidvalidity /\ pc' = pc /\ job' = job
        /\ clock' = clock
    BY <1>4 DEF Deliver, Expunge, ChangeFlags, Unchanged_but_server, daemon
  <2>2. PartsNotOlder' /\ NowIsPast'
    BY <1>0, <2>1 DEF ContentInv, PartsNotOlder, NowIsPast
  <2>3. uidnext <= uidnext'
    BY <1>4, ContentNumbers DEF Deliver, Expunge, ChangeFlags
  <2>4. UidsFresh' /\ \A n \in mailbox' : \/ n.uid = uidnext
                                        \/ \E m \in mailbox : /\ m.uid = n.uid
                                                             /\ m.kind = n.kind
    <3>1. ASSUME NEW k \in Kind, Deliver(k)
          PROVE  UidsFresh' /\ \A n \in mailbox' : \/ n.uid = uidnext
                                                 \/ n \in mailbox
      BY <3>1, ContentNumbers DEF Deliver, ContentInv, UidsFresh
    <3>2. ASSUME NEW m \in mailbox, Expunge(m)
          PROVE  UidsFresh' /\ mailbox' \subseteq mailbox
      BY <3>2 DEF Expunge, ContentInv, UidsFresh
    <3>3. ASSUME NEW m \in mailbox, ChangeFlags(m)
          PROVE  UidsFresh' /\ \A n \in mailbox' :
                   \E l \in mailbox : l.uid = n.uid /\ l.kind = n.kind
      <4>1. PICK n : n = [m EXCEPT !.modseq = modseq + 1]
        OBVIOUS
      <4>2. n.uid = m.uid /\ n.kind = m.kind
        BY <4>1 DEF TypeOK, Message
      <4>3. mailbox' = (mailbox \ {m}) \cup {n} /\ uidnext' = uidnext
        BY <3>3, <4>1 DEF ChangeFlags
      <4>4. QED
        BY <4>2, <4>3 DEF ContentInv, UidsFresh
    <3>4. QED
      BY <1>4, <3>1, <3>2, <3>3
  <2>5. PastTheGate'
    <3>1. ASSUME NEW r \in Request, pc[r] = "envelopes", ~job[r].policy.full,
                 job[r].seen.uidvalidity = uidvalidity
          PROVE  /\ \A u \in job[r].fetch : u < uidnext'
                 /\ \A n \in mailbox' :
                      n.uid \in job[r].fetch => Approved(job[r].policy, n.kind)
      <4>1. /\ \A u \in job[r].fetch : u < uidnext
            /\ \A m \in mailbox :
                 m.uid \in job[r].fetch => Approved(job[r].policy, m.kind)
        BY <3>1 DEF ContentInv, PastTheGate
      <4>2. \A u \in job[r].fetch : u < uidnext' /\ u # uidnext
        BY <2>3, <4>1, ContentNumbers, <1>0 DEF TypeOK, Uid
      <4>3. QED
        BY <2>4, <4>1, <4>2
    <3>2. QED
      BY <2>1, <3>1 DEF ContentInv, PastTheGate, Approved
  <2>6. QED
    BY <2>2, <2>4, <2>5 DEF ContentInv
<1>5. QED
  BY <1>1, <1>2, <1>3, <1>4 DEF Environment

\* What passes the gate is approved, and known to the generation selected.
LEMMA GateContent ==
    ASSUME TypeOK, TypeOK', ContentInv, NEW r \in Request, PolicyAllowedUIDs(r)
    PROVE  ContentInv'
<1>1. /\ uidvalidity' = uidvalidity /\ uidnext' = uidnext /\ rows' = rows
      /\ mailbox' = mailbox /\ clock' = clock
  BY DEF PolicyAllowedUIDs, Unchanged_but_job, server, tables
<1>2. /\ Keeps(r) /\ pc'[r] # "store"
      /\ job'[r].fetch = {m.uid : m \in {n \in mailbox :
           n.uid \in job[r].fetch /\ Approved(job[r].policy, n.kind)}}
  BY GateFilters
<1>3. \A s \in Request \ {r} : pc'[s] = pc[s] /\ job'[s] = job[s]
  BY ScanType DEF Scan
<1>4. UidsFresh' /\ NowIsPast'
  BY <1>1, <1>2, <1>3 DEF ContentInv, UidsFresh, NowIsPast, Keeps
<1>5. PartsNotOlder'
  BY <1>1, <1>2, <1>3 DEF ContentInv, PartsNotOlder
<1>6. PastTheGate'
  <2>1. \A u \in job'[r].fetch : u < uidnext
    BY <1>2 DEF ContentInv, UidsFresh
  <2>2. ASSUME NEW m \in mailbox, m.uid \in job'[r].fetch
        PROVE  Approved(job[r].policy, m.kind)
    <3>1. PICK n \in mailbox : n.uid = m.uid /\ Approved(job[r].policy, n.kind)
      BY <1>2, <2>2
    <3>2. n = m
      BY <3>1 DEF ContentInv, UidsFresh
    <3>3. QED
      BY <3>1, <3>2
  <2>3. QED
    BY <1>1, <1>2, <1>3, <2>1, <2>2 DEF ContentInv, PastTheGate, Keeps, Approved
<1>7. QED
  BY <1>4, <1>5, <1>6 DEF ContentInv

\* Envelopes of the generation selected are of messages that passed the gate.
LEMMA FetchContent ==
    ASSUME TypeOK, TypeOK', BehindServer, ContentInv, NEW r \in Request,
           FetchEnvelopes(r)
    PROVE  ContentInv'
<1>1. /\ uidvalidity' = uidvalidity /\ uidnext' = uidnext /\ rows' = rows
      /\ mailbox' = mailbox /\ clock' = clock
  BY DEF FetchEnvelopes, Unchanged_but_job, server, tables
<1>2. /\ Keeps(r) /\ pc[r] = "envelopes" /\ pc'[r] # "envelopes"
      /\ \A e \in job'[r].envelopes :
           /\ e.from = uidvalidity
           /\ \E m \in mailbox : m.uid \in job[r].fetch /\ m.kind = e.kind
  BY FetchBrings
<1>3. \A s \in Request \ {r} : pc'[s] = pc[s] /\ job'[s] = job[s]
  BY ScanType DEF Scan
<1>4. UidsFresh' /\ NowIsPast'
  BY <1>1, <1>2, <1>3 DEF ContentInv, UidsFresh, NowIsPast, Keeps
<1>5. PartsNotOlder'
  <2>1. job[r].seen.uidvalidity <= uidvalidity /\ uidvalidity <= uidvalidity
    BY <1>2, ContentNumbers DEF BehindServer, Selected, Locked
  <2>2. QED
    BY <1>1, <1>2, <1>3, <2>1 DEF ContentInv, PartsNotOlder, Keeps
<1>6. PastTheGate'
  <2>1. ASSUME NEW e \in job'[r].envelopes, e.from = job[r].seen.uidvalidity
        PROVE  Approved(job[r].policy, e.kind)
    <3>1. CASE job[r].policy.full
      BY <3>1 DEF Approved
    <3>2. CASE ~job[r].policy.full
      BY <1>2, <2>1, <3>2 DEF ContentInv, PastTheGate
    <3>3. QED
      BY <3>1, <3>2
  <2>2. QED
    BY <1>1, <1>2, <1>3, <2>1 DEF ContentInv, PastTheGate, Keeps
<1>7. QED
  BY <1>4, <1>5, <1>6 DEF ContentInv

\* The row stored has the generation selected in its key, and the envelope's
\* and the present one in its parts.
LEMMA StoreContent ==
    ASSUME TypeOK, TypeOK', BehindServer, ContentInv, NEW r \in Request,
           StoreMessage(r)
    PROVE  ContentInv'
<1>1. /\ uidvalidity' = uidvalidity /\ uidnext' = uidnext
      /\ mailbox' = mailbox /\ clock' = clock
  BY DEF StoreMessage, server
<1>2. /\ Keeps(r) /\ pc[r] = "store" /\ pc'[r] # "envelopes"
      /\ job'[r].envelopes \subseteq job[r].envelopes
  BY StoreBrings
<1>3. PICK e \in job[r].envelopes : \A x \in rows' : x \in rows \/ x = Stored(r, e)
  BY StoreBrings
<1>4. \A s \in Request \ {r} : pc'[s] = pc[s] /\ job'[s] = job[s]
  BY StoreType
<1>5. UidsFresh' /\ NowIsPast'
  BY <1>1, <1>2, <1>4 DEF ContentInv, UidsFresh, NowIsPast, Keeps
<1>6. PartsNotOlder'
  <2>1. /\ job[r].seen.uidvalidity <= e.from /\ e.from <= uidvalidity
        /\ job[r].seen.uidvalidity <= uidvalidity /\ uidvalidity <= uidvalidity
    BY <1>2, ContentNumbers
       DEF ContentInv, PartsNotOlder, BehindServer, Selected, Locked
  <2>2. PICK x : x = Stored(r, e)
    OBVIOUS
  <2>3. /\ x.uidvalidity = job[r].seen.uidvalidity /\ x.envelope = e
        /\ x.body = 0 \/ x.body = uidvalidity
    BY <2>2 DEF Stored
  <2>4. QED
    BY <1>1, <1>2, <1>3, <1>4, <2>1, <2>2, <2>3
       DEF ContentInv, PartsNotOlder, Keeps
<1>7. PastTheGate'
  BY <1>1, <1>2, <1>4 DEF ContentInv, PastTheGate, Keeps
<1>8. QED
  BY <1>5, <1>6, <1>7 DEF ContentInv

LEMMA StepContent == GenerationInv /\ ContentInv /\ [Next]_vars => ContentInv'
<1> SUFFICES ASSUME GenerationInv, ContentInv, [Next]_vars
             PROVE  ContentInv'
  OBVIOUS
<1>0. TypeOK /\ TypeOK' /\ BehindServer
  BY StepType DEF GenerationInv
<1>1. CASE Environment \/ Crash
  BY <1>0, <1>1, OutsideContent
<1>2. ASSUME NEW r \in Request, Start(r) \/ Progress(r)
      PROVE  ContentInv'
  <2>1. CASE Plain(r)
    <3>1. job'[r].now <= clock
      BY <1>0, <2>1, PlainNow DEF ContentInv, NowIsPast
    <3>2. QED
      BY <1>0, <2>1, <3>1, PlainPhase, PlainRows, NothingFetched
  <2>2. CASE \/ ListUIDs(r) \/ SearchAllowed(r) \/ UncachedUIDs(r)
             \/ NoneMissing(r)
    <3>1. /\ Keeps(r) /\ pc'[r] # "store"
          /\ ~job[r].policy.full => pc'[r] # "envelopes"
      BY <1>0, <2>2, ScanBeforeGate
    <3>2. /\ UNCHANGED server /\ clock' = clock /\ rows' = rows
          /\ \A s \in Request \ {r} : pc'[s] = pc[s] /\ job'[s] = job[s]
      BY <1>0, <2>2, ScanType DEF Scan, tables
    <3>3. \A x \in rows' : \E y \in rows : SameContent(x, y)
      BY <3>2 DEF SameContent
    <3>4. job'[r].now <= clock
      BY <3>1 DEF Keeps, ContentInv, NowIsPast
    <3>5. pc'[r] = "envelopes" => job'[r].policy.full
      BY <3>1 DEF Keeps
    <3>6. QED
      BY <1>0, <3>1, <3>2, <3>3, <3>4, <3>5, NothingFetched
  <2>3. CASE PolicyAllowedUIDs(r)
    BY <1>0, <2>3, GateContent
  <2>4. CASE FetchEnvelopes(r)
    BY <1>0, <2>4, FetchContent
  <2>5. CASE StoreMessage(r)
    BY <1>0, <2>5, StoreContent
  <2>6. QED
    BY <1>2, <2>1, <2>2, <2>3, <2>4, <2>5 DEF Progress, Cycle, Plain
<1>3. CASE UNCHANGED vars
  BY <1>3 DEF vars, server, tables, daemon, ContentInv, UidsFresh,
              PartsNotOlder, PastTheGate, NowIsPast
<1>4. QED
  BY <1>1, <1>2, <1>3 DEF Next

LEMMA InitContent == Init => ContentInv
<1> SUFFICES ASSUME Init PROVE ContentInv
  OBVIOUS
<1>1. TypeOK
  BY InitType
<1>2. UidsFresh
  <2>1. ASSUME NEW m \in mailbox PROVE m.uid < uidnext
    <3>1. m.uid \in 1..(uidnext - 1) /\ uidnext \in Nat
      BY <1>1 DEF Init, TypeOK, Uid
    <3>2. QED
      BY <3>1
  <2>2. QED
    BY <2>1 DEF Init, UidsFresh
<1>3. \A r \in Request : pc[r] = "idle" /\ job[r].now = 0
  BY DEF Init, NoJob
<1>4. QED
  BY <1>2, <1>3 DEF Init, ContentInv, PartsNotOlder, PastTheGate, NowIsPast

LEMMA ContentInvariant == Spec => []ContentInv
<1>1. QED
  BY InitContent, StepContent, GenerationsInvariant, PTL DEF Spec

-----------------------------------------------------------------------------
(* The theorems *)

\* A row whose envelope or body is of a generation of the mailbox other than
\* its UID's - the folder was renumbered between two calls of refreshFolder -
\* is of a generation the server has left, so that the next cycle drops it.
THEOREM MixturesAreStale == Spec => []MixedRowsAreStale
<1>1. TypeOK /\ ContentInv => MixedRowsAreStale
  BY ContentNumbers DEF ContentInv, PartsNotOlder, MixedRowsAreStale
<1>2. QED
  BY <1>1, ContentInvariant, TypeCorrect, PTL

\* No envelope is stored that the local gate of policyAllowedUIDs has not
\* approved, whatever the searches matched and other clients did since, if it
\* was fetched from the generation of the folder that SelectFolder saw.
THEOREM ContentIsApproved == Spec => GateBeforeContent
<1>1. GenerationInv /\ ContentInv /\ [Next]_vars =>
        [\A r \in Request, x \in rows' :
           StoreMessage(r) /\ x \notin rows /\ x.envelope.from = x.uidvalidity =>
             Approved(job[r].policy, x.envelope.kind)]_vars
  <2> SUFFICES ASSUME GenerationInv, ContentInv, NEW r \in Request,
                      NEW x \in rows', StoreMessage(r), x \notin rows,
                      x.envelope.from = x.uidvalidity
               PROVE  Approved(job[r].policy, x.envelope.kind)
    OBVIOUS
  <2>1. TypeOK
    BY DEF GenerationInv
  <2>2. PICK e \in job[r].envelopes : x = Stored(r, e)
    BY <2>1, StoreBrings
  <2>3. x.uidvalidity = job[r].seen.uidvalidity /\ x.envelope = e
    BY <2>2 DEF Stored
  <2>4. pc[r] = "store"
    BY <2>1, StoreBrings
  <2>5. e.from = job[r].seen.uidvalidity
    BY <2>3
  <2>6. QED
    BY <2>3, <2>4, <2>5 DEF ContentInv, PastTheGate
<1>2. QED
  BY <1>1, ContentInvariant, GenerationsInvariant, PTL
     DEF Spec, GateBeforeContent

\* The text of an instant is never later than the second it is in.
LEMMA TextOrder ==
    ASSUME NEW s \in Int, NEW t \in Int, TextBefore(s, t)
    PROVE  s < t + TicksPerSecond
<1>1. PICK n \in 1..10 : n = TicksPerSecond
  BY NumberAssumption
<1>2. s \div n <= t \div n
  BY <1>1 DEF TextBefore
<1>3. s < t + n
  <2>1. CASE n = 1
    BY <1>2, <2>1
  <2>2. CASE n = 2
    BY <1>2, <2>2
  <2>3. CASE n = 3
    BY <1>2, <2>3
  <2>4. CASE n = 4
    BY <1>2, <2>4
  <2>5. CASE n = 5
    BY <1>2, <2>5
  <2>6. CASE n = 6
    BY <1>2, <2>6
  <2>7. CASE n = 7
    BY <1>2, <2>7
  <2>8. CASE n = 8
    BY <1>2, <2>8
  <2>9. CASE n = 9
    BY <1>2, <2>9
  <2>10. CASE n = 10
    BY <1>2, <2>10
  <2>11. QED
    BY <2>1, <2>2, <2>3, <2>4, <2>5, <2>6, <2>7, <2>8, <2>9, <2>10
<1>4. QED
  BY <1>1, <1>3

\* The purge of CleanupExpired takes no row before the second in which its
\* TTL ends, even one that was verified after the purge had listed it.
THEOREM PurgeIsNeverEarly == Spec => PurgeSparesVerifiedRows
<1>1. TypeOK /\ ContentInv /\ [Next]_vars =>
        [\A r \in Request, x \in rows :
           CleanupExpired(r) /\ x \notin rows' =>
             x.verified + TTL < clock + TicksPerSecond]_vars
  <2> SUFFICES ASSUME TypeOK, ContentInv, NEW r \in Request, NEW x \in rows,
                      CleanupExpired(r), x \notin rows'
               PROVE  x.verified + TTL < clock + TicksPerSecond
    OBVIOUS
  <2>1. TextBefore(x.verified, job[r].now - TTL)
    BY DEF CleanupExpired, Expired
  <2>2. /\ x.verified \in Nat /\ job[r].now \in Nat /\ clock \in Nat
        /\ TTL \in Nat /\ TicksPerSecond \in Nat
    BY ContentNumbers, NumberAssumption DEF TypeOK, Row
  <2>3. x.verified < job[r].now - TTL + TicksPerSecond
    BY <2>1, <2>2, TextOrder
  <2>4. job[r].now <= clock
    BY DEF ContentInv, NowIsPast
  <2>5. QED
    BY <2>2, <2>3, <2>4
<1>2. QED
  BY <1>1, ContentInvariant, TypeCorrect, PTL
     DEF Spec, PurgeSparesVerifiedRows

=============================================================================
