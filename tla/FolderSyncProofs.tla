--------------------------- MODULE FolderSyncProofs ---------------------------
(***************************************************************************)
(* Theorems about what a refresh cycle of FolderRefresh leaves in the      *)
(* cache, for every set of requests, every mailbox and every bound: what   *)
(* it prunes, what the fast path may trust, and what an undisturbed cycle  *)
(* achieves.                                                               *)
(***************************************************************************)
EXTENDS FolderRefreshProofs, FolderSync, FiniteSetTheorems

-----------------------------------------------------------------------------
(* The candidates of a scan *)

\* The locals a cycle sets before the discovery.
SameRead(j, k) == /\ k.policy = j.policy /\ k.cap = j.cap
                  /\ k.known = j.known /\ k.seen = j.seen

\* The range of a cycle, and the test of its cached rows, are set by then.
LEMMA SameScope ==
    ASSUME NEW j, NEW k, SameRead(j, k)
    PROVE  /\ Windowed(k) <=> Windowed(j)
           /\ \A u : InScope(k, u) <=> InScope(j, u)
           /\ \A m : InRange(k, m) <=> InRange(j, m)
           /\ CachedRowsAreCurrent(k) <=> CachedRowsAreCurrent(j)
BY DEF SameRead, Windowed, InScope, InRange, CachedRowsAreCurrent

\* What is left to do, and what is known then.
LEMMA Leads ==
    ASSUME NEW j \in Job
    PROVE  /\ Reconcile(j) \in {"prune", "mark", "commit"}
           /\ Reconcile(j) = "commit" => ~j.whole /\ ~Windowed(j)
           /\ \/ Gate(j) \in {"headers", "envelopes"}
              \/ j.fetch = {} /\ Gate(j) = Reconcile(j)
           /\ \/ Sift(j) = "compare" /\ CachedRowsAreCurrent(j)
              \/ Sift(j) = Gate(j)
<1>1. /\ Reconcile(j) \in {"prune", "mark", "commit"}
      /\ Reconcile(j) = "commit" => ~j.whole /\ ~Windowed(j)
  BY DEF Reconcile
<1>2. \/ Gate(j) \in {"headers", "envelopes"}
      \/ j.fetch = {} /\ Gate(j) = Reconcile(j)
  BY DEF Gate
<1>3. (Sift(j) = "compare" /\ CachedRowsAreCurrent(j)) \/ Sift(j) = Gate(j)
  BY DEF Sift
<1>4. QED
  BY <1>1, <1>2, <1>3

\* The numbers of a job are numbers.
LEMMA JobNumbers ==
    ASSUME NEW j \in Job
    PROVE  /\ j.cap \in Nat /\ j.seen.uidnext \in Nat
           /\ j.seen.uidvalidity \in Nat /\ j.seen.highestmodseq \in Nat
           /\ j.candidates \subseteq Uid /\ j.keep \subseteq Uid
           /\ j.fetch \subseteq Uid /\ j.envelopes \subseteq Envelope
           /\ j.known \subseteq FolderState /\ j.policy \in Policy
BY DEF Job, Selection

\* A scan sets the candidates and nothing that came before it.
LEMMA DiscoveredEffect ==
    ASSUME NEW j \in Job, NEW uids \in SUBSET Uid
    PROVE  LET k == Discovered(j, uids)
           IN /\ SameRead(j, k)
              /\ k.keep = j.keep /\ k.envelopes = j.envelopes
              /\ k.fetch = k.candidates /\ k.candidates \subseteq uids
              /\ k.whole => ~Windowed(j) /\ k.candidates = uids
BY DEF Discovered, NewestOf, SameRead, Job, Windowed

\* How many candidates there may be above a UID.
Above(S, u) == {v \in S : v > u}

\* newestUIDs by the number of UIDs above.
LEMMA NewestAbove ==
    ASSUME NEW S, NEW n
    PROVE  NewestOf(S, n) = {u \in S : Cardinality(Above(S, u)) < n}
BY DEF NewestOf, Above

\* There are no more UIDs above u than numbers up to the greatest.
LEMMA CountAbove ==
    ASSUME NEW uids \in SUBSET Uid, NEW u \in Nat, NEW n \in Nat, u <= n,
           \A v \in uids : v <= n
    PROVE  /\ Cardinality(Above(uids, u)) \in Nat
           /\ Cardinality(Above(uids, u)) <= n - u
<1> DEFINE V == Above(uids, u)
<1>1. V \in SUBSET ((u + 1)..n)
  <2>1. ASSUME NEW v \in V PROVE v \in (u + 1)..n
    BY DEF Above, Uid
  <2>2. QED
    BY <2>1
<1>2. IsFiniteSet((u + 1)..n) /\ Cardinality((u + 1)..n) = n - u
  <2>1. u + 1 \in Int /\ n \in Int
    OBVIOUS
  <2>2. /\ IsFiniteSet((u + 1)..n)
        /\ Cardinality((u + 1)..n) = IF u + 1 > n THEN 0 ELSE n - (u + 1) + 1
    BY <2>1, FS_Interval
  <2>3. QED
    BY <2>2
<1>3. IsFiniteSet(V) /\ Cardinality(V) <= n - u
  <2> HIDE DEF V
  <2> QED BY <1>1, <1>2, FS_Subset
<1>4. Cardinality(V) \in Nat
  <2> HIDE DEF V
  <2> QED BY <1>3, FS_CardinalityType
<1>5. QED
  BY <1>3, <1>4

\* A UID is cut off by newestUIDs at the low end of the window only, or below
\* all candidates.
LEMMA Truncation ==
    ASSUME NEW j \in Job, NEW uids \in SUBSET Uid, NEW u \in uids,
           \A v \in uids : InScope(j, v), u \notin Discovered(j, uids).candidates
    PROVE  LET k == Discovered(j, uids)
           IN /\ ~k.whole
              /\ IF Windowed(j) THEN u = j.seen.uidnext - j.cap
                                ELSE \A c \in k.candidates : u < c
              /\ \E v \in uids : v >= j.seen.uidnext
<1> DEFINE n == j.seen.uidnext
           k == Discovered(j, uids)
<1>1. n \in Nat /\ j.cap \in Nat /\ uids \subseteq Nat /\ 0 \notin uids
  BY JobNumbers DEF Uid
<1>2. \A v \in uids : v <= n
  BY DEF InScope
<1>3. ~k.whole /\ k.candidates = NewestOf(uids, j.cap) /\ j.cap > 0
  BY DEF Discovered, Job
<1>4. \A i \in Nat : u <= i /\ (\A v \in uids : v <= i) => j.cap <= i - u
  <2> SUFFICES ASSUME NEW i \in Nat, u <= i, \A v \in uids : v <= i
               PROVE  j.cap <= i - u
    OBVIOUS
  <2>1. /\ Cardinality(Above(uids, u)) \in Nat
        /\ Cardinality(Above(uids, u)) <= i - u
    BY <1>1, CountAbove
  <2>2. ~(Cardinality(Above(uids, u)) < j.cap)
    BY <1>3, NewestAbove
  <2>3. QED
    BY <1>1, <2>1, <2>2
<1>5. j.cap <= n - u
  BY <1>1, <1>2, <1>4
<1>6. CASE Windowed(j)
  <2>1. u = n - j.cap
    BY <1>1, <1>5, <1>6 DEF InScope
  <2>2. \E v \in uids : v >= n
    <3> SUFFICES ASSUME \A v \in uids : v <= n - 1
                 PROVE  FALSE
      BY <1>1, <1>2
    <3>1. u <= n - 1 /\ n - 1 \in Nat
      BY <1>1, <1>3, <2>1
    <3>2. j.cap <= n - 1 - u
      BY <1>4, <3>1
    <3>3. QED
      BY <1>1, <2>1, <3>2
  <2>3. QED
    BY <1>3, <1>6, <2>1, <2>2
<1>7. CASE ~Windowed(j)
  <2>1. n <= j.cap + 1 /\ u = 1 /\ n = j.cap + 1
    BY <1>1, <1>3, <1>5, <1>7 DEF Windowed
  <2>2. \A c \in k.candidates : c \in uids
    BY <1>3 DEF NewestOf
  <2>3. ASSUME NEW c \in k.candidates
        PROVE  u < c
    <3>1. c \in Nat /\ c # 0 /\ c # u
      BY <1>1, <2>2
    <3>2. QED
      BY <2>1, <3>1
  <2>4. \E v \in uids : v >= n
    <3> SUFFICES ASSUME \A v \in uids : v <= n - 1
                 PROVE  FALSE
      BY <1>1, <1>2
    <3>1. u <= n - 1 /\ n - 1 \in Nat
      BY <1>1, <1>3, <2>1
    <3>2. j.cap <= n - 1 - u
      BY <1>4, <3>1
    <3>3. QED
      BY <1>1, <2>1, <3>2
  <2>5. QED
    BY <1>3, <1>7, <2>3, <2>4
<1>8. QED
  BY <1>6, <1>7

\* Without arrivals the cap cuts nothing off.
LEMMA NoTruncation ==
    ASSUME NEW j \in Job, NEW uids \in SUBSET Uid,
           \A v \in uids : InScope(j, v) /\ v < j.seen.uidnext
    PROVE  LET k == Discovered(j, uids) IN k.whole \/ Windowed(j)
<1> DEFINE n == j.seen.uidnext
<1>1. n \in Nat /\ j.cap \in Nat /\ uids \subseteq Nat /\ 0 \notin uids
  BY JobNumbers DEF Uid
<1> SUFFICES ASSUME ~Windowed(j), j.cap > 0, Cardinality(uids) > j.cap
             PROVE  FALSE
  BY DEF Discovered, Job
<1>2. n <= j.cap + 1
  BY <1>1 DEF Windowed
<1>3. uids \in SUBSET (1..(n - 1))
  BY <1>1
<1>4. IsFiniteSet(1..(n - 1)) /\ Cardinality(1..(n - 1)) <= j.cap
  <2>1. n - 1 \in Int /\ 1 \in Int
    BY <1>1
  <2>2. /\ IsFiniteSet(1..(n - 1))
        /\ Cardinality(1..(n - 1)) = IF 1 > n - 1 THEN 0 ELSE (n - 1) - 1 + 1
    BY <2>1, FS_Interval
  <2>3. QED
    BY <1>1, <1>2, <2>2
<1>5. Cardinality(uids) <= Cardinality(1..(n - 1)) /\ IsFiniteSet(uids)
  BY <1>3, <1>4, FS_Subset
<1>6. Cardinality(uids) \in Nat /\ Cardinality(1..(n - 1)) \in Nat
  BY <1>4, <1>5, FS_CardinalityType
<1>7. QED
  BY <1>1, <1>4, <1>5, <1>6

-----------------------------------------------------------------------------
(* Steps that leave the server alone *)

\* Rows that differ in their verification time only.
SameRow(x, y) == /\ x.uid = y.uid /\ x.uidvalidity = y.uidvalidity
                 /\ x.envelope = y.envelope /\ x.body = y.body

\* No row is new, and no row is gone.
RowsFrom == \A x \in rows' : \E y \in rows : SameRow(x, y)
RowsStay == \A y \in rows : \E x \in rows' : SameRow(x, y)

\* A step that only deletes brings no row.
LEMMA SubsetFrom ==
    ASSUME rows' \subseteq rows
    PROVE  RowsFrom
BY DEF RowsFrom, SameRow

\* A step that only marks rows verified neither brings nor takes any.
LEMMA VerifiedSame ==
    ASSUME rows \subseteq Row, NEW hit \in SUBSET rows, NEW t \in Nat,
           rows' = (rows \ hit) \cup Verified(hit, t)
    PROVE  RowsFrom /\ RowsStay
<1>1. \A y \in hit : SameRow([y EXCEPT !.verified = t], y)
  BY DEF Row, SameRow
<1>2. \A y \in rows : SameRow(y, y)
  BY DEF SameRow
<1>3. RowsFrom
  BY <1>1, <1>2 DEF RowsFrom, Verified
<1>4. RowsStay
  <2>1. ASSUME NEW y \in rows
        PROVE  \E x \in rows' : SameRow(x, y)
    <3>1. CASE y \in hit
      <4>1. [y EXCEPT !.verified = t] \in rows'
        BY <3>1 DEF Verified
      <4>2. QED
        BY <1>1, <3>1, <4>1
    <3>2. CASE y \notin hit
      BY <1>2, <3>2
    <3>3. QED
      BY <3>1, <3>2
  <2>2. QED
    BY <2>1 DEF RowsStay
<1>5. QED
  BY <1>3, <1>4

\* What is said of the server stays said of it.
LEMMA ServerSame ==
    ASSUME UNCHANGED server
    PROVE  /\ uidvalidity' = uidvalidity /\ uidnext' = uidnext
           /\ mailbox' = mailbox /\ modseq' = modseq
           /\ HighestModSeq' = HighestModSeq
           /\ \A h : UpToDate(h)' <=> UpToDate(h)
           /\ \A s : NumbersBehind(s)' <=> NumbersBehind(s)
           /\ \A x : Live(x)' <=> Live(x)
BY DEF server, HighestModSeq, UpToDate, NumbersBehind, Live

\* Being a message of the server is not a matter of the verification time.
LEMMA LiveSame ==
    ASSUME NEW x, NEW y, SameRow(x, y), Live(y)
    PROVE  Live(x)
BY DEF SameRow, Live, OfMessage

\* No new row, no new server: what a state vouches for stays.
LEMMA VouchesSame ==
    ASSUME UNCHANGED server, RowsFrom, NEW s, Vouches(s)
    PROVE  Vouches(s)'
BY ServerSame, LiveSame DEF Vouches, RowsFrom

\* No new row, no new server: the rows go on describing their messages.
LEMMA DescribeSame ==
    ASSUME UNCHANGED server, RowsFrom, RowsDescribe
    PROVE  RowsDescribe'
<1> SUFFICES ASSUME NEW x \in rows', x.uidvalidity = uidvalidity
             PROVE  /\ x.uid < uidnext
                    /\ \A m \in mailbox : m.uid = x.uid => OfMessage(x, m)
  BY ServerSame DEF RowsDescribe
<1>1. PICK y \in rows : SameRow(x, y)
  BY DEF RowsFrom
<1>2. QED
  BY <1>1 DEF SameRow, RowsDescribe, OfMessage

\* A step that takes rows or states away, or only verifies.
LEMMA TablesSame ==
    ASSUME UNCHANGED server, RowsFrom, folderState' \subseteq folderState,
           TablesInv
    PROVE  TablesInv'
<1>1. RowsDescribe'
  BY DescribeSame DEF TablesInv
<1>2. \A s, t \in folderState' : s = t
  BY DEF TablesInv
<1>3. ASSUME NEW s \in folderState'
      PROVE  NumbersBehind(s)' /\ Vouches(s)'
  <2>1. NumbersBehind(s) /\ Vouches(s)
    BY DEF TablesInv
  <2>2. QED
    BY <2>1, ServerSame, VouchesSame
<1>4. QED
  BY <1>1, <1>2, <1>3 DEF TablesInv

\* What a cycle has read stays as it is.
LEMMA ReadSame ==
    ASSUME UNCHANGED server, RowsFrom, folderState' \subseteq folderState,
           NEW r \in Request,
           pc'[r] = "select" => pc[r] = "select",
           pc'[r] \in Selected => pc[r] \in Selected,
           job'[r].known = job[r].known, job'[r].seen = job[r].seen,
           StateRead(r), SelectionRead(r)
    PROVE  StateRead(r)' /\ SelectionRead(r)'
<1>1. StateRead(r)'
  <2>1. ASSUME NEW s \in job'[r].known
        PROVE  NumbersBehind(s)' /\ Vouches(s)'
    BY ServerSame, VouchesSame DEF StateRead
  <2>2. QED
    BY <2>1 DEF StateRead
<1>2. SelectionRead(r)'
  BY ServerSame DEF SelectionRead
<1>3. QED
  BY <1>1, <1>2

\* The invariant speaks of one cycle at a time.
LEMMA CycleStep ==
    ASSUME SyncInv, NEW r \in Request,
           \A s \in Request \ {r} : /\ pc[s] \notin Locked
                                    /\ pc'[s] = pc[s] /\ job'[s] = job[s],
           quiet' \subseteq quiet \cup {r},
           TablesInv', LocalsInUse(r)',
           pc'[r] \in Locked => CycleInv(r)',
           r \in quiet' => QuietInv(r)', quiet \subseteq Request
    PROVE  SyncInv'
<1>1. ASSUME NEW s \in Request
      PROVE  LocalsInUse(s)'
  <2>1. CASE s # r
    <3>1. LocalsInUse(s) /\ pc'[s] = pc[s] /\ job'[s] = job[s]
      BY <2>1 DEF SyncInv
    <3>2. QED
      BY <3>1 DEF LocalsInUse
  <2>2. QED
    BY <2>1
<1>2. ASSUME NEW s \in Request, pc'[s] \in Locked
      PROVE  CycleInv(s)'
  BY <1>2
<1>3. ASSUME NEW s \in quiet'
      PROVE  QuietInv(s)'
  <2>1. CASE s # r
    <3>1. QuietInv(s) /\ s \in Request
      BY <2>1 DEF SyncInv
    <3>2. QED
      BY <2>1, <3>1 DEF QuietInv, Selected
  <2>2. QED
    BY <2>1
<1>4. QED
  BY <1>1, <1>2, <1>3 DEF SyncInv

-----------------------------------------------------------------------------
(* Steps outside a cycle *)

\* A change of the mailbox, and what it leaves alone.
ServerMoves ==
    /\ rows' = rows /\ folderState' = folderState
    /\ pc' = pc /\ job' = job /\ policy' = policy
    /\ quiet' = {}
    /\ modseq' = modseq + 1
    /\ \/ uidvalidity' = uidvalidity + 1
       \/ /\ uidvalidity' = uidvalidity
          /\ uidnext <= uidnext'
          /\ \A n \in mailbox' :
               \/ n.uid = uidnext
               \/ \E m \in mailbox : m.uid = n.uid /\ m.kind = n.kind

\* Nothing happens but to the policy or the clock.
OnlyWaits ==
    /\ UNCHANGED server
    /\ rows' = rows /\ folderState' = folderState
    /\ pc' = pc /\ job' = job
    /\ quiet' = quiet

\* The server moves, or nothing happens to what a cycle looks at.
LEMMA EnvironmentEffect ==
    ASSUME TypeOK, Environment
    PROVE  ServerMoves \/ OnlyWaits
<1>1. ASSUME NEW k \in Kind, Deliver(k)
      PROVE  ServerMoves
  <2>1. \A n \in mailbox' : n.uid = uidnext \/ n \in mailbox
    BY <1>1 DEF Deliver
  <2>2. uidnext <= uidnext'
    BY <1>1 DEF Deliver, TypeOK, Uid
  <2>3. QED
    BY <1>1, <2>1, <2>2 DEF Deliver, ServerMoves, Unchanged_but_server, tables,
         daemon, Disturbed
<1>2. ASSUME NEW m \in mailbox, Expunge(m)
      PROVE  ServerMoves
  BY <1>2 DEF Expunge, ServerMoves, Unchanged_but_server, tables, daemon,
       Disturbed, TypeOK, Uid
<1>3. ASSUME NEW m \in mailbox, ChangeFlags(m)
      PROVE  ServerMoves
  <2>1. PICK n : n = [m EXCEPT !.modseq = modseq + 1]
    OBVIOUS
  <2>2. n.uid = m.uid /\ n.kind = m.kind
    BY <2>1 DEF TypeOK, Message
  <2>3. mailbox' = (mailbox \ {m}) \cup {n}
    BY <1>3, <2>1 DEF ChangeFlags
  <2>4. QED
    BY <1>3, <2>2, <2>3 DEF ChangeFlags, ServerMoves, Unchanged_but_server,
         tables, daemon, Disturbed, TypeOK, Uid
<1>4. CASE Renumber
  BY <1>4 DEF Renumber, ServerMoves, Unchanged_but_server, tables, daemon,
       Disturbed
<1>5. CASE EditPolicy \/ Tick
  BY <1>5 DEF EditPolicy, Tick, OnlyWaits, tables, daemon
<1>6. QED
  BY <1>1, <1>2, <1>3, <1>4, <1>5 DEF Environment

\* Every change outdates what was recorded.
LEMMA Outdated ==
    ASSUME TypeOK, ServerMoves, NEW s, s.highestmodseq \in Nat,
           NumbersBehind(s)
    PROVE  ~UpToDate(s.highestmodseq)' /\ NumbersBehind(s)'
<1>1. modseq \in Nat /\ modseq' = modseq + 1 /\ CondStore \in BOOLEAN
  BY NumberAssumption DEF TypeOK, ServerMoves
<1>2. ~UpToDate(s.highestmodseq)'
  BY <1>1 DEF NumbersBehind, UpToDate, HighestModSeq
<1>3. s.highestmodseq <= HighestModSeq'
  BY <1>1 DEF NumbersBehind, HighestModSeq
<1>4. QED
  BY <1>2, <1>3 DEF NumbersBehind

\* A message with a UID that was known before has been there before.
LEMMA KnownUid ==
    ASSUME TypeOK, ServerMoves, uidvalidity' = uidvalidity, NEW n \in mailbox',
           n.uid < uidnext
    PROVE  \E m \in mailbox : m.uid = n.uid /\ m.kind = n.kind
<1>1. uidvalidity \in Nat /\ uidnext \in Nat
  BY DEF TypeOK, Uid
<1>2. QED
  BY <1>1 DEF ServerMoves

\* The types of the numbers in states.
LEMMA StateNumbers ==
    ASSUME TypeOK
    PROVE  /\ uidvalidity \in Nat /\ uidnext \in Nat
           /\ \A s \in folderState : s.highestmodseq \in Nat
           /\ \A r \in Request :
                /\ job[r] \in Job
                /\ job[r].seen.highestmodseq \in Nat
                /\ job[r].seen.uidvalidity \in Nat
                /\ job[r].seen.uidnext \in Nat
                /\ \A s \in job[r].known : s.highestmodseq \in Nat
<1>1. ASSUME NEW r \in Request
      PROVE  /\ job[r] \in Job
             /\ job[r].seen.highestmodseq \in Nat
             /\ job[r].seen.uidvalidity \in Nat
             /\ job[r].seen.uidnext \in Nat
             /\ \A s \in job[r].known : s.highestmodseq \in Nat
  <2>1. job[r] \in Job
    BY DEF TypeOK
  <2>2. QED
    BY <2>1, JobNumbers DEF FolderState
<1>2. QED
  BY <1>1 DEF TypeOK, Uid, FolderState

\* The tables when the server moves.
LEMMA ServerTables ==
    ASSUME TypeOK, TypeOK', BehindServer, TablesInv, ServerMoves
    PROVE  TablesInv'
<1>0. TypeOK /\ rows' = rows /\ folderState' = folderState
  BY DEF ServerMoves
<1>1. RowsDescribe'
  <2> SUFFICES ASSUME NEW x \in rows, x.uidvalidity = uidvalidity'
               PROVE  /\ x.uid < uidnext'
                      /\ \A n \in mailbox' : n.uid = x.uid => OfMessage(x, n)
    BY <1>0 DEF RowsDescribe
  <2>1. uidvalidity' = uidvalidity
    BY Numbers DEF ServerMoves, BehindServer
  <2>2. /\ x.uid < uidnext
        /\ \A m \in mailbox : m.uid = x.uid => OfMessage(x, m)
    BY <2>1 DEF TablesInv, RowsDescribe
  <2>3. x.uid \in Nat /\ uidnext \in Nat /\ uidnext' \in Nat
    BY DEF TypeOK, Row, Uid
  <2>4. QED
    BY <1>0, <2>1, <2>2, <2>3, KnownUid, StateNumbers DEF OfMessage, ServerMoves
<1>2. ASSUME NEW s \in folderState
      PROVE  NumbersBehind(s)' /\ Vouches(s)'
  BY <1>2, Outdated, StateNumbers DEF TablesInv, Vouches
<1>3. QED
  BY <1>0, <1>1, <1>2 DEF TablesInv

\* A cycle under way when the server moves.
LEMMA ServerCycle ==
    ASSUME TypeOK, TypeOK', BehindServer, ContentInv,
           NEW r \in Request, pc[r] \in Locked,
           CycleInv(r), ServerMoves
    PROVE  CycleInv(r)'
<1>0. /\ rows' = rows /\ folderState' = folderState
      /\ pc' = pc /\ job' = job /\ quiet' = {}
      /\ uidvalidity' = uidvalidity + 1 \/ uidvalidity' = uidvalidity
  BY DEF ServerMoves
<1>1. StateRead(r)'
  <2>1. ASSUME NEW s \in job[r].known
        PROVE  NumbersBehind(s)' /\ Vouches(s)'
    BY <2>1, Outdated, StateNumbers DEF CycleInv, StateRead, Vouches
  <2>2. QED
    BY <1>0, <2>1 DEF CycleInv, StateRead
<1>2. pc[r] \in Selected =>
        ~UpToDate(job[r].seen.highestmodseq)' /\ NumbersBehind(job[r].seen)'
  <2> SUFFICES ASSUME pc[r] \in Selected
               PROVE  /\ ~UpToDate(job[r].seen.highestmodseq)'
                      /\ NumbersBehind(job[r].seen)'
    OBVIOUS
  <2>1. PICK s : s = job[r].seen
    OBVIOUS
  <2>2. s.highestmodseq \in Nat /\ NumbersBehind(s)
    BY <2>1, StateNumbers DEF CycleInv, SelectionRead
  <2>3. ~UpToDate(s.highestmodseq)' /\ NumbersBehind(s)'
    BY <2>2, Outdated
  <2>4. s' = job'[r].seen
    BY <1>0, <2>1
  <2>5. QED
    BY <1>0, <2>1, <2>3 DEF UpToDate, NumbersBehind, HighestModSeq
<1>3. SelectionRead(r)'
  <2> SUFFICES ASSUME pc[r] \in Selected, job[r].seen.uidvalidity = uidvalidity'
               PROVE  job[r].seen.uidnext <= uidnext'
    BY <1>0, <1>2 DEF CycleInv, SelectionRead
  <2>1. uidvalidity' = uidvalidity /\ uidnext <= uidnext'
    BY StateNumbers DEF BehindServer, ServerMoves
  <2>2. job[r].seen.uidnext <= uidnext
    BY <2>1 DEF CycleInv, SelectionRead
  <2>3. uidnext \in Nat /\ uidnext' \in Nat
    BY DEF TypeOK, Uid
  <2>4. QED
    BY <2>1, <2>2, <2>3, StateNumbers
<1>4. KeptIsLive(r)'
  BY <1>0, <1>2 DEF KeptIsLive, Rebuilding
<1>5. EnvelopesDescribe(r)'
  <2> SUFFICES ASSUME pc[r] = "store", NEW e \in job[r].envelopes,
                      e.from = uidvalidity'
               PROVE  /\ e.uid < uidnext'
                      /\ \A n \in mailbox' : n.uid = e.uid => n.kind = e.kind
    BY <1>0 DEF EnvelopesDescribe
  <2>1. uidvalidity' = uidvalidity /\ uidnext <= uidnext'
    BY ContentNumbers DEF ContentInv, PartsNotOlder, ServerMoves
  <2>2. /\ e.uid < uidnext
        /\ \A m \in mailbox : m.uid = e.uid => m.kind = e.kind
    BY <2>1 DEF CycleInv, EnvelopesDescribe
  <2>3. e.uid \in Nat /\ uidnext \in Nat /\ uidnext' \in Nat
    <3>1. e \in Envelope
      BY StateNumbers, JobNumbers
    <3>2. QED
      BY <3>1 DEF TypeOK, Envelope, Uid
  <2>4. QED
    BY <2>1, <2>2, <2>3, KnownUid
<1>6. OlderRows(r)'
  BY <1>0 DEF CycleInv, OlderRows
\* A message of the range was there before.
<1>7. ASSUME pc[r] \in Selected, job[r].seen.uidvalidity = uidvalidity',
             NEW n \in mailbox', InRange(job[r], n)
      PROVE  /\ job[r].seen.uidvalidity = uidvalidity
             /\ \E m \in mailbox : /\ m.uid = n.uid /\ m.kind = n.kind
                                   /\ InRange(job[r], m)
  <2>1. uidvalidity' = uidvalidity
    BY <1>7, StateNumbers DEF BehindServer, ServerMoves
  <2>2. job[r].seen.uidnext <= uidnext
    BY <1>7, <2>1 DEF CycleInv, SelectionRead
  <2>3. n.uid < uidnext
    <3>1. n.uid \in Nat
      BY DEF TypeOK, Message, Uid
    <3>2. QED
      BY <1>7, <2>2, <3>1, StateNumbers DEF InRange
  <2>4. QED
    BY <1>7, <2>1, <2>3, KnownUid DEF InRange
<1>8. SearchesDone(r)'
  <2> SUFFICES ASSUME pc[r] = "discover",
                      job[r].seen.uidvalidity = uidvalidity',
                      NEW q \in job[r].policy.queries \ job[r].queries,
                      NEW n \in mailbox', InRange(job[r], n),
                      n.kind \in HitBy[q]
               PROVE  n.uid \in job[r].candidates
    BY <1>0 DEF CycleInv, SearchesDone
  <2>1. pc[r] \in Selected
    BY DEF Selected, Locked
  <2>2. QED
    BY <1>7, <2>1 DEF CycleInv, SearchesDone
<1>9. MessagesAccounted(r)'
  <2> SUFFICES ASSUME pc[r] \in Counting,
                      job[r].seen.uidvalidity = uidvalidity',
                      NEW n \in mailbox', InRange(job[r], n),
                      Approved(job[r].policy, n.kind)
               PROVE  n.uid \in Accounted(job[r]) \/ Dropped(r, n.uid)'
    BY <1>0 DEF MessagesAccounted
  <2>1. pc[r] \in Selected
    BY DEF Counting, Selected, Locked
  <2>2. n.uid \in Accounted(job[r]) \/ Dropped(r, n.uid)
    BY <1>7, <2>1 DEF CycleInv, MessagesAccounted
  <2>3. QED
    BY <1>0, <2>2 DEF Dropped
<1>10. QED
  BY <1>1, <1>3, <1>4, <1>5, <1>6, <1>8, <1>9 DEF CycleInv

\* Nothing that SyncInv speaks of changes.
LEMMA WaitSync ==
    ASSUME SyncInv, OnlyWaits
    PROVE  SyncInv'
<1>0. /\ rows' = rows /\ folderState' = folderState
      /\ pc' = pc /\ job' = job /\ quiet' = quiet
      /\ UNCHANGED server /\ RowsFrom
  BY SubsetFrom DEF OnlyWaits
<1>1. TablesInv'
  BY <1>0, TablesSame DEF SyncInv
<1>2. ASSUME NEW r \in Request PROVE LocalsInUse(r)'
  BY <1>0 DEF SyncInv, LocalsInUse
<1>3. ASSUME NEW r \in Request, pc'[r] \in Locked PROVE CycleInv(r)'
  <2>1. CycleInv(r)
    BY <1>0, <1>3 DEF SyncInv
  <2>2. StateRead(r)' /\ SelectionRead(r)'
    BY <1>0, <2>1, ReadSame DEF CycleInv
  <2>3. KeptIsLive(r)' /\ EnvelopesDescribe(r)' /\ OlderRows(r)'
    BY <1>0, <2>1, ServerSame
       DEF CycleInv, KeptIsLive, EnvelopesDescribe, OlderRows
  <2>4. SearchesDone(r)' /\ MessagesAccounted(r)'
    BY <1>0, <2>1, ServerSame
       DEF CycleInv, SearchesDone, MessagesAccounted, Dropped
  <2>5. QED
    BY <2>2, <2>3, <2>4 DEF CycleInv
<1>4. ASSUME NEW r \in quiet PROVE QuietInv(r)'
  BY <1>0, ServerSame DEF SyncInv, QuietInv, ServerNow
<1>5. QED
  BY <1>0, <1>1, <1>2, <1>3, <1>4 DEF SyncInv

\* The environment: what a cycle has counted on is either still so, or known
\* to be outdated.
LEMMA EnvironmentSync ==
    ASSUME TypeOK, TypeOK', BehindServer, ContentInv, SyncInv, Environment
    PROVE  SyncInv'
<1>1. CASE ServerMoves
  <2>1. TablesInv'
    BY <1>1, ServerTables DEF SyncInv
  <2>2. ASSUME NEW r \in Request PROVE LocalsInUse(r)'
    BY <1>1 DEF ServerMoves, SyncInv, LocalsInUse
  <2>3. ASSUME NEW r \in Request, pc'[r] \in Locked PROVE CycleInv(r)'
    BY <1>1, <2>3, ServerCycle DEF ServerMoves, SyncInv
  <2>4. QED
    BY <1>1, <2>1, <2>2, <2>3 DEF SyncInv, ServerMoves
<1>2. CASE OnlyWaits
  BY <1>2, WaitSync
<1>3. QED
  BY <1>1, <1>2, EnvironmentEffect

\* A request outside a cycle has no locals of one.
LEMMA NoLocals ==
    ASSUME NEW r \in Request, pc'[r] \in Unlocked,
           job'[r].candidates = {}, job'[r].fetch = {}, job'[r].keep = {},
           job'[r].envelopes = {}
    PROVE  LocalsInUse(r)'
BY DEF LocalsInUse, Unlocked, Counting

\* A request that has not begun has no locals in use.
LEMMA NoJobLocals ==
    /\ NoJob.candidates = {} /\ NoJob.fetch = {} /\ NoJob.keep = {}
    /\ NoJob.envelopes = {}
BY DEF NoJob

\* A crash leaves no cycle under way.
LEMMA CrashSync ==
    ASSUME SyncInv, Crash
    PROVE  SyncInv'
<1>1. /\ UNCHANGED server /\ rows' = rows /\ folderState' = folderState
      /\ quiet' = {}
      /\ \A r \in Request : pc'[r] = "idle" /\ job'[r] = NoJob
  BY DEF Crash, tables
<1>2. TablesInv'
  BY <1>1, SubsetFrom, TablesSame DEF SyncInv
<1>3. \A r \in Request : LocalsInUse(r)'
  BY <1>1, NoLocals, NoJobLocals DEF Unlocked
<1>4. QED
  BY <1>1, <1>2, <1>3 DEF SyncInv, Locked

\* A step of a request that is in no cycle afterwards: it may take rows away,
\* which disturbs every cycle.
LEMMA OutsideStep ==
    ASSUME TypeOK, SyncInv, NEW r \in Request, UNCHANGED server,
           \A s \in Request \ {r} : pc'[s] = pc[s] /\ job'[s] = job[s],
           RowsFrom, folderState' \subseteq folderState,
           quiet' \subseteq quiet \ {r}, rows' = rows \/ quiet' = {},
           pc'[r] \in Unlocked, LocalsInUse(r)'
    PROVE  SyncInv'
<1>1. TablesInv'
  BY TablesSame DEF SyncInv
<1>2. ASSUME NEW s \in Request PROVE LocalsInUse(s)'
  <2>1. CASE s # r
    <3>1. LocalsInUse(s) /\ pc'[s] = pc[s] /\ job'[s] = job[s]
      BY <2>1 DEF SyncInv
    <3>2. QED
      BY <3>1 DEF LocalsInUse
  <2>2. QED
    BY <2>1
<1>3. ASSUME NEW s \in Request, pc'[s] \in Locked PROVE CycleInv(s)'
  <2>1. s # r
    BY <1>3 DEF Locked, Unlocked
  <2>2. CycleInv(s) /\ pc'[s] = pc[s] /\ job'[s] = job[s]
    BY <1>3, <2>1 DEF SyncInv
  <2>3. StateRead(s)' /\ SelectionRead(s)'
    BY <2>2, ReadSame DEF CycleInv
  <2>4. KeptIsLive(s)' /\ EnvelopesDescribe(s)' /\ OlderRows(s)'
    <3>1. KeptIsLive(s)'
      <4>1. KeptIsLive(s)
        BY <2>2 DEF CycleInv
      <4>2. \A x \in rows' : \E y \in rows :
              x.uid = y.uid /\ (Live(y) => Live(x)')
        BY ServerSame, LiveSame DEF RowsFrom, SameRow
      <4>3. QED
        BY <2>2, <4>1, <4>2, ServerSame DEF KeptIsLive
    <3>2. EnvelopesDescribe(s)' /\ OlderRows(s)'
      BY <2>2, ServerSame
         DEF CycleInv, EnvelopesDescribe, OlderRows, RowsFrom, SameRow
    <3>3. QED
      BY <3>1, <3>2
  <2>5. SearchesDone(s)' /\ MessagesAccounted(s)'
    BY <2>2, ServerSame
       DEF CycleInv, SearchesDone, MessagesAccounted, Dropped
  <2>6. QED
    BY <2>3, <2>4, <2>5 DEF CycleInv
<1>4. ASSUME NEW s \in quiet' PROVE QuietInv(s)'
  <2>1. s \in quiet /\ s \in Request \ {r} /\ rows' = rows
    BY DEF TypeOK
  <2>2. QED
    BY <2>1, ServerSame DEF SyncInv, QuietInv, ServerNow
<1>5. QED
  BY <1>1, <1>2, <1>3, <1>4 DEF SyncInv

\* What a request that starts has in its locals.
LEMMA StartEffect ==
    ASSUME TypeOK, NEW r \in Request, Start(r)
    PROVE  /\ pc'[r] \in Unlocked /\ job'[r].policy = policy
           /\ job'[r].candidates = {} /\ job'[r].fetch = {}
           /\ job'[r].keep = {} /\ job'[r].envelopes = {}
           /\ job'[r].expired = {PublicId(x) : x \in Expired(job'[r].now)}
<1>1. PICK c \in Cap :
        LET j == [NoJob EXCEPT !.policy = policy, !.cap = c, !.now = clock,
                    !.expired = {PublicId(x) : x \in Expired(clock)}]
        IN Go(r, j, IF j.expired = {} THEN "lock" ELSE "expire")
  BY DEF Start
<1> DEFINE gone == {PublicId(x) : x \in Expired(clock)}
           j == [NoJob EXCEPT !.policy = policy, !.cap = c, !.now = clock,
                              !.expired = gone]
           phase == IF j.expired = {} THEN "lock" ELSE "expire"
<1>2. Go(r, j, phase)
  BY <1>1
<1>3. /\ j.policy = policy /\ j.candidates = {} /\ j.fetch = {}
      /\ j.keep = {} /\ j.envelopes = {} /\ j.now = clock /\ j.expired = gone
  <2> HIDE DEF gone
  <2> QED BY NoJobType, NoJobLocals DEF Job
<1>4. pc'[r] = phase /\ job'[r] = j
  <2> HIDE DEF j, phase
  <2> QED BY <1>2, GoSets
<1>5. phase \in Unlocked
  BY DEF Unlocked
<1>6. job'[r].expired = {PublicId(x) : x \in Expired(job'[r].now)}
  <2>1. job'[r].expired = gone /\ job'[r].now = clock
    <3> HIDE DEF j, gone
    <3> QED BY <1>3, <1>4
  <2>2. QED
    BY <2>1
<1>7. QED
  <2> HIDE DEF j, phase
  <2> QED BY <1>3, <1>4, <1>5, <1>6

\* What a purge changes.
LEMMA CleanupEffect ==
    ASSUME TypeOK, NEW r \in Request, CleanupExpired(r)
    PROVE  /\ pc[r] = "expire" /\ pc'[r] = "lock"
           /\ SameRead(job[r], job'[r])
           /\ job'[r].candidates = job[r].candidates
           /\ job'[r].fetch = job[r].fetch /\ job'[r].keep = job[r].keep
           /\ job'[r].envelopes = job[r].envelopes
           /\ UNCHANGED server /\ rows' \subseteq rows
           /\ folderState' \subseteq folderState
           /\ (quiet' = quiet /\ rows' = rows) \/ quiet' = {}
<1> DEFINE j == [job[r] EXCEPT !.now = clock, !.expired = {}]
<1>1. Go(r, j, "lock") /\ pc[r] = "expire"
  BY DEF CleanupExpired
<1>2. job[r] \in Job
  BY DEF TypeOK
<1>3. /\ SameRead(job[r], j) /\ j.candidates = job[r].candidates
      /\ j.fetch = job[r].fetch /\ j.keep = job[r].keep
      /\ j.envelopes = job[r].envelopes
  BY <1>2 DEF Job, SameRead
<1>4. pc'[r] = "lock" /\ job'[r] = j
  <2> HIDE DEF j
  <2> QED BY <1>1, GoSets
<1>5. UNCHANGED server /\ ((quiet' = quiet /\ rows' = rows) \/ quiet' = {})
  BY DEF CleanupExpired
<1>6. QED
  <2> HIDE DEF j
  <2> QED BY <1>1, <1>3, <1>4, <1>5, CleanupType

\* A cycle that ends, in whatever way.
LEMMA FinishEffect ==
    ASSUME TypeOK, NEW r \in Request, Finish(r)
    PROVE  /\ pc'[r] = "idle" /\ job'[r] = NoJob /\ quiet' = quiet \ {r}
           /\ LocalsInUse(r)'
           /\ \A s \in Request \ {r} : pc'[s] = pc[s] /\ job'[s] = job[s]
<1>1. /\ pc'[r] = "idle" /\ job'[r] = NoJob /\ quiet' = quiet \ {r}
      /\ \A s \in Request \ {r} : pc'[s] = pc[s] /\ job'[s] = job[s]
  BY GoSets DEF Finish
<1>2. QED
  BY <1>1, NoLocals, NoJobLocals DEF Unlocked

\* Who is not in a cycle is not counted as undisturbed.
LEMMA WaitingSync ==
    ASSUME TypeOK, SyncInv, NEW r \in Request,
           Start(r) \/ CleanupExpired(r) \/ Fail(r)
    PROVE  SyncInv'
<1>1. CASE Start(r)
  <2>1. /\ UNCHANGED server /\ rows' = rows /\ folderState' = folderState
        /\ quiet' = quiet /\ pc[r] = "idle"
        /\ \A s \in Request \ {r} : pc'[s] = pc[s] /\ job'[s] = job[s]
    BY <1>1, RequestStartType DEF Start, tables
  <2>2. r \notin quiet
    BY <2>1 DEF SyncInv, QuietInv, Selected, Locked
  <2>3. pc'[r] \in Unlocked /\ LocalsInUse(r)'
    BY <1>1, StartEffect, NoLocals
  <2>4. QED
    BY <2>1, <2>2, <2>3, SubsetFrom, OutsideStep
<1>2. CASE CleanupExpired(r)
  <2>1. r \notin quiet /\ LocalsInUse(r)
    BY <1>2, CleanupEffect DEF SyncInv, QuietInv, Selected, Locked
  <2>2. pc'[r] \in Unlocked /\ LocalsInUse(r)'
    BY <1>2, <2>1, CleanupEffect, NoLocals DEF LocalsInUse, Unlocked
  <2>3. QED
    BY <1>2, <2>1, <2>2, CleanupEffect, CleanupType, SubsetFrom, OutsideStep
<1>3. CASE Fail(r)
  <2>1. /\ UNCHANGED server /\ rows' = rows /\ folderState' = folderState
        /\ Finish(r)
    BY <1>3 DEF Fail, tables
  <2>2. QED
    BY <2>1, FinishEffect, SubsetFrom, OutsideStep DEF Unlocked
<1>4. QED
  BY <1>1, <1>2, <1>3

-----------------------------------------------------------------------------
(* The beginning of a cycle *)

\* Nobody else is in a cycle.
LEMMA OthersOutside ==
    ASSUME TypeOK, MutexOK, NEW r \in Request, pc[r] \in Locked \/ lock = {}
    PROVE  \A s \in Request \ {r} : pc[s] \notin Locked
BY DEF MutexOK

\* A cycle begins with the state recorded.
LEMMA AcquireSync ==
    ASSUME TypeOK, MutexOK, SyncInv, NEW r \in Request, Acquire(r)
    PROVE  SyncInv'
<1> DEFINE j == [job[r] EXCEPT !.known = folderState]
<1>1. /\ pc[r] = "lock" /\ UNCHANGED server /\ rows' = rows
      /\ folderState' = folderState /\ quiet' = quiet /\ Go(r, j, "select")
  BY DEF Acquire, tables
<1>2. job[r] \in Job
  BY DEF TypeOK
<1>3. /\ j.known = folderState /\ j.candidates = job[r].candidates
      /\ j.fetch = job[r].fetch /\ j.keep = job[r].keep
      /\ j.envelopes = job[r].envelopes
  BY <1>2 DEF Job
<1>4. pc'[r] = "select" /\ job'[r] = j
  <2> HIDE DEF j
  <2> QED BY <1>1, GoSets
<1> HIDE DEF j
<1>5. TablesInv'
  BY <1>1, SubsetFrom, TablesSame DEF SyncInv
<1>6. LocalsInUse(r)'
  <2>1. LocalsInUse(r)
    BY DEF SyncInv
  <2>2. QED
    BY <1>1, <1>3, <1>4, <2>1 DEF LocalsInUse, Unlocked, Counting
<1>7. CycleInv(r)'
  <2>1. StateRead(r)'
    BY <1>1, <1>3, <1>4, <1>5 DEF StateRead, TablesInv
  <2>2. QED
    BY <1>4, <2>1 DEF CycleInv, SelectionRead, KeptIsLive, EnvelopesDescribe,
         OlderRows, SearchesDone, MessagesAccounted, Counting, Rebuilding,
         Selected, Locked
<1>8. r \notin quiet'
  BY <1>1 DEF SyncInv, QuietInv, Selected, Locked
<1>9. \A s \in Request \ {r} : /\ pc[s] \notin Locked
                               /\ pc'[s] = pc[s] /\ job'[s] = job[s]
  BY AcquireType, OthersOutside
<1>10. QED
  BY <1>1, <1>5, <1>6, <1>7, <1>8, <1>9, CycleStep DEF TypeOK

\* The three ways on from SelectFolder.
LEMMA SelectEffect ==
    ASSUME TypeOK, NEW r \in Request, SelectFolder(r)
    PROVE  LET j == job[r]
               k == job'[r]
           IN /\ pc[r] = "select" /\ k.seen = ServerNow
              /\ k.policy = j.policy /\ k.cap = j.cap /\ k.known = j.known
              /\ k.candidates = j.candidates /\ k.fetch = j.fetch
              /\ k.keep = j.keep /\ k.envelopes = j.envelopes
              /\ \/ /\ pc'[r] = "invalidate" /\ k.queries = j.policy.queries
                    /\ \A s \in j.known : s.uidvalidity # uidvalidity
                 \/ /\ pc'[r] = "verify" /\ k.whole
                    /\ \E s \in j.known : Unmodified(s, j.policy, ServerNow)
                 \/ /\ pc'[r] = "discover" /\ k.queries = j.policy.queries
                    /\ \E s \in j.known :
                         /\ s.uidvalidity = uidvalidity
                         /\ ~Unmodified(s, j.policy, ServerNow)
<1> DEFINE j == [job[r] EXCEPT !.seen = ServerNow,
                               !.queries = job[r].policy.queries]
           fast == [j EXCEPT !.queries = {}, !.whole = TRUE]
<1>1. \/ /\ \A s \in j.known : s.uidvalidity # uidvalidity
         /\ Go(r, j, "invalidate")
      \/ /\ \E s \in j.known : Unmodified(s, j.policy, ServerNow)
         /\ Go(r, fast, "verify")
      \/ /\ \E s \in j.known : /\ s.uidvalidity = uidvalidity
                               /\ ~Unmodified(s, j.policy, ServerNow)
         /\ Go(r, j, "discover")
  BY DEF SelectFolder, ServerNow
<1>2. job[r] \in Job
  BY DEF TypeOK
<1>3. /\ j.seen = ServerNow /\ j.policy = job[r].policy /\ j.cap = job[r].cap
      /\ j.known = job[r].known /\ j.candidates = job[r].candidates
      /\ j.fetch = job[r].fetch /\ j.keep = job[r].keep
      /\ j.envelopes = job[r].envelopes /\ j.queries = job[r].policy.queries
  BY <1>2 DEF Job
<1>4. /\ fast.seen = ServerNow /\ fast.policy = job[r].policy
      /\ fast.cap = job[r].cap /\ fast.known = job[r].known
      /\ fast.candidates = job[r].candidates
      /\ fast.fetch = job[r].fetch /\ fast.keep = job[r].keep
      /\ fast.envelopes = job[r].envelopes /\ fast.whole
  BY <1>2 DEF Job
<1>5. pc[r] = "select"
  BY DEF SelectFolder
<1> HIDE DEF j, fast
<1>6. QED
  BY <1>1, <1>3, <1>4, <1>5, GoSets

\* What SelectFolder returns.
LEMMA ServerNowFields ==
    /\ ServerNow.uidvalidity = uidvalidity /\ ServerNow.uidnext = uidnext
    /\ ServerNow.highestmodseq = HighestModSeq
BY DEF ServerNow

\* A selection: what the fast path trusts is still true.
LEMMA SelectSync ==
    ASSUME TypeOK, MutexOK, RowsAsSelected', SyncInv,
           NEW r \in Request, SelectFolder(r)
    PROVE  SyncInv'
<1>1. /\ UNCHANGED server /\ rows' = rows /\ folderState' = folderState
      /\ quiet' = quiet \cup {r} /\ RowsFrom
  BY SubsetFrom DEF SelectFolder, tables
<1>2. /\ pc[r] = "select" /\ pc'[r] \in {"invalidate", "verify", "discover"}
      /\ job'[r].seen = ServerNow
      /\ job'[r].policy = job[r].policy /\ job'[r].known = job[r].known
      /\ job'[r].candidates = job[r].candidates
      /\ job'[r].fetch = job[r].fetch /\ job'[r].keep = job[r].keep
      /\ job'[r].envelopes = job[r].envelopes
      /\ pc'[r] # "verify" => job'[r].queries = job[r].policy.queries
      /\ pc'[r] = "verify" =>
           /\ job'[r].whole
           /\ \E s \in job[r].known : Unmodified(s, job[r].policy, ServerNow)
  BY SelectEffect
<1>3. TablesInv'
  BY <1>1, TablesSame DEF SyncInv
<1>4. LocalsInUse(r) /\ CycleInv(r)
  BY <1>2 DEF SyncInv, Locked
<1>5. LocalsInUse(r)'
  BY <1>2, <1>4 DEF LocalsInUse, Unlocked, Counting
<1>6. ServerNow' = ServerNow
  BY <1>1, ServerSame DEF ServerNow
<1>7. StateRead(r)'
  <2>1. ASSUME NEW s \in job[r].known
        PROVE  NumbersBehind(s)' /\ Vouches(s)'
    BY <1>1, <1>4, ServerSame, VouchesSame DEF CycleInv, StateRead
  <2>2. QED
    BY <1>2, <1>4, <2>1 DEF CycleInv, StateRead
<1>8. SelectionRead(r)'
  <2>1. HighestModSeq \in Nat
    BY DEF HighestModSeq, TypeOK
  <2>2. PICK s : s = ServerNow
    OBVIOUS
  <2>3. NumbersBehind(s)'
    <3>1. NumbersBehind(s)
      BY <2>1, <2>2, ServerNowFields DEF NumbersBehind
    <3>2. QED
      BY <1>1, <3>1, ServerSame
  <2>4. uidnext <= uidnext
    BY DEF TypeOK, Uid
  <2>5. \A t \in folderState \cup job[r].known :
          t.highestmodseq <= HighestModSeq
    BY <1>4 DEF SyncInv, TablesInv, CycleInv, StateRead, NumbersBehind
  <2>6. QED
    BY <1>1, <1>2, <2>2, <2>3, <2>4, <2>5, ServerNowFields, ServerSame
       DEF SelectionRead
<1>9. pc'[r] = "verify" => \A x \in rows : Live(x)
  BY <1>2, <1>4, ServerNowFields
     DEF CycleInv, StateRead, Vouches, UpToDate, Unmodified
<1>10. KeptIsLive(r)'
  <2>1. pc'[r] # "invalidate" => job'[r].keep = {}
    BY <1>2, <1>4 DEF LocalsInUse
  <2>2. \A x \in rows' : Live(x)' <=> Live(x)
    BY <1>1, ServerSame
  <2>3. QED
    BY <1>1, <1>2, <1>9, <2>1, <2>2
       DEF KeptIsLive, Rebuilding, Selected, Locked
<1>11. OlderRows(r)'
  <2> SUFFICES ASSUME pc'[r] \in Rebuilding, NEW x \in rows
               PROVE  x.uid < uidnext
    BY <1>1, <1>2, ServerNowFields DEF OlderRows
  <2>1. x.uidvalidity = uidvalidity
    BY <1>1, <1>2, ServerNowFields DEF RowsAsSelected
  <2>2. QED
    BY <2>1 DEF SyncInv, TablesInv, RowsDescribe
<1>12. SearchesDone(r)'
  BY <1>2, <1>4 DEF SearchesDone, LocalsInUse
<1>13. CycleInv(r)'
  BY <1>2, <1>7, <1>8, <1>10, <1>11, <1>12
     DEF CycleInv, EnvelopesDescribe, MessagesAccounted, Counting
<1>14. QuietInv(r)'
  <2>1. job'[r].candidates = {}
    BY <1>2, <1>4 DEF LocalsInUse
  <2>2. pc'[r] = "verify" =>
          \A x \in rows' : \E m \in mailbox' : m.uid = x.uid
    BY <1>1, <1>9, ServerSame DEF Live, OfMessage
  <2>3. QED
    BY <1>2, <1>6, <2>1, <2>2
       DEF QuietInv, Rebuilding, Selected, Locked, Counting
<1>15. \A s \in Request \ {r} : /\ pc[s] \notin Locked
                                /\ pc'[s] = pc[s] /\ job'[s] = job[s]
  BY <1>2, SelectType, OthersOutside DEF Locked
<1>16. QED
  BY <1>1, <1>3, <1>5, <1>13, <1>14, <1>15, CycleStep DEF TypeOK

\* What DeleteByFolder changes.
LEMMA InvalidateEffect ==
    ASSUME TypeOK, NEW r \in Request, DeleteByFolder(r)
    PROVE  LET j == job[r]
               k == job'[r]
           IN /\ pc[r] = "invalidate" /\ pc'[r] = "discover"
              /\ k.policy = j.policy /\ k.cap = j.cap /\ k.known = {}
              /\ k.seen = j.seen /\ k.queries = j.queries
              /\ k.candidates = j.candidates /\ k.fetch = j.fetch
              /\ k.keep = j.keep /\ k.envelopes = j.envelopes
<1> DEFINE j == [job[r] EXCEPT !.known = {}]
<1>1. pc[r] = "invalidate" /\ Go(r, j, "discover")
  BY DEF DeleteByFolder
<1>2. job[r] \in Job
  BY DEF TypeOK
<1>3. /\ j.policy = job[r].policy /\ j.cap = job[r].cap /\ j.known = {}
      /\ j.seen = job[r].seen /\ j.queries = job[r].queries
      /\ j.candidates = job[r].candidates /\ j.fetch = job[r].fetch
      /\ j.keep = job[r].keep /\ j.envelopes = job[r].envelopes
  BY <1>2 DEF Job
<1> HIDE DEF j
<1>4. QED
  BY <1>1, <1>3, GoSets

\* After the rows of another generation have been dropped.
LEMMA InvalidateSync ==
    ASSUME TypeOK, MutexOK, SyncInv, NEW r \in Request, DeleteByFolder(r)
    PROVE  SyncInv'
<1>1. /\ UNCHANGED server /\ rows' = {} /\ folderState' = folderState
      /\ quiet' = quiet
  BY DEF DeleteByFolder
<1>2. /\ pc[r] = "invalidate" /\ pc'[r] = "discover"
      /\ job'[r].policy = job[r].policy /\ job'[r].known = {}
      /\ job'[r].seen = job[r].seen /\ job'[r].queries = job[r].queries
      /\ job'[r].candidates = job[r].candidates
      /\ job'[r].fetch = job[r].fetch /\ job'[r].keep = job[r].keep
      /\ job'[r].envelopes = job[r].envelopes
  BY InvalidateEffect
<1>3. LocalsInUse(r) /\ CycleInv(r)
  BY <1>2 DEF SyncInv, Locked
<1>4. TablesInv'
  BY <1>1, SubsetFrom, TablesSame DEF SyncInv
<1>5. LocalsInUse(r)'
  BY <1>2, <1>3 DEF LocalsInUse, Unlocked, Counting
<1>6. CycleInv(r)'
  <2>1. StateRead(r)'
    BY <1>2 DEF StateRead
  <2>2. SelectionRead(r)'
    <3>1. SelectionRead(r) /\ pc[r] \in Selected
      BY <1>2, <1>3 DEF CycleInv, Selected, Locked
    <3>2. QED
      BY <1>1, <1>2, <3>1, ServerSame DEF SelectionRead
  <2>3. KeptIsLive(r)' /\ EnvelopesDescribe(r)' /\ OlderRows(r)'
    BY <1>1, <1>2 DEF KeptIsLive, EnvelopesDescribe, OlderRows
  <2>4. SearchesDone(r)' /\ MessagesAccounted(r)'
    BY <1>2, <1>3
       DEF CycleInv, SearchesDone, LocalsInUse, MessagesAccounted, Counting
  <2>5. QED
    BY <2>1, <2>2, <2>3, <2>4 DEF CycleInv
<1>7. ASSUME r \in quiet PROVE QuietInv(r)'
  <2>1. QuietInv(r) /\ job'[r].candidates = {}
    BY <1>2, <1>3, <1>7 DEF SyncInv, LocalsInUse
  <2>2. QED
    BY <1>1, <1>2, <2>1, ServerSame
       DEF QuietInv, ServerNow, Selected, Locked, Counting
<1>8. \A s \in Request \ {r} : /\ pc[s] \notin Locked
                               /\ pc'[s] = pc[s] /\ job'[s] = job[s]
  BY <1>2, InvalidateType, OthersOutside, GoSets DEF Locked, DeleteByFolder
<1>9. QED
  BY <1>1, <1>4, <1>5, <1>6, <1>7, <1>8, CycleStep DEF TypeOK

-----------------------------------------------------------------------------
(* The steps of a cycle that has selected the folder *)

\* A step that stores nothing: what it has to say for itself.
LEMMA InnerStep ==
    ASSUME TypeOK, MutexOK, SyncInv, NEW r \in Request,
           UNCHANGED server, RowsFrom, folderState' = folderState,
           quiet' = quiet,
           \A s \in Request \ {r} : pc'[s] = pc[s] /\ job'[s] = job[s],
           pc[r] \in Rebuilding, pc'[r] \in Rebuilding,
           SameRead(job[r], job'[r]), job[r].keep \subseteq job'[r].keep,
           LocalsInUse(r)', KeptIsLive(r)', EnvelopesDescribe(r)',
           SearchesDone(r)', MessagesAccounted(r)',
           r \in quiet => QuietInv(r)'
    PROVE  SyncInv'
<1>1. /\ pc[r] \in Locked /\ pc'[r] # "select"
      /\ pc[r] \in Selected /\ pc'[r] \in Selected
  BY DEF Rebuilding, Selected
<1>2. CycleInv(r)
  BY <1>1 DEF SyncInv
<1>3. TablesInv'
  BY TablesSame DEF SyncInv
<1>4. StateRead(r)' /\ SelectionRead(r)'
  BY <1>1, <1>2, ReadSame DEF CycleInv, SameRead
<1>5. OlderRows(r)'
  <2>1. \A y \in rows : y.uid < job[r].seen.uidnext \/ y.uid \in job[r].keep
    BY <1>2 DEF CycleInv, OlderRows
  <2>2. QED
    BY <2>1 DEF OlderRows, RowsFrom, SameRow, SameRead
<1>6. CycleInv(r)'
  BY <1>4, <1>5 DEF CycleInv
<1>7. \A s \in Request \ {r} : pc[s] \notin Locked
  BY <1>1, OthersOutside
<1>8. QED
  BY <1>3, <1>6, <1>7, CycleStep DEF TypeOK

\* What an undisturbed cycle knows of the server.
LEMMA QuietKnows ==
    ASSUME SyncInv, NEW r \in quiet
    PROVE  /\ job[r].seen.uidvalidity = uidvalidity
           /\ job[r].seen.uidnext = uidnext
           /\ job[r].seen.highestmodseq = HighestModSeq
           /\ pc[r] \in Selected
BY ServerNowFields DEF SyncInv, QuietInv

\* The end of a discovery: the UIDs found are in the range, and miss no approved
\* message of it.
LEMMA DiscoverSync ==
    ASSUME TypeOK, MutexOK, SyncInv, ContentInv, NEW r \in Request,
           pc[r] = "discover", NEW base \in Job, SameRead(job[r], base),
           base.keep = job[r].keep, base.envelopes = job[r].envelopes,
           NEW uids \in SUBSET Uid,
           \A u \in uids : InScope(job[r], u),
           job[r].seen.uidvalidity = uidvalidity =>
             \A m \in mailbox : InRange(job[r], m)
               /\ Approved(job[r].policy, m.kind) => m.uid \in uids,
           r \in quiet => \A u \in uids : \E m \in mailbox : m.uid = u,
           Go(r, Discovered(base, uids), Sift(Discovered(base, uids))),
           Unchanged_but_job
    PROVE  SyncInv'
<1> DEFINE k == Discovered(base, uids)
<1>1. /\ UNCHANGED server /\ rows' = rows /\ folderState' = folderState
      /\ quiet' = quiet /\ RowsFrom
  BY SubsetFrom DEF Unchanged_but_job, tables
<1>2. /\ pc'[r] = Sift(k) /\ job'[r] = k
      /\ \A s \in Request \ {r} : pc'[s] = pc[s] /\ job'[s] = job[s]
  BY GoSets
<1>3. LocalsInUse(r) /\ CycleInv(r)
  BY DEF SyncInv, Locked
<1>4. /\ job[r].keep = {} /\ job[r].envelopes = {}
  BY <1>3 DEF LocalsInUse
<1>5. /\ k \in Job /\ SameRead(base, k)
      /\ k.keep = {} /\ k.envelopes = {}
      /\ k.fetch = k.candidates /\ k.candidates \subseteq uids
      /\ k.whole => ~Windowed(base) /\ k.candidates = uids
  BY <1>4, DiscoveredEffect, DiscoveredType
<1>6. /\ \A u \in uids : InScope(base, u)
      /\ Windowed(base) <=> Windowed(k)
  BY <1>5, SameScope
<1>7. SameRead(job[r], k)
  BY <1>5 DEF SameRead
<1>8. /\ Sift(k) \in {"compare", "headers", "envelopes", "prune", "mark",
                      "commit"}
      /\ Sift(k) = "commit" => ~k.whole /\ ~Windowed(k)
      /\ Sift(k) \in {"prune", "mark", "commit"} => k.fetch = {}
      /\ Sift(k) = "compare" => CachedRowsAreCurrent(k)
  <2>1. /\ Reconcile(k) \in {"prune", "mark", "commit"}
        /\ Reconcile(k) = "commit" => ~k.whole /\ ~Windowed(k)
        /\ \/ Gate(k) \in {"headers", "envelopes"}
           \/ k.fetch = {} /\ Gate(k) = Reconcile(k)
        /\ \/ Sift(k) = "compare" /\ CachedRowsAreCurrent(k)
           \/ Sift(k) = Gate(k)
    BY <1>5, Leads
  <2>2. QED
    BY <2>1
<1>9. ASSUME r \in quiet
      PROVE  /\ k.whole \/ Windowed(k)
             /\ \A u \in uids : u < k.seen.uidnext
  <2>1. job[r].seen.uidnext = uidnext
    BY <1>9, QuietKnows
  <2>2. \A u \in uids : u < base.seen.uidnext
    BY <1>9, <2>1 DEF ContentInv, UidsFresh, SameRead
  <2>3. QED
    BY <1>5, <1>6, <2>2, NoTruncation DEF SameRead
<1> HIDE DEF k
<1>10. LocalsInUse(r)'
  BY <1>2, <1>5, <1>6, <1>8 DEF LocalsInUse, Unlocked, CachedRowsAreCurrent
<1>11. KeptIsLive(r)' /\ EnvelopesDescribe(r)' /\ SearchesDone(r)'
  BY <1>2, <1>5, <1>8 DEF KeptIsLive, EnvelopesDescribe, SearchesDone
<1>12. MessagesAccounted(r)'
  <2> SUFFICES ASSUME job[r].seen.uidvalidity = uidvalidity,
                      NEW m \in mailbox, InRange(job[r], m),
                      Approved(job[r].policy, m.kind), m.uid \notin k.candidates
               PROVE  Dropped(r, m.uid)'
    BY <1>1, <1>2, <1>5, <1>7, SameScope, ServerSame
       DEF MessagesAccounted, Accounted, SameRead
  <2>1. m.uid \in uids
    OBVIOUS
  <2>2. /\ ~k.whole
        /\ IF Windowed(base) THEN m.uid = base.seen.uidnext - base.cap
                             ELSE \A c \in k.candidates : m.uid < c
        /\ \E v \in uids : v >= base.seen.uidnext
    BY <1>6, <2>1, Truncation DEF k
  <2>3. base.seen = k.seen /\ base.cap = k.cap
    BY <1>5 DEF SameRead
  <2>4. r \notin quiet
    <3>1. k.seen.uidnext \in Nat /\ uids \subseteq Nat
      BY <1>5, JobNumbers DEF Uid
    <3>2. QED
      BY <1>9, <2>2, <2>3, <3>1
  <2>5. QED
    BY <1>1, <1>2, <1>6, <2>2, <2>3, <2>4 DEF Dropped, Windowed
<1>13. ASSUME r \in quiet PROVE QuietInv(r)'
  <2>1. k.seen = ServerNow /\ ServerNow' = ServerNow
    BY <1>1, <1>7, <1>13, ServerSame DEF SyncInv, QuietInv, SameRead, ServerNow
  <2>2. \A u \in k.candidates : \E m \in mailbox : m.uid = u
    BY <1>5, <1>13
  <2>3. Accounted(k) = k.candidates
    BY <1>5 DEF Accounted
  <2>4. pc'[r] \in Selected /\ pc'[r] \notin {"verify", "commit"}
    BY <1>2, <1>8, <1>9, <1>13 DEF Selected, Locked
  <2>5. k.whole \/ Windowed(k)
    BY <1>9, <1>13
  <2>6. /\ \A u \in Accounted(k) : \E m \in mailbox : m.uid = u
        /\ \A u \in k.keep : \E x \in rows : x.uid = u
    BY <1>5, <2>2, <2>3
  <2>7. QED
    BY <1>1, <1>2, <2>1, <2>2, <2>4, <2>5, <2>6, ServerSame
       DEF QuietInv, Accounted, Windowed
<1>14. pc[r] \in Rebuilding /\ pc'[r] \in Rebuilding
  BY <1>2, <1>8 DEF Rebuilding, Selected, Locked
<1>15. SameRead(job[r], job'[r]) /\ job[r].keep \subseteq job'[r].keep
  BY <1>2, <1>4, <1>7
<1>16. QED
  BY <1>1, <1>2, <1>10, <1>11, <1>12, <1>13, <1>14, <1>15, InnerStep

\* A listing finds all messages in the range.
LEMMA ListSync ==
    ASSUME TypeOK, MutexOK, SyncInv, ContentInv, NEW r \in Request, ListUIDs(r)
    PROVE  SyncInv'
<1> DEFINE base == [job[r] EXCEPT !.queries = {}]
           uids == {m.uid : m \in {n \in mailbox : InScope(job[r], n.uid)}}
<1>1. job[r] \in Job /\ mailbox \subseteq Message
  BY DEF TypeOK
<1>2. /\ base \in Job /\ SameRead(job[r], base)
      /\ base.keep = job[r].keep /\ base.envelopes = job[r].envelopes
  BY <1>1 DEF Job, SameRead
<1>3. /\ uids \in SUBSET Uid
      /\ \A u \in uids : InScope(job[r], u)
      /\ \A u \in uids : \E m \in mailbox : m.uid = u
      /\ \A m \in mailbox : InRange(job[r], m) => m.uid \in uids
  BY <1>1 DEF Message, InRange
<1>4. /\ pc[r] = "discover"
      /\ Go(r, Discovered(base, uids), Sift(Discovered(base, uids)))
      /\ Unchanged_but_job
  BY DEF ListUIDs
<1> HIDE DEF base, uids
<1>5. QED
  BY <1>2, <1>3, <1>4, DiscoverSync

\* One search of several, or the last one.
LEMMA SearchSync ==
    ASSUME TypeOK, MutexOK, SyncInv, ContentInv, NEW r \in Request,
           SearchAllowed(r)
    PROVE  SyncInv'
<1>1. PICK q \in job[r].queries :
        LET hits == {m.uid : m \in {n \in mailbox :
                       InScope(job[r], n.uid) /\ n.kind \in HitBy[q]}}
            uids == job[r].candidates \cup hits
            left == [job[r] EXCEPT !.queries = @ \ {q}, !.candidates = uids]
            j    == Discovered(left, uids)
        IN IF left.queries # {} THEN Go(r, left, "discover")
                                ELSE Go(r, j, Sift(j))
  BY DEF SearchAllowed
<1> DEFINE hits == {m.uid : m \in {n \in mailbox :
                      InScope(job[r], n.uid) /\ n.kind \in HitBy[q]}}
           uids == job[r].candidates \cup hits
           left == [job[r] EXCEPT !.queries = @ \ {q}, !.candidates = uids]
<1>2. job[r] \in Job /\ mailbox \subseteq Message
  BY DEF TypeOK
<1>3. /\ hits \in SUBSET Uid
      /\ \A u \in hits : InScope(job[r], u) /\ \E m \in mailbox : m.uid = u
      /\ \A m \in mailbox : InRange(job[r], m) /\ m.kind \in HitBy[q]
                               => m.uid \in hits
  BY <1>2 DEF Message, InRange
<1>4. \/ left.queries # {} /\ Go(r, left, "discover")
      \/ /\ left.queries = {}
         /\ Go(r, Discovered(left, uids), Sift(Discovered(left, uids)))
  BY <1>1
<1>5. /\ pc[r] = "discover" /\ Unchanged_but_job /\ ~job[r].policy.full
  BY DEF SearchAllowed
<1> HIDE DEF hits
<1>6. uids \in SUBSET Uid
  BY <1>2, <1>3 DEF Job
<1> HIDE DEF uids
<1>7. /\ left \in Job /\ SameRead(job[r], left)
      /\ left.keep = job[r].keep /\ left.envelopes = job[r].envelopes
      /\ left.fetch = job[r].fetch /\ left.candidates = uids
      /\ left.queries = job[r].queries \ {q}
  BY <1>2, <1>6 DEF Job, SameRead
<1> HIDE DEF left
<1>8. LocalsInUse(r) /\ CycleInv(r)
  BY <1>5 DEF SyncInv, Locked
<1>9. \A u \in uids : InScope(job[r], u)
  BY <1>3, <1>5, <1>8 DEF uids, CycleInv, SearchesDone
<1>10. ASSUME r \in quiet PROVE \A u \in uids : \E m \in mailbox : m.uid = u
  BY <1>3, <1>5, <1>10 DEF uids, SyncInv, QuietInv
<1>11. job[r].seen.uidvalidity = uidvalidity =>
         \A p \in job[r].policy.queries \ left.queries, m \in mailbox :
            InRange(job[r], m) /\ m.kind \in HitBy[p] => m.uid \in uids
  BY <1>3, <1>5, <1>7, <1>8 DEF uids, CycleInv, SearchesDone
<1>12. CASE left.queries = {}
  <2>1. \A m \in mailbox : Approved(job[r].policy, m.kind) =>
          \E p \in job[r].policy.queries : m.kind \in HitBy[p]
    <3>1. job[r].policy.queries \subseteq Query
      BY <1>2, JobNumbers, PolicyAssumption
    <3>2. QED
      BY <1>5, <3>1, SearchAssumption DEF Approved
  <2>2. job[r].seen.uidvalidity = uidvalidity =>
          \A m \in mailbox : InRange(job[r], m)
            /\ Approved(job[r].policy, m.kind) => m.uid \in uids
    BY <1>11, <1>12, <2>1
  <2>3. QED
    BY <1>4, <1>5, <1>6, <1>7, <1>9, <1>10, <1>12, <2>2, DiscoverSync
<1>13. CASE left.queries # {}
  <2>1. /\ UNCHANGED server /\ rows' = rows /\ folderState' = folderState
        /\ quiet' = quiet /\ RowsFrom
    BY <1>5, SubsetFrom DEF Unchanged_but_job, tables
  <2>2. /\ pc'[r] = "discover" /\ job'[r] = left
        /\ \A s \in Request \ {r} : pc'[s] = pc[s] /\ job'[s] = job[s]
    BY <1>4, <1>13, GoSets
  <2>3. LocalsInUse(r)'
    BY <1>5, <1>7, <1>8, <2>2 DEF LocalsInUse, Unlocked, Counting
  <2>4. /\ KeptIsLive(r)' /\ EnvelopesDescribe(r)' /\ MessagesAccounted(r)'
    <3>1. job[r].keep = {}
      BY <1>5, <1>8 DEF LocalsInUse
    <3>2. QED
      BY <1>7, <2>2, <3>1
         DEF KeptIsLive, EnvelopesDescribe, MessagesAccounted, Counting
  <2>5. SearchesDone(r)'
    BY <1>7, <1>9, <1>11, <2>1, <2>2, SameScope, ServerSame
       DEF SearchesDone, SameRead
  <2>6. ASSUME r \in quiet PROVE QuietInv(r)'
    <3>1. left.seen = ServerNow /\ ServerNow' = ServerNow
      BY <1>7, <2>1, <2>6, ServerSame DEF SyncInv, QuietInv, SameRead, ServerNow
    <3>2. QED
      BY <1>7, <1>10, <2>1, <2>2, <2>6, <3>1, ServerSame
         DEF QuietInv, Selected, Locked, Counting
  <2>7. QED
    BY <1>5, <1>7, <2>1, <2>2, <2>3, <2>4, <2>5, <2>6, InnerStep
       DEF Rebuilding, Selected, Locked
<1>14. QED
  BY <1>12, <1>13

\* What a cycle that counts its UIDs relies on, in one place.
LEMMA CountingKnows ==
    ASSUME SyncInv, NEW r \in Request, pc[r] \in Counting
    PROVE  /\ LocalsInUse(r) /\ CycleInv(r)
           /\ pc[r] \in Rebuilding
           /\ pc[r] # "store" => job[r].envelopes = {}
           /\ job[r].whole => ~Windowed(job[r])
           /\ r \in quiet =>
                /\ job[r].seen = ServerNow
                /\ job[r].whole \/ Windowed(job[r])
                /\ \A u \in job[r].candidates \cup Accounted(job[r]) :
                     \E m \in mailbox : m.uid = u
                /\ \A u \in job[r].keep : \E x \in rows : x.uid = u
<1>1. pc[r] \in Locked /\ pc[r] \in Rebuilding
      /\ pc[r] \notin {"discover", "verify", "commit"}
  BY DEF Counting, Rebuilding, Selected, Locked
<1>2. LocalsInUse(r) /\ CycleInv(r)
  BY <1>1 DEF SyncInv
<1>3. r \in quiet => QuietInv(r)
  BY DEF SyncInv
<1>4. QED
  BY <1>1, <1>2, <1>3 DEF LocalsInUse, QuietInv

\* A step of the counting that leaves the rows alone: no UID is lost, and none
\* is gained that the server does not have.
LEMMA CountingStep ==
    ASSUME TypeOK, MutexOK, SyncInv, NEW r \in Request,
           pc[r] \in Counting \ {"store", "prune"}, NEW k \in Job,
           NEW phase \in {"headers", "envelopes", "store", "mark", "prune",
                          "commit"},
           Go(r, k, phase), Unchanged_but_job,
           SameRead(job[r], k), job[r].keep \subseteq k.keep,
           k.candidates = job[r].candidates, k.whole = job[r].whole,
           phase \in {"store", "mark", "prune", "commit"} => k.fetch = {},
           phase # "store" => k.envelopes = {},
           phase = "commit" => ~k.whole /\ ~Windowed(k),
           UpToDate(job[r].seen.highestmodseq) =>
             \A x \in rows : x.uid \in k.keep => Live(x),
           \A e \in k.envelopes : \E m \in mailbox :
             m.uid = e.uid /\ m.kind = e.kind /\ m.modseq = e.modseq,
           UidsFresh,
           \A m \in mailbox : Approved(job[r].policy, m.kind)
             /\ m.uid \in Accounted(job[r]) => m.uid \in Accounted(k),
           \A u \in Accounted(k) :
             u \in job[r].candidates \cup Accounted(job[r])
               \/ \E m \in mailbox : m.uid = u,
           \A u \in k.keep :
             u \in job[r].keep \/ \E x \in rows : x.uid = u
    PROVE  SyncInv'
<1>1. /\ UNCHANGED server /\ rows' = rows /\ folderState' = folderState
      /\ quiet' = quiet /\ RowsFrom
  BY SubsetFrom DEF Unchanged_but_job, tables
<1>2. /\ pc'[r] = phase /\ job'[r] = k
      /\ \A s \in Request \ {r} : pc'[s] = pc[s] /\ job'[s] = job[s]
  BY GoSets
<1>3. /\ LocalsInUse(r) /\ CycleInv(r) /\ pc[r] \in Rebuilding
      /\ job[r].whole => ~Windowed(job[r])
      /\ r \in quiet =>
           /\ job[r].seen = ServerNow
           /\ job[r].whole \/ Windowed(job[r])
           /\ \A u \in job[r].candidates \cup Accounted(job[r]) :
                \E m \in mailbox : m.uid = u
           /\ \A u \in job[r].keep : \E x \in rows : x.uid = u
  BY CountingKnows
<1>4. /\ Windowed(k) <=> Windowed(job[r])
      /\ \A m : InRange(k, m) <=> InRange(job[r], m)
  BY SameScope
<1>5. k.seen = job[r].seen /\ k.policy = job[r].policy /\ k.cap = job[r].cap
  BY DEF SameRead
<1>6. LocalsInUse(r)'
  BY <1>2, <1>3, <1>4 DEF LocalsInUse, Unlocked, Windowed
<1>7. KeptIsLive(r)'
  BY <1>1, <1>2, <1>5, ServerSame DEF KeptIsLive
<1>8. EnvelopesDescribe(r)'
  <2> SUFFICES ASSUME NEW e \in k.envelopes
               PROVE  /\ e.uid < uidnext
                      /\ \A m \in mailbox : m.uid = e.uid => m.kind = e.kind
    BY <1>1, <1>2, ServerSame DEF EnvelopesDescribe
  <2>1. PICK m \in mailbox : m.uid = e.uid /\ m.kind = e.kind
    OBVIOUS
  <2>2. QED
    BY <2>1 DEF UidsFresh
<1>9. SearchesDone(r)'
  BY <1>2 DEF SearchesDone
<1>10. MessagesAccounted(r)'
  <2> SUFFICES ASSUME phase \in Counting,
                      k.seen.uidvalidity = uidvalidity,
                      NEW m \in mailbox, InRange(k, m),
                      Approved(k.policy, m.kind), m.uid \notin Accounted(k)
               PROVE  Dropped(r, m.uid)'
    BY <1>1, <1>2, ServerSame DEF MessagesAccounted, Accounted
  <2>1. Dropped(r, m.uid)
    BY <1>3, <1>4, <1>5 DEF CycleInv, MessagesAccounted
  <2>2. QED
    BY <1>1, <1>2, <1>4, <1>5, <2>1 DEF Dropped, Windowed
<1>11. ASSUME r \in quiet PROVE QuietInv(r)'
  <2>1. k.seen = ServerNow /\ ServerNow' = ServerNow
    BY <1>1, <1>3, <1>5, <1>11, ServerSame DEF ServerNow
  <2>2. phase \in Selected /\ phase \notin {"verify", "commit"}
        /\ (k.whole \/ Windowed(k))
    BY <1>3, <1>4, <1>11 DEF Selected, Locked
  <2>3. /\ \A u \in k.candidates : \E m \in mailbox : m.uid = u
        /\ \A u \in Accounted(k) : \E m \in mailbox : m.uid = u
        /\ \A u \in k.keep : \E x \in rows : x.uid = u
    BY <1>3, <1>11
  <2>4. QED
    BY <1>1, <1>2, <2>1, <2>2, <2>3, ServerSame
       DEF QuietInv, Accounted, Windowed
<1>12. pc'[r] \in Rebuilding
  BY <1>2 DEF Rebuilding, Selected, Locked
<1>13. QED
  BY <1>1, <1>2, <1>3, <1>6, <1>7, <1>8, <1>9, <1>10, <1>11, <1>12, InnerStep

\* The UIDs cached already are kept.  They are only looked for when the rows
\* are current, or the server has no mod-sequences to tell.
LEMMA UncachedSync ==
    ASSUME TypeOK, MutexOK, SyncInv, ContentInv, NEW r \in Request,
           UncachedUIDs(r)
    PROVE  SyncInv'
<1> DEFINE held == job[r].candidates \cap {x.uid : x \in rows}
           k == [job[r] EXCEPT !.fetch = @ \ held, !.keep = held,
                               !.observed = held]
<1>1. pc[r] = "compare" /\ Go(r, k, Gate(k)) /\ Unchanged_but_job
  BY DEF UncachedUIDs
<1>2. job[r] \in Job /\ held \subseteq job[r].candidates
      /\ \A u \in held : \E x \in rows : x.uid = u
  BY DEF TypeOK
<1> HIDE DEF held
<1>3. held \in SUBSET Uid
  BY <1>2, JobNumbers
<1>4. /\ k \in Job /\ SameRead(job[r], k) /\ k.whole = job[r].whole
      /\ k.candidates = job[r].candidates /\ k.envelopes = job[r].envelopes
      /\ k.fetch = job[r].fetch \ held /\ k.keep = held
  BY <1>2, <1>3 DEF Job, SameRead
<1> HIDE DEF k
<1>5. /\ Gate(k) \in {"headers", "envelopes", "mark", "prune", "commit"}
      /\ Gate(k) \in {"mark", "prune", "commit"} => k.fetch = {}
      /\ Gate(k) = "commit" => ~k.whole /\ ~Windowed(k)
  <2>1. /\ Reconcile(k) \in {"prune", "mark", "commit"}
        /\ Reconcile(k) = "commit" => ~k.whole /\ ~Windowed(k)
        /\ \/ Gate(k) \in {"headers", "envelopes"}
           \/ k.fetch = {} /\ Gate(k) = Reconcile(k)
    BY <1>4, Leads
  <2>2. QED
    BY <2>1
<1>6. pc[r] \in Counting
  BY <1>1 DEF Counting
<1>7. /\ LocalsInUse(r) /\ CycleInv(r) /\ job[r].envelopes = {}
  BY <1>1, <1>6, CountingKnows
<1>8. /\ job[r].fetch = job[r].candidates /\ job[r].keep = {}
      /\ CachedRowsAreCurrent(job[r])
  BY <1>1, <1>7 DEF LocalsInUse
<1>9. UpToDate(job[r].seen.highestmodseq) => \A x \in rows : Live(x)
  BY <1>7, <1>8 DEF CachedRowsAreCurrent, UpToDate, CycleInv, StateRead, Vouches
<1>10. Accounted(k) = job[r].candidates /\ Accounted(job[r]) = job[r].candidates
  BY <1>2, <1>4, <1>7, <1>8 DEF Accounted
<1>11. QED
  BY <1>1, <1>2, <1>4, <1>5, <1>6, <1>7, <1>8, <1>9, <1>10, CountingStep
     DEF ContentInv

\* The local gate loses no approved message.
LEMMA AllowedSync ==
    ASSUME TypeOK, MutexOK, SyncInv, ContentInv, NEW r \in Request,
           PolicyAllowedUIDs(r)
    PROVE  SyncInv'
<1> DEFINE allowed == {m.uid : m \in {n \in mailbox :
              n.uid \in job[r].fetch /\ Approved(job[r].policy, n.kind)}}
           k == [job[r] EXCEPT !.fetch = allowed]
           phase == IF allowed = {} THEN Reconcile(k) ELSE "envelopes"
<1>1. pc[r] = "headers" /\ Go(r, k, phase) /\ Unchanged_but_job
  BY DEF PolicyAllowedUIDs
<1>2. /\ job[r] \in Job /\ allowed \in SUBSET Uid
      /\ allowed \subseteq job[r].fetch
      /\ \A m \in mailbox : Approved(job[r].policy, m.kind)
           /\ m.uid \in job[r].fetch => m.uid \in allowed
  BY DEF TypeOK, Message
<1> HIDE DEF allowed
<1>3. /\ k \in Job /\ SameRead(job[r], k) /\ k.whole = job[r].whole
      /\ k.candidates = job[r].candidates /\ k.envelopes = job[r].envelopes
      /\ k.fetch = allowed /\ k.keep = job[r].keep
  BY <1>2 DEF Job, SameRead
<1> HIDE DEF k
<1>4. /\ phase \in {"envelopes", "mark", "prune", "commit"}
      /\ phase \in {"mark", "prune", "commit"} => k.fetch = {}
      /\ phase = "commit" => ~k.whole /\ ~Windowed(k)
  BY <1>3, Leads
<1> HIDE DEF phase
<1>5. pc[r] \in Counting
  BY <1>1 DEF Counting
<1>6. /\ LocalsInUse(r) /\ CycleInv(r) /\ job[r].envelopes = {}
      /\ pc[r] \in Rebuilding
  BY <1>1, <1>5, CountingKnows
<1>7. UpToDate(job[r].seen.highestmodseq) =>
        \A x \in rows : x.uid \in job[r].keep => Live(x)
  BY <1>6 DEF CycleInv, KeptIsLive
<1>8. /\ \A m \in mailbox : Approved(job[r].policy, m.kind)
           /\ m.uid \in Accounted(job[r]) => m.uid \in Accounted(k)
      /\ Accounted(k) \subseteq Accounted(job[r])
  BY <1>2, <1>3 DEF Accounted
<1>9. QED
  BY <1>1, <1>3, <1>4, <1>5, <1>6, <1>7, <1>8, CountingStep DEF ContentInv

\* The envelopes fetched are of the messages that passed the gate.
LEMMA FetchSync ==
    ASSUME TypeOK, MutexOK, SyncInv, ContentInv, NEW r \in Request,
           FetchEnvelopes(r)
    PROVE  SyncInv'
<1> DEFINE envelopes == {[uid |-> m.uid, kind |-> m.kind, modseq |-> m.modseq,
                          from |-> uidvalidity] :
                            m \in {n \in mailbox : n.uid \in job[r].fetch}}
           k == [job[r] EXCEPT !.fetch = {}, !.envelopes = envelopes]
           phase == IF envelopes = {} THEN Reconcile(k) ELSE "store"
<1>1. pc[r] = "envelopes" /\ Go(r, k, phase) /\ Unchanged_but_job
  BY DEF FetchEnvelopes
<1>2. /\ job[r] \in Job /\ envelopes \in SUBSET Envelope
      /\ \A e \in envelopes : \E m \in mailbox :
           m.uid = e.uid /\ m.kind = e.kind /\ m.modseq = e.modseq
      /\ \A m \in mailbox : m.uid \in job[r].fetch =>
           \E e \in envelopes : e.uid = m.uid
  <2>1. job[r] \in Job /\ envelopes \in SUBSET Envelope
    BY DEF TypeOK, Message, Envelope
  <2>2. \A e \in envelopes : \E m \in mailbox :
          m.uid = e.uid /\ m.kind = e.kind /\ m.modseq = e.modseq
    OBVIOUS
  <2>3. ASSUME NEW m \in mailbox, m.uid \in job[r].fetch
        PROVE  \E e \in envelopes : e.uid = m.uid
    <3>1. [uid |-> m.uid, kind |-> m.kind, modseq |-> m.modseq,
           from |-> uidvalidity] \in envelopes
      BY <2>3
    <3>2. QED
      BY <3>1
  <2>4. QED
    BY <2>1, <2>2, <2>3
<1> HIDE DEF envelopes
<1>3. /\ k \in Job /\ SameRead(job[r], k) /\ k.whole = job[r].whole
      /\ k.candidates = job[r].candidates /\ k.envelopes = envelopes
      /\ k.fetch = {} /\ k.keep = job[r].keep
  BY <1>2 DEF Job, SameRead
<1> HIDE DEF k
<1>4. /\ phase \in {"store", "mark", "prune", "commit"}
      /\ phase # "store" => k.envelopes = {}
      /\ phase = "commit" => ~k.whole /\ ~Windowed(k)
  BY <1>3, Leads
<1> HIDE DEF phase
<1>5. pc[r] \in Counting
  BY <1>1 DEF Counting
<1>6. /\ LocalsInUse(r) /\ CycleInv(r) /\ job[r].envelopes = {}
      /\ pc[r] \in Rebuilding
  BY <1>1, <1>5, CountingKnows
<1>7. UpToDate(job[r].seen.highestmodseq) =>
        \A x \in rows : x.uid \in job[r].keep => Live(x)
  BY <1>6 DEF CycleInv, KeptIsLive
<1>8. /\ \A m \in mailbox : m.uid \in Accounted(job[r]) => m.uid \in Accounted(k)
      /\ \A u \in Accounted(k) : u \in Accounted(job[r])
                                   \/ \E m \in mailbox : m.uid = u
  <2>1. Accounted(job[r]) = job[r].keep \cup job[r].fetch
    BY <1>6 DEF Accounted
  <2>2. Accounted(k) = job[r].keep \cup {e.uid : e \in envelopes}
    BY <1>3 DEF Accounted
  <2>3. QED
    BY <1>2, <2>1, <2>2
<1>9. QED
  BY <1>1, <1>2, <1>3, <1>4, <1>5, <1>6, <1>7, <1>8, CountingStep
     DEF ContentInv

\* One envelope turns into a row, in place of the row that had its UID.
LEMMA StoreEffect ==
    ASSUME TypeOK, RowsAsSelected, NEW r \in Request, StoreMessage(r)
    PROVE  \E e \in job[r].envelopes :
             LET k == job'[r]
             IN /\ pc[r] = "store" /\ UNCHANGED server
                /\ folderState' = folderState /\ quiet' = quiet
                /\ SameRead(job[r], k) /\ k.whole = job[r].whole
                /\ k.candidates = job[r].candidates /\ k.fetch = job[r].fetch
                /\ k.keep = job[r].keep \cup {e.uid}
                /\ k.envelopes = job[r].envelopes \ {e}
                /\ \A x \in rows' : \/ x = Stored(r, e)
                                    \/ x \in rows /\ x.uid # e.uid
                /\ \A x \in rows : x.uid = e.uid \/ x \in rows'
                /\ Stored(r, e) \in rows'
                /\ pc'[r] \in {"store", "mark", "prune", "commit"}
                /\ pc'[r] # "store" => k.envelopes = {}
                /\ pc'[r] = "commit" => ~k.whole /\ ~Windowed(k)
                /\ \A s \in Request \ {r} : pc'[s] = pc[s] /\ job'[s] = job[s]
<1>1. PICK e \in job[r].envelopes :
        LET row == [uidvalidity |-> job[r].seen.uidvalidity, uid |-> e.uid,
                    envelope |-> e,
                    body |-> IF \E m \in mailbox : m.uid = e.uid
                               THEN uidvalidity ELSE 0,
                    verified |-> job[r].now]
            j == [job[r] EXCEPT !.envelopes = @ \ {e}, !.keep = @ \cup {e.uid}]
        IN /\ rows' = {x \in rows : PublicId(x) # PublicId(row)} \cup {row}
           /\ Go(r, j, IF j.envelopes = {} THEN Reconcile(j) ELSE "store")
  BY DEF StoreMessage
<1> DEFINE k == [job[r] EXCEPT !.envelopes = @ \ {e}, !.keep = @ \cup {e.uid}]
           phase == IF k.envelopes = {} THEN Reconcile(k) ELSE "store"
<1>2. job[r] \in Job /\ e.uid \in Uid
  <2>1. job[r] \in Job
    BY DEF TypeOK
  <2>2. e \in Envelope
    BY <2>1 DEF Job
  <2>3. QED
    BY <2>1, <2>2 DEF Envelope
<1>3. /\ rows' = {x \in rows : PublicId(x) # PublicId(Stored(r, e))}
                   \cup {Stored(r, e)}
      /\ Go(r, k, phase)
  BY <1>1 DEF Stored
<1>4. /\ k \in Job /\ SameRead(job[r], k) /\ k.whole = job[r].whole
      /\ k.candidates = job[r].candidates /\ k.fetch = job[r].fetch
      /\ k.keep = job[r].keep \cup {e.uid}
      /\ k.envelopes = job[r].envelopes \ {e}
  BY <1>2 DEF Job, SameRead
<1> HIDE DEF k
<1>5. /\ phase \in {"store", "mark", "prune", "commit"}
      /\ phase # "store" => k.envelopes = {}
      /\ phase = "commit" => ~k.whole /\ ~Windowed(k)
  BY <1>4, Leads
<1> HIDE DEF phase
<1>6. /\ pc'[r] = phase /\ job'[r] = k
      /\ \A s \in Request \ {r} : pc'[s] = pc[s] /\ job'[s] = job[s]
  BY <1>3, GoSets
<1>7. /\ pc[r] = "store" /\ UNCHANGED server
      /\ folderState' = folderState /\ quiet' = quiet
  BY DEF StoreMessage
<1>8. /\ \A x \in rows' : x = Stored(r, e) \/ (x \in rows /\ x.uid # e.uid)
      /\ \A x \in rows : x.uid = e.uid \/ x \in rows'
      /\ Stored(r, e) \in rows'
  <2>1. \A x \in rows : x.uidvalidity = job[r].seen.uidvalidity
    BY <1>7 DEF RowsAsSelected, Rebuilding, Selected, Locked
  <2>2. PublicId(Stored(r, e)) = <<job[r].seen.uidvalidity, e.uid>>
    BY DEF PublicId, Stored
  <2>3. \A x \in rows : PublicId(x) = PublicId(Stored(r, e)) <=> x.uid = e.uid
    BY <2>1, <2>2 DEF PublicId
  <2>4. QED
    BY <1>3, <2>3
<1>9. QED
  BY <1>4, <1>5, <1>6, <1>7, <1>8

\* The new row is a message of the server, if its UIDVALIDITY is.
LEMMA StoredIs ==
    ASSUME TypeOK, ContentInv, NEW r \in Request, NEW e \in job[r].envelopes,
           pc[r] = "store", CycleInv(r)
    PROVE  LET x == Stored(r, e)
           IN /\ x.uid = e.uid
              /\ x.uidvalidity = uidvalidity =>
                   /\ x.uid < uidnext
                   /\ \A m \in mailbox : m.uid = x.uid => OfMessage(x, m)
              /\ UpToDate(job[r].seen.highestmodseq) => Live(x)
<1> DEFINE x == Stored(r, e)
<1>1. /\ x.uidvalidity = job[r].seen.uidvalidity /\ x.uid = e.uid
      /\ x.envelope = e
      /\ \A m \in mailbox : m.uid = e.uid => x.body = uidvalidity
  BY DEF Stored
<1>2. x.uidvalidity = uidvalidity => e.from = uidvalidity
  <2>1. job[r].seen.uidvalidity <= e.from /\ e.from <= uidvalidity
    BY DEF ContentInv, PartsNotOlder
  <2>2. uidvalidity \in Nat /\ e.from \in Nat
    <3>1. job[r] \in Job
      BY DEF TypeOK
    <3>2. e \in Envelope
      BY <3>1, JobNumbers
    <3>3. QED
      BY <3>2 DEF TypeOK, Envelope
  <2>3. QED
    BY <1>1, <2>1, <2>2
<1> HIDE DEF x
<1>3. ASSUME x.uidvalidity = uidvalidity
      PROVE  /\ x.uid < uidnext
             /\ \A m \in mailbox : m.uid = x.uid => OfMessage(x, m)
  BY <1>1, <1>2, <1>3 DEF CycleInv, EnvelopesDescribe, OfMessage
<1>4. ASSUME UpToDate(job[r].seen.highestmodseq)
      PROVE  Live(x)
  <2>1. pc[r] \in Rebuilding /\ pc[r] \in Selected
    BY DEF Rebuilding, Selected, Locked
  <2>2. x.uidvalidity = uidvalidity
    BY <1>1, <1>4, <2>1 DEF CycleInv, SelectionRead, NumbersBehind
  <2>3. PICK m \in mailbox : /\ m.uid = e.uid /\ m.kind = e.kind
                             /\ m.modseq = e.modseq
    BY <1>4, <2>1 DEF CycleInv, KeptIsLive
  <2>4. QED
    BY <1>1, <1>2, <2>2, <2>3 DEF Live, OfMessage
<1>5. QED
  BY <1>1, <1>3, <1>4 DEF x

\* A state that is up to date was recorded under the mod-sequence selected.
LEMMA SelectionUpToDate ==
    ASSUME TypeOK, NEW r \in Request, SelectionRead(r), pc[r] \in Selected,
           NEW s \in folderState \cup job[r].known, UpToDate(s.highestmodseq)
    PROVE  UpToDate(job[r].seen.highestmodseq)
<1>1. s.highestmodseq \in Nat /\ job[r].seen.highestmodseq \in Nat
  BY StateNumbers
<1>2. /\ s.highestmodseq <= job[r].seen.highestmodseq
      /\ job[r].seen.highestmodseq <= HighestModSeq
  BY DEF SelectionRead, NumbersBehind
<1>3. HighestModSeq \in Nat
  BY DEF HighestModSeq, TypeOK
<1>4. QED
  BY <1>1, <1>2, <1>3 DEF UpToDate

\* A message that is stored stays accounted for.
LEMMA StoreSync ==
    ASSUME TypeOK, MutexOK, RowsAsSelected, SyncInv, ContentInv,
           NEW r \in Request, StoreMessage(r)
    PROVE  SyncInv'
<1>1. PICK e \in job[r].envelopes :
             /\ pc[r] = "store" /\ UNCHANGED server
             /\ folderState' = folderState /\ quiet' = quiet
             /\ SameRead(job[r], job'[r]) /\ job'[r].whole = job[r].whole
             /\ job'[r].candidates = job[r].candidates
             /\ job'[r].fetch = job[r].fetch
             /\ job'[r].keep = job[r].keep \cup {e.uid}
             /\ job'[r].envelopes = job[r].envelopes \ {e}
             /\ \A x \in rows' : \/ x = Stored(r, e)
                                 \/ x \in rows /\ x.uid # e.uid
             /\ \A x \in rows : x.uid = e.uid \/ x \in rows'
             /\ Stored(r, e) \in rows'
             /\ pc'[r] \in {"store", "mark", "prune", "commit"}
             /\ pc'[r] # "store" => job'[r].envelopes = {}
             /\ pc'[r] = "commit" => ~job'[r].whole /\ ~Windowed(job'[r])
             /\ \A s \in Request \ {r} : pc'[s] = pc[s] /\ job'[s] = job[s]
  BY StoreEffect
<1>2. PICK y : y = Stored(r, e)
  OBVIOUS
<1>3. /\ pc[r] \in Counting /\ pc[r] \in Rebuilding /\ pc[r] \in Locked
      /\ pc[r] \in Selected /\ pc'[r] \in Selected /\ pc'[r] # "select"
  BY <1>1 DEF Counting, Rebuilding, Selected, Locked
<1>4. /\ LocalsInUse(r) /\ CycleInv(r)
      /\ job[r].whole => ~Windowed(job[r])
      /\ r \in quiet =>
           /\ job[r].seen = ServerNow
           /\ job[r].whole \/ Windowed(job[r])
           /\ \A u \in job[r].candidates \cup Accounted(job[r]) :
                \E m \in mailbox : m.uid = u
           /\ \A u \in job[r].keep : \E x \in rows : x.uid = u
  BY <1>3, CountingKnows
<1>5. /\ y.uid = e.uid
      /\ y.uidvalidity = uidvalidity =>
           /\ y.uid < uidnext
           /\ \A m \in mailbox : m.uid = y.uid => OfMessage(y, m)
      /\ UpToDate(job[r].seen.highestmodseq) => Live(y)
  BY <1>1, <1>2, <1>4, StoredIs
<1>6. \A x \in rows' : x = y \/ (x \in rows /\ x.uid # e.uid)
  BY <1>1, <1>2
<1>7. /\ \A z : Live(z)' <=> Live(z)
      /\ \A s : NumbersBehind(s)' <=> NumbersBehind(s)
      /\ \A h : UpToDate(h)' <=> UpToDate(h)
      /\ mailbox' = mailbox /\ uidvalidity' = uidvalidity /\ uidnext' = uidnext
      /\ HighestModSeq' = HighestModSeq
  BY <1>1, ServerSame
\* A state that is up to date vouches for the new row as well.
<1>8. ASSUME NEW s \in folderState \cup job[r].known, Vouches(s)
      PROVE  Vouches(s)'
  <2>1. UpToDate(s.highestmodseq) => \A x \in rows' : Live(x)
    BY <1>3, <1>4, <1>5, <1>6, <1>8, SelectionUpToDate DEF CycleInv, Vouches
  <2>2. QED
    BY <1>7, <2>1 DEF Vouches
<1>9. TablesInv'
  <2>1. RowsDescribe'
    BY <1>5, <1>6, <1>7 DEF SyncInv, TablesInv, RowsDescribe
  <2>2. \A s \in folderState : NumbersBehind(s)' /\ Vouches(s)'
    BY <1>7, <1>8 DEF SyncInv, TablesInv
  <2>3. QED
    BY <1>1, <2>1, <2>2 DEF SyncInv, TablesInv
<1>10. LocalsInUse(r)'
  <2>1. /\ job[r].fetch = {} /\ (job'[r].whole => ~Windowed(job'[r]))
    BY <1>1, <1>4, SameScope DEF LocalsInUse
  <2>2. QED
    BY <1>1, <2>1 DEF LocalsInUse, Unlocked, Windowed
<1>11. StateRead(r)'
  <2>1. \A s \in job[r].known : NumbersBehind(s)' /\ Vouches(s)'
    BY <1>4, <1>7, <1>8 DEF CycleInv, StateRead
  <2>2. QED
    BY <1>1, <1>3, <1>4, <2>1 DEF CycleInv, StateRead, SameRead
<1>12. SelectionRead(r)'
  <2>1. PICK sel : sel = job[r].seen
    OBVIOUS
  <2>2. NumbersBehind(sel)'
    BY <1>3, <1>4, <1>7, <2>1 DEF CycleInv, SelectionRead
  <2>3. QED
    BY <1>1, <1>3, <1>4, <1>7, <2>1, <2>2 DEF CycleInv, SelectionRead, SameRead
<1>13. KeptIsLive(r)'
  <2>1. KeptIsLive(r)
    BY <1>4 DEF CycleInv
  <2>2. ASSUME UpToDate(job[r].seen.highestmodseq), NEW x \in rows',
               x.uid \in job'[r].keep
        PROVE  Live(x)
    BY <1>1, <1>3, <1>5, <1>6, <2>1, <2>2 DEF KeptIsLive
  <2>3. job'[r].seen = job[r].seen
    BY <1>1 DEF SameRead
  <2>4. QED
    BY <1>1, <1>3, <1>7, <2>1, <2>2, <2>3 DEF KeptIsLive
<1>14. EnvelopesDescribe(r)' /\ OlderRows(r)'
  <2>1. EnvelopesDescribe(r)'
    BY <1>1, <1>4, <1>7 DEF CycleInv, EnvelopesDescribe
  <2>2. OlderRows(r)'
    BY <1>1, <1>3, <1>4, <1>5, <1>6 DEF CycleInv, OlderRows, SameRead
  <2>3. QED
    BY <2>1, <2>2
<1>15. Accounted(job'[r]) = Accounted(job[r])
  BY <1>1 DEF Accounted
<1>16. SearchesDone(r)' /\ MessagesAccounted(r)'
  <2>1. \A m : InRange(job'[r], m) <=> InRange(job[r], m)
    BY <1>1, SameScope
  <2>2. \A u : Dropped(r, u)' <=> Dropped(r, u)
    BY <1>1 DEF Dropped, SameRead, Windowed
  <2>3. job'[r].seen = job[r].seen /\ job'[r].policy = job[r].policy
    BY <1>1 DEF SameRead
  <2>4. PICK k : k = job'[r]
    OBVIOUS
  <2>5. MessagesAccounted(r)'
    <3> SUFFICES ASSUME k.seen.uidvalidity = uidvalidity,
                        NEW m \in mailbox, InRange(k, m),
                        Approved(k.policy, m.kind)
                 PROVE  m.uid \in Accounted(k) \/ Dropped(r, m.uid)'
      BY <1>7, <2>4 DEF MessagesAccounted, Accounted
    <3>1. m.uid \in Accounted(job[r]) \/ Dropped(r, m.uid)
      BY <1>3, <1>4, <2>1, <2>3, <2>4 DEF CycleInv, MessagesAccounted
    <3>2. QED
      BY <1>15, <2>2, <2>4, <3>1
  <2>6. QED
    BY <1>1, <2>5 DEF SearchesDone
<1>17. ASSUME r \in quiet PROVE QuietInv(r)'
  <2>1. job'[r].seen = ServerNow /\ ServerNow' = ServerNow
    BY <1>1, <1>4, <1>7, <1>17 DEF SameRead, ServerNow
  <2>2. pc'[r] \notin {"verify", "commit"}
        /\ (job'[r].whole \/ Windowed(job'[r]))
    BY <1>1, <1>4, <1>17, SameScope
  <2>3. \A u \in job'[r].keep : \E x \in rows' : x.uid = u
    BY <1>1, <1>2, <1>4, <1>5, <1>17
  <2>4. \A u \in job'[r].candidates \cup Accounted(job'[r]) :
          \E m \in mailbox : m.uid = u
    BY <1>1, <1>4, <1>15, <1>17
  <2>5. QED
    BY <1>3, <1>7, <2>1, <2>2, <2>3, <2>4 DEF QuietInv, Accounted, Windowed
<1>18. CycleInv(r)'
  BY <1>11, <1>12, <1>13, <1>14, <1>16 DEF CycleInv
<1>19. \A s \in Request \ {r} : pc[s] \notin Locked
  BY <1>3, OthersOutside
<1>20. QED
  BY <1>1, <1>9, <1>10, <1>17, <1>18, <1>19, CycleStep DEF TypeOK

-----------------------------------------------------------------------------
(* The end of a cycle *)

\* The UIDs of the rows stay what they are.
LEMMA RowUids ==
    ASSUME RowsFrom, RowsStay, NEW S
    PROVE  (\A u \in S : \E x \in rows : x.uid = u)
             => \A u \in S : \E x \in rows' : x.uid = u
BY DEF RowsStay, SameRow

\* A step that only says something about rows, for the cycle that takes it.
LEMMA CountingRows ==
    ASSUME TypeOK, MutexOK, SyncInv, NEW r \in Request, pc[r] \in {"mark", "prune"},
           UNCHANGED server, RowsFrom, folderState' = folderState,
           quiet' = quiet, SameRead(job[r], job'[r]),
           job'[r].candidates = job[r].candidates,
           job'[r].whole = job[r].whole, job'[r].keep = job[r].keep,
           job'[r].fetch = job[r].fetch, job'[r].envelopes = job[r].envelopes,
           pc'[r] \in {"mark", "prune"},
           \A s \in Request \ {r} : pc'[s] = pc[s] /\ job'[s] = job[s],
           (\A u \in job[r].keep : \E x \in rows : x.uid = u)
             => \A u \in job[r].keep : \E x \in rows' : x.uid = u
    PROVE  SyncInv'
<1>1. pc[r] \in Counting /\ pc'[r] \in Counting
      /\ pc'[r] \in Rebuilding /\ pc'[r] \in Selected
  BY DEF Counting, Rebuilding, Selected, Locked
<1>2. /\ LocalsInUse(r) /\ CycleInv(r) /\ pc[r] \in Rebuilding
      /\ job[r].whole => ~Windowed(job[r])
      /\ r \in quiet =>
           /\ job[r].seen = ServerNow
           /\ job[r].whole \/ Windowed(job[r])
           /\ \A u \in job[r].candidates \cup Accounted(job[r]) :
                \E m \in mailbox : m.uid = u
           /\ \A u \in job[r].keep : \E x \in rows : x.uid = u
  BY <1>1, CountingKnows
<1>3. /\ Windowed(job'[r]) <=> Windowed(job[r])
      /\ \A m : InRange(job'[r], m) <=> InRange(job[r], m)
      /\ Accounted(job'[r]) = Accounted(job[r])
  BY SameScope DEF Accounted
<1>4. /\ job'[r].seen = job[r].seen /\ job'[r].policy = job[r].policy
      /\ job'[r].cap = job[r].cap
  BY DEF SameRead
<1>5. LocalsInUse(r)'
  BY <1>2, <1>3 DEF LocalsInUse, Unlocked, Windowed
<1>6. KeptIsLive(r)'
  <2> SUFFICES ASSUME UpToDate(job[r].seen.highestmodseq), NEW x \in rows',
                      x.uid \in job[r].keep
               PROVE  Live(x)
    BY <1>4, ServerSame DEF KeptIsLive
  <2>1. PICK y \in rows : SameRow(x, y)
    BY DEF RowsFrom
  <2>2. Live(y)
    BY <1>2, <2>1 DEF CycleInv, KeptIsLive, SameRow
  <2>3. QED
    BY <2>1, <2>2, LiveSame
<1>7. EnvelopesDescribe(r)' /\ SearchesDone(r)'
  BY DEF EnvelopesDescribe, SearchesDone
<1>8. MessagesAccounted(r)'
  <2>1. \A u : Dropped(r, u)' <=> Dropped(r, u)
    BY <1>3, <1>4 DEF Dropped, Windowed
  <2>2. PICK k : k = job'[r]
    OBVIOUS
  <2> SUFFICES ASSUME k.seen.uidvalidity = uidvalidity,
                      NEW m \in mailbox, InRange(k, m),
                      Approved(k.policy, m.kind)
               PROVE  m.uid \in Accounted(k) \/ Dropped(r, m.uid)'
    BY <2>2, ServerSame DEF MessagesAccounted, Accounted
  <2>3. m.uid \in Accounted(job[r]) \/ Dropped(r, m.uid)
    BY <1>1, <1>2, <1>3, <1>4, <2>2 DEF CycleInv, MessagesAccounted
  <2>4. QED
    BY <1>3, <2>1, <2>2, <2>3
<1>9. ASSUME r \in quiet PROVE QuietInv(r)'
  <2>1. job'[r].seen = ServerNow /\ ServerNow' = ServerNow
    BY <1>2, <1>4, <1>9, ServerSame DEF ServerNow
  <2>2. job'[r].whole \/ Windowed(job'[r])
    BY <1>2, <1>3, <1>9
  <2>3. \A u \in job'[r].candidates \cup Accounted(job'[r]) :
          \E m \in mailbox' : m.uid = u
    BY <1>2, <1>3, <1>9, ServerSame
  <2>4. QED
    BY <1>1, <1>2, <1>9, <2>1, <2>2, <2>3
       DEF QuietInv, Accounted, Windowed
<1>10. QED
  BY <1>1, <1>2, <1>5, <1>6, <1>7, <1>8, <1>9, InnerStep

\* MarkUIDsVerified, to the end or up to an UPDATE that fails.
LEMMA MarkSync ==
    ASSUME TypeOK, MutexOK, SyncInv, NEW r \in Request, MarkUIDsVerified(r)
    PROVE  SyncInv'
<1> DEFINE k == [job[r] EXCEPT !.observed = {}]
<1>1. PICK done \in SUBSET job[r].observed :
        LET j == [job[r] EXCEPT !.observed = {}]
            hit == {x \in rows : x.uid \in done
                           /\ x.uidvalidity = j.seen.uidvalidity}
        IN /\ rows' = (rows \ hit) \cup Verified(hit, j.now)
           /\ \/ /\ done = job[r].observed
                 /\ Go(r, j, "prune")
                 /\ UNCHANGED <<lock, quiet>>
              \/ /\ done # job[r].observed
                 /\ Finish(r)
  BY DEF MarkUIDsVerified
<1> DEFINE hit == {x \in rows : x.uid \in done
                          /\ x.uidvalidity = k.seen.uidvalidity}
<1>2. /\ rows' = (rows \ hit) \cup Verified(hit, k.now)
      /\ \/ Go(r, k, "prune") /\ quiet' = quiet
         \/ Finish(r)
  BY <1>1
<1>3. hit \in SUBSET rows
  OBVIOUS
<1> HIDE DEF hit
<1>4. job[r] \in Job /\ rows \subseteq Row
  BY DEF TypeOK
<1>5. /\ k \in Job /\ SameRead(job[r], k) /\ k.whole = job[r].whole
      /\ k.candidates = job[r].candidates /\ k.envelopes = job[r].envelopes
      /\ k.fetch = job[r].fetch /\ k.keep = job[r].keep /\ k.now \in Nat
  BY <1>4 DEF Job, SameRead
<1> HIDE DEF k
<1>6. RowsFrom /\ RowsStay
  BY <1>2, <1>3, <1>4, <1>5, VerifiedSame
<1>7. /\ pc[r] = "mark" /\ UNCHANGED server /\ folderState' = folderState
  BY DEF MarkUIDsVerified
<1>8. CASE Go(r, k, "prune") /\ quiet' = quiet
  <2>1. /\ pc'[r] = "prune" /\ job'[r] = k
        /\ \A s \in Request \ {r} : pc'[s] = pc[s] /\ job'[s] = job[s]
    BY <1>8, GoSets
  <2>2. QED
    BY <1>5, <1>6, <1>7, <1>8, <2>1, RowUids, CountingRows
<1>9. CASE Finish(r)
  <2>1. \A s \in quiet : s = r
    <3>1. \A s \in Request \ {r} : pc[s] \notin Locked
      BY <1>7, OthersOutside DEF Locked
    <3>2. \A s \in quiet : s \in Request /\ pc[s] \in Locked
      BY DEF TypeOK, SyncInv, QuietInv, Selected
    <3>3. QED
      BY <3>1, <3>2
  <2>2. quiet' = {}
    BY <1>9, <2>1, FinishEffect
  <2>3. QED
    BY <1>6, <1>7, <1>9, <2>2, FinishEffect, OutsideStep DEF Unlocked
<1>10. QED
  BY <1>2, <1>8, <1>9

\* Pruning takes no row that is kept.
LEMMA DeleteSync ==
    ASSUME TypeOK, MutexOK, SyncInv, NEW r \in Request, DeleteMissing(r)
    PROVE  SyncInv'
<1>1. PICK x \in Missing(r) : rows' = rows \ {x}
  BY DEF DeleteMissing
<1>2. /\ pc[r] = "prune" /\ UNCHANGED server /\ folderState' = folderState
      /\ quiet' = quiet /\ pc' = pc /\ job' = job
  BY DEF DeleteMissing, daemon
<1>3. x.uid \notin job[r].keep
  BY DEF Missing
<1>4. RowsFrom
  BY <1>1, SubsetFrom
<1>5. (\A u \in job[r].keep : \E y \in rows : y.uid = u)
        => \A u \in job[r].keep : \E y \in rows' : y.uid = u
  BY <1>1, <1>3
<1>6. SameRead(job[r], job'[r])
  BY <1>2 DEF SameRead
<1>7. QED
  BY <1>2, <1>4, <1>5, <1>6, CountingRows

\* When nothing is left to prune, the rows covered are rows kept.
LEMMA PrunedSync ==
    ASSUME TypeOK, MutexOK, SyncInv, NEW r \in Request, NoneMissing(r)
    PROVE  SyncInv'
<1> DEFINE phase == IF job[r].whole THEN "verify" ELSE "commit"
<1>1. /\ pc[r] = "prune" /\ Missing(r) = {} /\ Go(r, job[r], phase)
      /\ UNCHANGED server /\ rows' = rows /\ folderState' = folderState
      /\ quiet' = quiet /\ RowsFrom
  BY SubsetFrom DEF NoneMissing, Unchanged_but_job, tables
<1>2. /\ pc'[r] = phase /\ job'[r] = job[r]
      /\ \A s \in Request \ {r} : pc'[s] = pc[s] /\ job'[s] = job[s]
  BY <1>1, GoSets
<1>3. pc[r] \in Counting /\ pc'[r] \in {"verify", "commit"}
  BY <1>1, <1>2 DEF Counting
<1>4. /\ LocalsInUse(r) /\ CycleInv(r) /\ pc[r] \in Rebuilding
      /\ r \in quiet =>
           /\ job[r].seen = ServerNow
           /\ job[r].whole \/ Windowed(job[r])
           /\ \A u \in job[r].candidates \cup Accounted(job[r]) :
                \E m \in mailbox : m.uid = u
  BY <1>3, CountingKnows
<1>5. \A x \in rows : Covered(job[r], x.uid) => x.uid \in job[r].keep
  BY <1>1 DEF Missing
<1>6. LocalsInUse(r)'
  BY <1>1, <1>2, <1>3, <1>4 DEF LocalsInUse, Unlocked, Counting
<1>7. KeptIsLive(r)'
  <2>1. KeptIsLive(r)
    BY <1>4 DEF CycleInv
  <2>2. job[r].whole => \A x \in rows : x.uid \in job[r].keep
    BY <1>5 DEF Covered
  <2>3. QED
    BY <1>1, <1>2, <1>3, <1>4, <2>1, <2>2, ServerSame DEF KeptIsLive
<1>8. EnvelopesDescribe(r)' /\ SearchesDone(r)' /\ MessagesAccounted(r)'
  BY <1>3 DEF EnvelopesDescribe, SearchesDone, MessagesAccounted, Counting
<1>9. ASSUME r \in quiet PROVE QuietInv(r)'
  <2>1. job[r].seen = ServerNow /\ ServerNow' = ServerNow
    BY <1>1, <1>4, <1>9, ServerSame DEF ServerNow
  <2>2. ASSUME NEW x \in rows, InScope(job[r], x.uid)
        PROVE  \E m \in mailbox : m.uid = x.uid
    <3>1. x.uid \in job[r].keep
      BY <1>4, <1>5, <1>9, <2>2 DEF Covered
    <3>2. QED
      BY <1>4, <1>9, <3>1 DEF Accounted
  <2>3. QED
    BY <1>1, <1>2, <1>3, <1>4, <1>9, <2>1, <2>2, ServerSame
       DEF QuietInv, InScope, Windowed, Selected, Locked, Counting
<1>10. pc'[r] \in Rebuilding /\ SameRead(job[r], job'[r])
       /\ job[r].keep \subseteq job'[r].keep
  BY <1>2, <1>3 DEF Rebuilding, Selected, Locked, SameRead
<1>11. QED
  BY <1>1, <1>2, <1>4, <1>6, <1>7, <1>8, <1>9, <1>10, InnerStep

\* Marking the folder verified changes no more than the rows' times.
LEMMA FolderVerifiedSync ==
    ASSUME TypeOK, MutexOK, SyncInv, NEW r \in Request, MarkFolderVerified(r)
    PROVE  SyncInv'
<1> DEFINE hit == {x \in rows : x.uidvalidity = job[r].seen.uidvalidity}
<1>1. /\ pc[r] = "verify" /\ Go(r, job[r], "commit")
      /\ rows' = (rows \ hit) \cup Verified(hit, job[r].now)
      /\ UNCHANGED server /\ folderState' = folderState /\ quiet' = quiet
  BY DEF MarkFolderVerified
<1>2. hit \in SUBSET rows /\ rows \subseteq Row /\ job[r].now \in Nat
  BY DEF TypeOK, Job
<1> HIDE DEF hit
<1>3. RowsFrom
  BY <1>1, <1>2, VerifiedSame
<1>4. /\ pc'[r] = "commit" /\ job'[r] = job[r]
      /\ \A s \in Request \ {r} : pc'[s] = pc[s] /\ job'[s] = job[s]
  BY <1>1, GoSets
<1>5. /\ pc[r] \in Rebuilding /\ pc'[r] \in Rebuilding /\ pc'[r] \in Selected
      /\ pc[r] \in Locked
  BY <1>1, <1>4 DEF Rebuilding, Selected, Locked
<1>6. LocalsInUse(r) /\ CycleInv(r)
  BY <1>5 DEF SyncInv
<1>7. LocalsInUse(r)'
  BY <1>1, <1>4, <1>6 DEF LocalsInUse, Unlocked, Counting
<1>8. \A x \in rows' : \E y \in rows : x.uid = y.uid /\ (Live(y) => Live(x))
  BY <1>3, LiveSame DEF RowsFrom, SameRow
<1>9. KeptIsLive(r)'
  <2>1. KeptIsLive(r)
    BY <1>6 DEF CycleInv
  <2>2. QED
    BY <1>1, <1>4, <1>5, <1>8, <2>1, ServerSame DEF KeptIsLive
<1>10. EnvelopesDescribe(r)' /\ SearchesDone(r)' /\ MessagesAccounted(r)'
  BY <1>4 DEF EnvelopesDescribe, SearchesDone, MessagesAccounted, Counting
<1>11. ASSUME r \in quiet PROVE QuietInv(r)'
  <2>1. QuietInv(r) /\ ServerNow' = ServerNow
    BY <1>1, <1>11, ServerSame DEF SyncInv, ServerNow
  <2>2. ASSUME NEW x \in rows', InScope(job[r], x.uid)
        PROVE  \E m \in mailbox : m.uid = x.uid
    BY <1>1, <1>8, <2>1, <2>2 DEF QuietInv
  <2>3. QED
    BY <1>1, <1>4, <1>5, <2>1, <2>2, ServerSame
       DEF QuietInv, InScope, Windowed, Counting
<1>12. SameRead(job[r], job'[r]) /\ job[r].keep \subseteq job'[r].keep
  BY <1>4 DEF SameRead
<1>13. QED
  BY <1>1, <1>3, <1>4, <1>5, <1>7, <1>9, <1>10, <1>11, <1>12, InnerStep

\* The state recorded vouches for the rows, or for nothing.
LEMMA CommitSync ==
    ASSUME TypeOK, MutexOK, SyncInv, NEW r \in Request, UpsertFolderState(r)
    PROVE  SyncInv'
<1> DEFINE new == [uidvalidity |-> job[r].seen.uidvalidity,
                   uidnext |-> job[r].seen.uidnext,
                   highestmodseq |->
                     IF job[r].whole THEN job[r].seen.highestmodseq ELSE 0,
                   policy |-> job[r].policy,
                   refreshed |-> job[r].now]
<1>1. /\ pc[r] = "commit" /\ Finish(r) /\ UNCHANGED server /\ rows' = rows
      /\ folderState' = {new}
  BY DEF UpsertFolderState
<1>2. PICK s : s = new
  OBVIOUS
<1>3. /\ s.uidvalidity = job[r].seen.uidvalidity
      /\ s.uidnext = job[r].seen.uidnext
      /\ \/ s.highestmodseq = 0
         \/ job[r].whole /\ s.highestmodseq = job[r].seen.highestmodseq
  BY <1>2
<1>4. folderState' = {s}
  BY <1>1, <1>2
<1> HIDE DEF new
<1>5. pc[r] \in Locked /\ pc[r] \in Selected /\ pc[r] \in Rebuilding
  BY <1>1 DEF Rebuilding, Selected, Locked
<1>6. CycleInv(r) /\ HighestModSeq \in Nat
  BY <1>5 DEF SyncInv, HighestModSeq, TypeOK
<1>7. NumbersBehind(s)
  BY <1>3, <1>5, <1>6 DEF CycleInv, SelectionRead, NumbersBehind, UpToDate
<1>8. Vouches(s)
  BY <1>1, <1>3, <1>5, <1>6 DEF CycleInv, KeptIsLive, Vouches, UpToDate
<1>9. TablesInv'
  <2>1. RowsDescribe'
    BY <1>1, SubsetFrom, DescribeSame DEF SyncInv, TablesInv
  <2>2. NumbersBehind(s)' /\ Vouches(s)'
    BY <1>1, <1>7, <1>8, ServerSame, SubsetFrom, VouchesSame
  <2>3. QED
    BY <1>4, <2>1, <2>2 DEF TablesInv
<1>10. /\ pc'[r] = "idle" /\ LocalsInUse(r)' /\ quiet' = quiet \ {r}
       /\ \A t \in Request \ {r} : pc'[t] = pc[t] /\ job'[t] = job[t]
  BY <1>1, FinishEffect
<1>11. \A t \in Request \ {r} : pc[t] \notin Locked
  BY <1>5, OthersOutside
<1>12. QED
  BY <1>9, <1>10, <1>11, CycleStep DEF TypeOK, Locked

-----------------------------------------------------------------------------
(* The invariant *)

\* Every step keeps the invariant.
LEMMA StepSync ==
    GenerationInv /\ GenerationInv' /\ ContentInv /\ SyncInv /\ [Next]_vars
      => SyncInv'
<1> SUFFICES ASSUME GenerationInv, GenerationInv', ContentInv, SyncInv,
                    [Next]_vars
             PROVE  SyncInv'
  OBVIOUS
<1>1. /\ TypeOK /\ MutexOK /\ BehindServer /\ RowsAsSelected
      /\ TypeOK' /\ RowsAsSelected'
  BY DEF GenerationInv
<1>2. CASE Environment
  BY <1>1, <1>2, EnvironmentSync
<1>3. CASE Crash
  BY <1>3, CrashSync
<1>4. ASSUME NEW r \in Request,
             Start(r) \/ CleanupExpired(r) \/ Fail(r) \/ Acquire(r)
      PROVE  SyncInv'
  BY <1>1, <1>4, WaitingSync, AcquireSync
<1>5. ASSUME NEW r \in Request, Cycle(r)
      PROVE  SyncInv'
  <2>1. CASE SelectFolder(r) \/ DeleteByFolder(r)
    BY <1>1, <2>1, SelectSync, InvalidateSync
  <2>2. CASE ListUIDs(r) \/ SearchAllowed(r) \/ UncachedUIDs(r)
    BY <1>1, <2>2, ListSync, SearchSync, UncachedSync
  <2>3. CASE PolicyAllowedUIDs(r) \/ FetchEnvelopes(r) \/ StoreMessage(r)
    BY <1>1, <2>3, AllowedSync, FetchSync, StoreSync
  <2>4. CASE MarkUIDsVerified(r) \/ DeleteMissing(r) \/ NoneMissing(r)
    BY <1>1, <2>4, MarkSync, DeleteSync, PrunedSync
  <2>5. CASE MarkFolderVerified(r) \/ UpsertFolderState(r)
    BY <1>1, <2>5, FolderVerifiedSync, CommitSync
  <2>6. QED
    BY <1>5, <2>1, <2>2, <2>3, <2>4, <2>5 DEF Cycle
<1>6. CASE UNCHANGED vars
  <2>1. OnlyWaits
    BY <1>6 DEF vars, OnlyWaits, tables, daemon
  <2>2. QED
    BY <1>1, <2>1, WaitSync
<1>7. QED
  BY <1>2, <1>3, <1>4, <1>5, <1>6 DEF Next, Progress

\* Initially there is nothing to say.
LEMMA InitSync == Init => SyncInv
<1> SUFFICES ASSUME Init PROVE SyncInv
  OBVIOUS
<1>1. /\ rows = {} /\ folderState = {} /\ quiet = {}
      /\ \A r \in Request : pc[r] = "idle" /\ job[r] = NoJob
  BY DEF Init
<1>2. TablesInv
  BY <1>1 DEF TablesInv, RowsDescribe
<1>3. \A r \in Request : LocalsInUse(r)
  BY <1>1, NoJobLocals DEF LocalsInUse, Unlocked, Counting
<1>4. QED
  BY <1>1, <1>2, <1>3 DEF SyncInv, Locked

\* In every reachable state a cycle has accounted for what its range holds, and a
\* state recorded vouches for the rows.
LEMMA SyncInvariant == Spec => []SyncInv
<1>1. Init => SyncInv
  BY InitSync
<1>2. GenerationInv /\ GenerationInv' /\ ContentInv /\ SyncInv /\ [Next]_vars
        => SyncInv'
  BY StepSync
<1>3. QED
  BY <1>1, <1>2, GenerationsInvariant, ContentInvariant, PTL DEF Spec

-----------------------------------------------------------------------------
(* What a cycle prunes *)

\* To cache a message, flags aside, is to be of its generation and of its parts.
LEMMA CachesOldIs ==
    ASSUME NEW x \in Row, NEW m \in Message
    PROVE  /\ CachesOld(x, m) <=> x.uidvalidity = uidvalidity /\ OfMessage(x, m)
           /\ Caches(x, m) <=> /\ x.uidvalidity = uidvalidity /\ OfMessage(x, m)
                               /\ x.envelope.modseq = m.modseq
<1> DEFINE y == [x EXCEPT !.envelope.modseq = m.modseq]
<1>1. /\ x.envelope \in Envelope /\ m.modseq \in Nat
      /\ x = [uidvalidity |-> x.uidvalidity, uid |-> x.uid,
              envelope |-> x.envelope, body |-> x.body,
              verified |-> x.verified]
  BY DEF Row, Message
<1>2. x.envelope = [uid |-> x.envelope.uid, kind |-> x.envelope.kind,
                    modseq |-> x.envelope.modseq, from |-> x.envelope.from]
  BY <1>1 DEF Envelope
<1>3. /\ y.uidvalidity = x.uidvalidity /\ y.uid = x.uid /\ y.body = x.body
      /\ y.envelope = [x.envelope EXCEPT !.modseq = m.modseq]
  BY <1>1
<1>4. y.envelope = [uid |-> x.envelope.uid, kind |-> x.envelope.kind,
                    modseq |-> m.modseq, from |-> x.envelope.from]
  BY <1>2, <1>3
<1> DEFINE e == [uid |-> m.uid, kind |-> m.kind, modseq |-> m.modseq,
                 from |-> uidvalidity]
<1>5. y.envelope = e <=> /\ x.envelope.uid = m.uid /\ x.envelope.kind = m.kind
                         /\ x.envelope.from = uidvalidity
  BY <1>4
<1>6. x.envelope = e <=> /\ x.envelope.uid = m.uid /\ x.envelope.kind = m.kind
                         /\ x.envelope.from = uidvalidity
                         /\ x.envelope.modseq = m.modseq
  BY <1>2
<1>7. CachesOld(x, m) <=> x.uidvalidity = uidvalidity /\ OfMessage(x, m)
  <2>1. Caches(y, m) <=> /\ y.uidvalidity = uidvalidity /\ y.uid = m.uid
                         /\ y.envelope = e /\ y.body = uidvalidity
    BY DEF Caches
  <2> HIDE DEF y, e
  <2>2. QED
    BY <1>3, <1>5, <2>1 DEF CachesOld, OfMessage, y
<1>8. Caches(x, m) <=> /\ x.uidvalidity = uidvalidity /\ OfMessage(x, m)
                       /\ x.envelope.modseq = m.modseq
  BY <1>6 DEF Caches, OfMessage
<1>9. QED
  BY <1>7, <1>8

\* DeleteMissingByUIDSet and its variant for a range of UIDs never take a row
\* that still describes an approved message of the server, whatever arrives,
\* changes or is renumbered during the cycle - except at the low end of a
\* window that arrivals since SelectFolder have moved.
THEOREM LiveMessagesAreSpared == Spec => PruneSparesLiveMessages
<1>1. GenerationInv /\ SyncInv /\ [Next]_vars =>
        [\A r \in Request, x \in rows :
           DeleteMissing(r) /\ x \notin rows' =>
             \/ \A m \in mailbox : ~CachesOld(x, m)
             \/ \E m \in mailbox : m.uid = x.uid /\ ~Approved(job[r].policy, m.kind)
             \/ /\ Windowed(job[r])
                /\ x.uid = job[r].seen.uidnext - job[r].cap
                /\ r \notin quiet]_vars
  <2> SUFFICES ASSUME GenerationInv, SyncInv, NEW r \in Request, NEW x \in rows,
                      DeleteMissing(r), x \notin rows',
                      \E m \in mailbox : CachesOld(x, m),
                      \A m \in mailbox :
                        m.uid = x.uid => Approved(job[r].policy, m.kind)
               PROVE  /\ Windowed(job[r])
                      /\ x.uid = job[r].seen.uidnext - job[r].cap
                      /\ r \notin quiet
    OBVIOUS
  <2>1. TypeOK
    BY DEF GenerationInv
  <2>2. PICK m \in mailbox : /\ x.uidvalidity = uidvalidity /\ x.uid = m.uid
                            /\ Approved(job[r].policy, m.kind)
    BY <2>1, CachesOldIs DEF TypeOK, OfMessage
  <2>3. pc[r] = "prune" /\ x \in Missing(r)
    BY DEF DeleteMissing
  <2>4. Covered(job[r], x.uid) /\ x.uid \notin job[r].keep
    BY <2>3 DEF Missing
  <2>5. /\ pc[r] \in Counting /\ LocalsInUse(r) /\ CycleInv(r)
        /\ pc[r] \in Rebuilding /\ (job[r].whole => ~Windowed(job[r]))
    BY <2>3, CountingKnows DEF Counting
  <2>6. job[r].seen.uidvalidity = uidvalidity
    BY <2>2, <2>5 DEF GenerationInv, RowsAsSelected
  <2>7. x.uid < job[r].seen.uidnext
    BY <2>4, <2>5 DEF CycleInv, OlderRows
  <2>8. InRange(job[r], m)
    <3>1. x.uid \in Nat /\ job[r].seen.uidnext \in Nat
      BY <2>1, StateNumbers DEF TypeOK, Row, Uid
    <3>2. Windowed(job[r]) => InScope(job[r], x.uid)
      BY <2>4, <2>5 DEF Covered
    <3>3. QED
      BY <2>2, <2>7, <3>1, <3>2 DEF InRange, InScope
  <2>9. Accounted(job[r]) = job[r].keep
    BY <2>3, <2>5 DEF LocalsInUse, Accounted
  <2>10. Dropped(r, x.uid)
    BY <2>2, <2>4, <2>5, <2>6, <2>8, <2>9 DEF CycleInv, MessagesAccounted
  <2>11. Windowed(job[r])
    <3> SUFFICES ASSUME ~Windowed(job[r])
                 PROVE  FALSE
      OBVIOUS
    <3>1. PICK a \in job[r].candidates : a <= x.uid
      BY <2>4, <2>10 DEF Covered, Dropped
    <3>2. x.uid < a
      BY <2>10 DEF Dropped
    <3>3. a \in Nat /\ x.uid \in Nat
      BY <2>1, StateNumbers, JobNumbers DEF TypeOK, Row, Uid
    <3>4. QED
      BY <3>1, <3>2, <3>3
  <2>12. QED
    BY <2>10, <2>11 DEF Dropped
<1>2. QED
  BY <1>1, SyncInvariant, GenerationsInvariant, PTL
     DEF Spec, PruneSparesLiveMessages

-----------------------------------------------------------------------------
(* The effects of a scan, for the invariants that follow *)

\* A search, or a listing: more candidates, the whole of them or the newest.
LEMMA DiscoveryEffect ==
    ASSUME TypeOK, NEW r \in Request, ListUIDs(r) \/ SearchAllowed(r)
    PROVE  /\ pc[r] = "discover" /\ Unchanged_but_job
           /\ \A s \in Request \ {r} : pc'[s] = pc[s] /\ job'[s] = job[s]
           /\ SameRead(job[r], job'[r]) /\ job'[r].keep = job[r].keep
           /\ \E uids \in SUBSET Uid :
                /\ \A u \in uids : \/ u \in job[r].candidates
                                   \/ \E m \in mailbox : m.uid = u
                /\ job'[r].candidates \subseteq uids
                /\ \/ pc'[r] = "discover"
                   \/ /\ pc'[r] \in {"compare", "headers", "envelopes", "prune",
                                     "mark", "commit"}
                      /\ pc'[r] = "commit" => /\ ~job'[r].whole
                                              /\ ~Windowed(job'[r])
                      /\ \/ job'[r].whole \/ Windowed(job'[r])
                         \/ job'[r].cap > 0 /\ Cardinality(uids) > job'[r].cap
<1>0. job[r] \in Job /\ mailbox \subseteq Message
  BY DEF TypeOK
<1>1. /\ pc[r] = "discover" /\ Unchanged_but_job
  BY DEF ListUIDs, SearchAllowed
<1>2. \E base \in Job, uids \in SUBSET Uid :
        /\ SameRead(job[r], base) /\ base.keep = job[r].keep
        /\ \A u \in uids : \/ u \in job[r].candidates
                           \/ \E m \in mailbox : m.uid = u
        /\ \/ Go(r, base, "discover") /\ base.candidates = uids
           \/ Go(r, Discovered(base, uids), Sift(Discovered(base, uids)))
  <2>1. CASE ListUIDs(r)
    <3> DEFINE base == [job[r] EXCEPT !.queries = {}]
               uids == {m.uid : m \in {n \in mailbox : InScope(job[r], n.uid)}}
    <3>1. base \in Job /\ SameRead(job[r], base) /\ base.keep = job[r].keep
      BY <1>0 DEF Job, SameRead
    <3>2. uids \in SUBSET Uid /\ \A u \in uids : \E m \in mailbox : m.uid = u
      BY <1>0 DEF Message
    <3>3. Go(r, Discovered(base, uids), Sift(Discovered(base, uids)))
      BY <2>1 DEF ListUIDs
    <3> HIDE DEF base, uids
    <3>4. QED
      BY <3>1, <3>2, <3>3
  <2>2. CASE SearchAllowed(r)
    <3>1. PICK q \in job[r].queries :
            LET hits == {m.uid : m \in {n \in mailbox :
                           InScope(job[r], n.uid) /\ n.kind \in HitBy[q]}}
                uids == job[r].candidates \cup hits
                left == [job[r] EXCEPT !.queries = @ \ {q}, !.candidates = uids]
                j    == Discovered(left, uids)
            IN IF left.queries # {} THEN Go(r, left, "discover")
                                    ELSE Go(r, j, Sift(j))
      BY <2>2 DEF SearchAllowed
    <3> DEFINE hits == {m.uid : m \in {n \in mailbox :
                          InScope(job[r], n.uid) /\ n.kind \in HitBy[q]}}
               uids == job[r].candidates \cup hits
               left == [job[r] EXCEPT !.queries = @ \ {q}, !.candidates = uids]
    <3>2. \/ Go(r, left, "discover")
          \/ Go(r, Discovered(left, uids), Sift(Discovered(left, uids)))
      BY <3>1
    <3>3. hits \in SUBSET Uid /\ \A u \in hits : \E m \in mailbox : m.uid = u
      BY <1>0 DEF Message
    <3> HIDE DEF hits
    <3>4. /\ uids \in SUBSET Uid
          /\ \A u \in uids : \/ u \in job[r].candidates
                             \/ \E m \in mailbox : m.uid = u
      BY <1>0, <3>3 DEF Job
    <3> HIDE DEF uids
    <3>5. /\ left \in Job /\ SameRead(job[r], left)
          /\ left.keep = job[r].keep /\ left.candidates = uids
      BY <1>0, <3>4 DEF Job, SameRead
    <3> HIDE DEF left
    <3>6. QED
      BY <3>2, <3>4, <3>5
  <2>3. QED
    BY <2>1, <2>2
<1>3. PICK base \in Job, uids \in SUBSET Uid :
        /\ SameRead(job[r], base) /\ base.keep = job[r].keep
        /\ \A u \in uids : \/ u \in job[r].candidates
                           \/ \E m \in mailbox : m.uid = u
        /\ \/ Go(r, base, "discover") /\ base.candidates = uids
           \/ Go(r, Discovered(base, uids), Sift(Discovered(base, uids)))
  BY <1>2
<1>4. CASE Go(r, base, "discover") /\ base.candidates = uids
  <2>1. /\ pc'[r] = "discover" /\ job'[r] = base
        /\ \A s \in Request \ {r} : pc'[s] = pc[s] /\ job'[s] = job[s]
    BY <1>4, GoSets
  <2>2. QED
    BY <1>1, <1>3, <1>4, <2>1
<1>5. CASE Go(r, Discovered(base, uids), Sift(Discovered(base, uids)))
  <2> DEFINE k == Discovered(base, uids)
  <2>1. /\ k \in Job /\ SameRead(base, k) /\ k.keep = base.keep
        /\ k.candidates \subseteq uids
    BY DiscoveredEffect, DiscoveredType
  <2>2. k.whole \/ Windowed(base) \/ (base.cap > 0 /\ Cardinality(uids) > base.cap)
    BY DEF Discovered, Job
  <2> HIDE DEF k
  <2>3. /\ pc'[r] = Sift(k) /\ job'[r] = k
        /\ \A s \in Request \ {r} : pc'[s] = pc[s] /\ job'[s] = job[s]
    BY <1>5, GoSets DEF k
  <2>4. /\ Sift(k) \in {"compare", "headers", "envelopes", "prune", "mark",
                        "commit"}
        /\ Sift(k) = "commit" => ~k.whole /\ ~Windowed(k)
    <3>1. /\ Reconcile(k) \in {"prune", "mark", "commit"}
          /\ Reconcile(k) = "commit" => ~k.whole /\ ~Windowed(k)
          /\ \/ Gate(k) \in {"headers", "envelopes"}
             \/ k.fetch = {} /\ Gate(k) = Reconcile(k)
          /\ \/ Sift(k) = "compare" /\ CachedRowsAreCurrent(k)
             \/ Sift(k) = Gate(k)
      BY <2>1, Leads
    <3>2. QED
      BY <3>1
  <2>5. SameRead(job[r], k) /\ k.keep = job[r].keep
        /\ (k.whole \/ Windowed(k) \/ (k.cap > 0 /\ Cardinality(uids) > k.cap))
    BY <1>3, <2>1, <2>2, SameScope DEF SameRead
  <2>6. QED
    BY <1>1, <1>3, <2>1, <2>3, <2>4, <2>5
<1>6. QED
  BY <1>3, <1>4, <1>5

\* The steps between the candidates and the rows.
LEMMA GateEffect ==
    ASSUME TypeOK, NEW r \in Request,
           UncachedUIDs(r) \/ PolicyAllowedUIDs(r) \/ FetchEnvelopes(r)
    PROVE  /\ pc[r] \in {"compare", "headers", "envelopes"} /\ Unchanged_but_job
           /\ \A s \in Request \ {r} : pc'[s] = pc[s] /\ job'[s] = job[s]
           /\ SameRead(job[r], job'[r])
           /\ job'[r].whole = job[r].whole
           /\ job'[r].candidates = job[r].candidates
           /\ pc[r] # "compare" => job'[r].keep = job[r].keep
           /\ pc[r] = "compare" =>
                \A u \in job'[r].keep : \E x \in rows : x.uid = u
           /\ pc'[r] \in {"headers", "envelopes", "store", "mark", "prune",
                          "commit"}
           /\ pc'[r] = "commit" => ~job'[r].whole /\ ~Windowed(job'[r])
<1>0. job[r] \in Job /\ mailbox \subseteq Message
  BY DEF TypeOK
<1>1. /\ pc[r] \in {"compare", "headers", "envelopes"} /\ Unchanged_but_job
  BY DEF UncachedUIDs, PolicyAllowedUIDs, FetchEnvelopes
<1>2. \E k \in Job, phase \in {"headers", "envelopes", "store", "mark", "prune",
                               "commit"} :
        /\ Go(r, k, phase) /\ SameRead(job[r], k) /\ k.whole = job[r].whole
        /\ k.candidates = job[r].candidates
        /\ pc[r] # "compare" => k.keep = job[r].keep
        /\ pc[r] = "compare" => \A u \in k.keep : \E x \in rows : x.uid = u
        /\ phase = "commit" => ~k.whole /\ ~Windowed(k)
  <2>1. CASE UncachedUIDs(r)
    <3> DEFINE held == job[r].candidates \cap {x.uid : x \in rows}
               k == [job[r] EXCEPT !.fetch = @ \ held, !.keep = held,
                                   !.observed = held]
    <3>1. Go(r, k, Gate(k)) /\ pc[r] = "compare"
      BY <2>1 DEF UncachedUIDs
    <3>2. /\ held \subseteq job[r].candidates
          /\ \A u \in held : \E x \in rows : x.uid = u
      OBVIOUS
    <3> HIDE DEF held
    <3>3. held \in SUBSET Uid
      BY <1>0, <3>2, JobNumbers
    <3>4. /\ k \in Job /\ SameRead(job[r], k) /\ k.whole = job[r].whole
          /\ k.candidates = job[r].candidates /\ k.keep = held
      BY <1>0, <3>3 DEF Job, SameRead
    <3> HIDE DEF k
    <3>5. /\ Reconcile(k) \in {"prune", "mark", "commit"}
          /\ Reconcile(k) = "commit" => ~k.whole /\ ~Windowed(k)
          /\ Gate(k) \in {"headers", "envelopes"} \/ Gate(k) = Reconcile(k)
      BY <3>4, Leads
    <3>6. /\ Gate(k) \in {"headers", "envelopes", "store", "mark", "prune",
                          "commit"}
          /\ Gate(k) = "commit" => ~k.whole /\ ~Windowed(k)
      BY <3>5
    <3>7. QED
      BY <3>1, <3>2, <3>4, <3>6
  <2>2. CASE PolicyAllowedUIDs(r)
    <3> DEFINE allowed == {m.uid : m \in {n \in mailbox :
                  n.uid \in job[r].fetch /\ Approved(job[r].policy, n.kind)}}
               k == [job[r] EXCEPT !.fetch = allowed]
               phase == IF allowed = {} THEN Reconcile(k) ELSE "envelopes"
    <3>1. pc[r] = "headers" /\ Go(r, k, phase)
      BY <2>2 DEF PolicyAllowedUIDs
    <3>2. allowed \in SUBSET Uid
      BY <1>0 DEF Message
    <3> HIDE DEF allowed
    <3>3. /\ k \in Job /\ SameRead(job[r], k) /\ k.whole = job[r].whole
          /\ k.candidates = job[r].candidates /\ k.keep = job[r].keep
      BY <1>0, <3>2 DEF Job, SameRead
    <3> HIDE DEF k
    <3>4. /\ phase \in {"headers", "envelopes", "store", "mark", "prune",
                        "commit"}
          /\ phase = "commit" => ~k.whole /\ ~Windowed(k)
      BY <3>3, Leads
    <3> HIDE DEF phase
    <3>5. QED
      BY <3>1, <3>3, <3>4
  <2>3. CASE FetchEnvelopes(r)
    <3> DEFINE envelopes == {[uid |-> m.uid, kind |-> m.kind,
                              modseq |-> m.modseq, from |-> uidvalidity] :
                                m \in {n \in mailbox : n.uid \in job[r].fetch}}
               k == [job[r] EXCEPT !.fetch = {}, !.envelopes = envelopes]
               phase == IF envelopes = {} THEN Reconcile(k) ELSE "store"
    <3>1. pc[r] = "envelopes" /\ Go(r, k, phase)
      BY <2>3 DEF FetchEnvelopes
    <3>2. envelopes \in SUBSET Envelope
      BY <1>0 DEF TypeOK, Message, Envelope
    <3> HIDE DEF envelopes
    <3>3. /\ k \in Job /\ SameRead(job[r], k) /\ k.whole = job[r].whole
          /\ k.candidates = job[r].candidates /\ k.keep = job[r].keep
      BY <1>0, <3>2 DEF Job, SameRead
    <3> HIDE DEF k
    <3>4. /\ phase \in {"headers", "envelopes", "store", "mark", "prune",
                        "commit"}
          /\ phase = "commit" => ~k.whole /\ ~Windowed(k)
      BY <3>3, Leads
    <3> HIDE DEF phase
    <3>5. QED
      BY <3>1, <3>3, <3>4
  <2>4. QED
    BY <2>1, <2>2, <2>3
<1>3. QED
  BY <1>1, <1>2, GoSets

\* The steps that mark rows, or find none left to prune.
LEMMA MarkEffect ==
    ASSUME TypeOK, NEW r \in Request, MarkUIDsVerified(r)
    PROVE  /\ pc[r] = "mark" /\ RowsFrom /\ RowsStay
           /\ UNCHANGED <<server, folderState, policy, clock>>
           /\ \/ /\ pc'[r] = "prune" /\ SameRead(job[r], job'[r])
                 /\ job'[r].keep = job[r].keep
                 /\ job'[r].whole = job[r].whole
                 /\ job'[r].candidates = job[r].candidates
                 /\ quiet' = quiet
                 /\ \A s \in Request \ {r} : pc'[s] = pc[s] /\ job'[s] = job[s]
              \/ Finish(r)
<1> DEFINE k == [job[r] EXCEPT !.observed = {}]
<1>1. PICK done \in SUBSET job[r].observed :
        LET j == [job[r] EXCEPT !.observed = {}]
            hit == {x \in rows : x.uid \in done
                           /\ x.uidvalidity = j.seen.uidvalidity}
        IN /\ rows' = (rows \ hit) \cup Verified(hit, j.now)
           /\ \/ /\ done = job[r].observed
                 /\ Go(r, j, "prune")
                 /\ UNCHANGED <<lock, quiet>>
              \/ /\ done # job[r].observed
                 /\ Finish(r)
  BY DEF MarkUIDsVerified
<1> DEFINE hit == {x \in rows : x.uid \in done
                          /\ x.uidvalidity = k.seen.uidvalidity}
<1>2. /\ rows' = (rows \ hit) \cup Verified(hit, k.now)
      /\ \/ Go(r, k, "prune") /\ quiet' = quiet
         \/ Finish(r)
  BY <1>1
<1>3. hit \in SUBSET rows
  OBVIOUS
<1> HIDE DEF hit
<1>4. job[r] \in Job /\ rows \subseteq Row
  BY DEF TypeOK
<1>5. /\ SameRead(job[r], k) /\ k.keep = job[r].keep /\ k.now \in Nat
      /\ k.whole = job[r].whole /\ k.candidates = job[r].candidates
  BY <1>4 DEF Job, SameRead
<1> HIDE DEF k
<1>6. RowsFrom /\ RowsStay
  BY <1>2, <1>3, <1>4, <1>5, VerifiedSame
<1>7. pc[r] = "mark" /\ UNCHANGED <<server, folderState, policy, clock>>
  BY DEF MarkUIDsVerified
<1>8. QED
  BY <1>2, <1>5, <1>6, <1>7, GoSets

\* MarkFolderVerified: all rows have the same age.
LEMMA FolderVerifiedEffect ==
    ASSUME TypeOK, RowsAsSelected, NEW r \in Request, MarkFolderVerified(r)
    PROVE  /\ pc[r] = "verify" /\ pc'[r] = "commit" /\ job'[r] = job[r]
           /\ RowsFrom /\ RowsStay /\ SameAge'
           /\ UNCHANGED <<server, folderState, policy, clock, lock, quiet>>
           /\ \A s \in Request \ {r} : pc'[s] = pc[s] /\ job'[s] = job[s]
<1> DEFINE hit == {x \in rows : x.uidvalidity = job[r].seen.uidvalidity}
<1>1. /\ pc[r] = "verify" /\ Go(r, job[r], "commit")
      /\ rows' = (rows \ hit) \cup Verified(hit, job[r].now)
      /\ UNCHANGED <<server, folderState, policy, clock, lock, quiet>>
  BY DEF MarkFolderVerified
<1>2. hit \in SUBSET rows /\ rows \subseteq Row /\ job[r].now \in Nat
  BY DEF TypeOK, Job
<1>3. hit = rows
  BY <1>1 DEF RowsAsSelected, Rebuilding, Selected, Locked
<1> HIDE DEF hit
<1>4. SameAge'
  <2>1. \A x \in rows' : x.verified = job[r].now
    BY <1>1, <1>2, <1>3 DEF Verified, Row
  <2>2. QED
    BY <2>1 DEF SameAge
<1>5. QED
  BY <1>1, <1>2, <1>4, GoSets, VerifiedSame

\* The state that a cycle records.
NewState(r) == [uidvalidity |-> job[r].seen.uidvalidity,
                uidnext |-> job[r].seen.uidnext,
                highestmodseq |->
                  IF job[r].whole THEN job[r].seen.highestmodseq ELSE 0,
                policy |-> job[r].policy,
                refreshed |-> job[r].now]

\* UpsertFolderState, the last step of a cycle.
LEMMA CommitEffect ==
    ASSUME TypeOK, NEW r \in Request, UpsertFolderState(r)
    PROVE  /\ pc[r] = "commit" /\ Finish(r)
           /\ folderState' = {NewState(r)}
           /\ UNCHANGED <<server, rows, policy, clock>>
BY DEF UpsertFolderState, NewState

-----------------------------------------------------------------------------
(* When policies do not get in each other's way *)

\* Storing a message leaves the scan as it is.
LEMMA StoreJob ==
    ASSUME TypeOK, NEW r \in Request, StoreMessage(r)
    PROVE  /\ pc[r] = "store" /\ pc'[r] \in {"store", "prune", "commit", "mark"}
           /\ UNCHANGED <<server, folderState, policy, clock, lock, quiet>>
           /\ SameRead(job[r], job'[r]) /\ job'[r].whole = job[r].whole
           /\ job'[r].candidates = job[r].candidates
           /\ \A s \in Request \ {r} : pc'[s] = pc[s] /\ job'[s] = job[s]
<1>1. PICK e \in job[r].envelopes :
        LET j == [job[r] EXCEPT !.envelopes = @ \ {e}, !.keep = @ \cup {e.uid}]
        IN Go(r, j, IF j.envelopes = {} THEN Reconcile(j) ELSE "store")
  BY DEF StoreMessage
<1> DEFINE j == [job[r] EXCEPT !.envelopes = @ \ {e}, !.keep = @ \cup {e.uid}]
           phase == IF j.envelopes = {} THEN Reconcile(j) ELSE "store"
<1>2. Go(r, j, phase)
  BY <1>1
<1>3. /\ SameRead(job[r], j) /\ j.whole = job[r].whole
      /\ j.candidates = job[r].candidates
  BY DEF TypeOK, Job, SameRead
<1> HIDE DEF j
<1>4. phase \in {"store", "prune", "commit", "mark"}
  BY DEF Reconcile
<1> HIDE DEF phase
<1>5. /\ pc[r] = "store"
      /\ UNCHANGED <<server, folderState, policy, clock, lock, quiet>>
  BY DEF StoreMessage
<1>6. QED
  BY <1>2, <1>3, <1>4, <1>5, GoSets

\* What any step of a cycle leaves alone.
LEMMA CycleEffect ==
    ASSUME TypeOK, NEW r \in Request, Cycle(r)
    PROVE  /\ pc[r] \in Locked
           /\ UNCHANGED <<server, policy, clock>>
           /\ pc[r] # "commit" => folderState' = folderState
           /\ \A s \in Request \ {r} : pc'[s] = pc[s] /\ job'[s] = job[s]
           /\ \/ Finish(r)
              \/ /\ pc'[r] \in Locked \ {"select"}
                 /\ job'[r].policy = job[r].policy /\ job'[r].cap = job[r].cap
                 /\ job'[r].known \subseteq job[r].known
                 /\ pc[r] # "select" => /\ job'[r].seen = job[r].seen
                                        /\ pc'[r] # "invalidate"
<1>1. CASE SelectFolder(r)
  <2>1. /\ UNCHANGED <<server, tables, policy, clock, lock>>
        /\ \A s \in Request \ {r} : pc'[s] = pc[s] /\ job'[s] = job[s]
    BY <1>1 DEF SelectFolder, Go, TypeOK
  <2>2. QED
    BY <1>1, <2>1, SelectEffect DEF Locked, tables
<1>2. CASE DeleteByFolder(r)
  <2>1. /\ UNCHANGED <<server, folderState, policy, clock, lock, quiet>>
        /\ \A s \in Request \ {r} : pc'[s] = pc[s] /\ job'[s] = job[s]
    BY <1>2 DEF DeleteByFolder, Go, TypeOK
  <2>2. QED
    BY <1>2, <2>1, InvalidateEffect DEF Locked
<1>3. CASE ListUIDs(r) \/ SearchAllowed(r)
  BY <1>3, DiscoveryEffect
     DEF Locked, Unchanged_but_job, tables, SameRead
<1>4. CASE UncachedUIDs(r) \/ PolicyAllowedUIDs(r) \/ FetchEnvelopes(r)
  BY <1>4, GateEffect DEF Locked, Unchanged_but_job, tables, SameRead
<1>5. CASE StoreMessage(r)
  BY <1>5, StoreJob DEF Locked, SameRead
<1>6. CASE MarkUIDsVerified(r)
  <2>1. \/ /\ pc'[r] = "prune" /\ SameRead(job[r], job'[r])
           /\ \A s \in Request \ {r} : pc'[s] = pc[s] /\ job'[s] = job[s]
        \/ Finish(r)
    BY <1>6, MarkEffect
  <2>2. pc[r] = "mark" /\ UNCHANGED <<server, folderState, policy, clock>>
    BY <1>6 DEF MarkUIDsVerified
  <2>3. QED
    BY <2>1, <2>2, FinishEffect DEF Locked, SameRead
<1>7. CASE DeleteMissing(r)
  BY <1>7 DEF DeleteMissing, daemon, Locked
<1>8. CASE NoneMissing(r)
  <2>1. /\ pc[r] = "prune" /\ Unchanged_but_job
        /\ Go(r, job[r], IF job[r].whole THEN "verify" ELSE "commit")
    BY <1>8 DEF NoneMissing
  <2>2. QED
    BY <2>1, GoSets DEF Unchanged_but_job, tables, Locked
<1>9. CASE MarkFolderVerified(r)
  <2>1. /\ pc[r] = "verify" /\ Go(r, job[r], "commit")
        /\ UNCHANGED <<server, folderState, policy, clock, lock, quiet>>
    BY <1>9 DEF MarkFolderVerified
  <2>2. QED
    BY <2>1, GoSets DEF Locked
<1>10. CASE UpsertFolderState(r)
  BY <1>10, CommitEffect, FinishEffect DEF Locked
<1>11. QED
  BY <1>1, <1>2, <1>3, <1>4, <1>5, <1>6, <1>7, <1>8, <1>9, <1>10 DEF Cycle

\* What the steps before the mutex, and a failure, leave alone.
LEMMA WaitingEffect ==
    ASSUME TypeOK, NEW r \in Request,
           Start(r) \/ CleanupExpired(r) \/ Acquire(r) \/ Fail(r)
    PROVE  /\ UNCHANGED <<server, policy, clock>>
           /\ rows' \subseteq rows /\ folderState' \subseteq folderState
           /\ \A s \in Request \ {r} : pc'[s] = pc[s] /\ job'[s] = job[s]
           /\ \/ Start(r) /\ pc'[r] \in {"expire", "lock"}
              \/ CleanupExpired(r) /\ pc'[r] = "lock"
              \/ /\ Acquire(r) /\ pc[r] = "lock" /\ pc'[r] = "select"
                 /\ job'[r].known = folderState
                 /\ SameRead(job[r], [job'[r] EXCEPT !.known = job[r].known])
                 /\ job'[r].candidates = job[r].candidates
              \/ Finish(r) /\ UNCHANGED tables
<1>0. job[r] \in Job
  BY DEF TypeOK
<1>1. CASE Start(r)
  <2>1. PICK c \in Cap :
          LET j == [NoJob EXCEPT !.policy = policy, !.cap = c, !.now = clock,
                      !.expired = {PublicId(x) : x \in Expired(clock)}]
          IN Go(r, j, IF j.expired = {} THEN "lock" ELSE "expire")
    BY <1>1 DEF Start
  <2>2. UNCHANGED <<server, tables, policy, clock>>
    BY <1>1 DEF Start
  <2>3. QED
    BY <1>1, <2>1, <2>2, GoSets DEF tables
<1>2. CASE CleanupExpired(r)
  <2>1. /\ UNCHANGED <<server, policy, clock>> /\ pc'[r] = "lock"
        /\ \A s \in Request \ {r} : pc'[s] = pc[s] /\ job'[s] = job[s]
    BY <1>2 DEF CleanupExpired, Go, TypeOK
  <2>2. QED
    BY <1>2, <2>1, CleanupEffect
<1>3. CASE Acquire(r)
  <2>1. /\ Go(r, [job[r] EXCEPT !.known = folderState], "select")
        /\ UNCHANGED <<server, tables, policy, clock, quiet>> /\ pc[r] = "lock"
    BY <1>3 DEF Acquire
  <2>2. QED
    BY <1>0, <1>3, <2>1, GoSets DEF tables, SameRead, Job
<1>4. CASE Fail(r)
  BY <1>4, FinishEffect DEF Fail, tables
<1>5. QED
  BY <1>1, <1>2, <1>3, <1>4

\* UIDs are given out up to the bound.
LEMMA UidsBounded ==
    ASSUME TypeOK, [Next]_vars, uidnext <= MaxUid + 1
    PROVE  uidnext' <= MaxUid + 1
<1>1. uidnext \in Nat /\ MaxUid \in Nat
  BY NumberAssumption DEF TypeOK, Uid
<1>2. CASE UNCHANGED server
  BY <1>2, ServerSame
<1>3. CASE Environment
  <2>1. CASE \E k \in Kind : Deliver(k)
    BY <1>1, <2>1 DEF Deliver
  <2>2. CASE Renumber
    BY <1>1, <2>2 DEF Renumber
  <2>3. CASE \E m \in mailbox : Expunge(m) \/ ChangeFlags(m)
    BY <2>3 DEF Expunge, ChangeFlags
  <2>4. CASE EditPolicy \/ Tick
    BY <2>4 DEF EditPolicy, Tick, server
  <2>5. QED
    BY <1>3, <2>1, <2>2, <2>3, <2>4 DEF Environment
<1>4. CASE Crash \/ UNCHANGED vars
  BY <1>2, <1>4 DEF Crash, vars
<1>5. ASSUME NEW r \in Request, Start(r) \/ Progress(r)
      PROVE  UNCHANGED server
  BY <1>5, CycleEffect, WaitingEffect DEF Progress
<1>6. QED
  BY <1>2, <1>3, <1>4, <1>5 DEF Next

\* A scan for more than the folder may hold leaves nothing out.
LEMMA NothingCapped ==
    ASSUME Uncapped, NEW j \in Job, j.cap \in Cap,
           j.seen.uidnext <= MaxUid + 1,
           NEW uids \in SUBSET Uid, \A u \in uids : u <= MaxUid,
           j.whole \/ Windowed(j) \/ (j.cap > 0 /\ Cardinality(uids) > j.cap)
    PROVE  j.whole
<1>1. j.cap \in Nat /\ j.seen.uidnext \in Nat /\ MaxUid \in Nat
  BY JobNumbers, NumberAssumption
<1>2. j.cap = 0 \/ j.cap >= MaxUid
  BY DEF Uncapped
<1>3. ~Windowed(j)
  BY <1>1, <1>2 DEF Windowed
<1>4. uids \in SUBSET (1..MaxUid)
  BY <1>1 DEF Uid
<1>5. IsFiniteSet(1..MaxUid) /\ Cardinality(1..MaxUid) = MaxUid
  <2>1. 1 \in Int /\ MaxUid \in Int
    BY <1>1
  <2>2. /\ IsFiniteSet(1..MaxUid)
        /\ Cardinality(1..MaxUid) = IF 1 > MaxUid THEN 0 ELSE MaxUid - 1 + 1
    BY <2>1, FS_Interval
  <2>3. QED
    BY <1>1, <2>2
<1>6. IsFiniteSet(uids) /\ Cardinality(uids) <= MaxUid
  BY <1>4, <1>5, FS_Subset
<1>7. Cardinality(uids) \in Nat
  BY <1>6, FS_CardinalityType
<1>8. QED
  BY <1>1, <1>2, <1>3, <1>6, <1>7

\* Every scan of a cycle is whole when no request asks for fewer messages than
\* the folder may hold.
LEMMA CycleWhole ==
    ASSUME Uncapped, TypeOK, TypeOK', SyncInv, ContentInv, WholeScans,
           NEW r \in Request, Cycle(r)
    PROVE  WholeScan(r)'
<1>0. job'[r] \in Job /\ job[r] \in Job /\ MaxUid \in Nat /\ uidnext \in Nat
  BY NumberAssumption DEF TypeOK, Uid
<1>1. CASE Finish(r)
  BY <1>1, FinishEffect, NoJobLocals DEF WholeScan, Selected, Locked, Counting
<1>2. /\ pc[r] \in Locked /\ WholeScan(r)
      /\ \/ Finish(r)
         \/ /\ pc'[r] \in Locked \ {"select"} /\ job'[r].cap = job[r].cap
            /\ pc[r] # "select" => job'[r].seen = job[r].seen
  BY CycleEffect DEF WholeScans
<1>3. ASSUME ~Finish(r)
      PROVE  job'[r].cap \in Cap
  BY <1>2, <1>3 DEF WholeScan, Locked
<1>4. ASSUME pc[r] \in Selected, ~Finish(r)
      PROVE  job'[r].seen.uidnext <= MaxUid + 1
  BY <1>2, <1>4 DEF WholeScan, Selected
<1>5. CASE SelectFolder(r)
  <2>1. /\ pc[r] = "select" /\ job'[r].candidates = job[r].candidates
        /\ job'[r].seen = ServerNow
        /\ \/ pc'[r] \in {"invalidate", "discover"}
           \/ pc'[r] = "verify" /\ job'[r].whole
    BY <1>5, SelectEffect
  <2>2. job'[r].seen.uidnext <= MaxUid + 1
    BY <2>1, ServerNowFields DEF WholeScans
  <2>3. QED
    BY <1>1, <1>2, <1>3, <2>1, <2>2 DEF WholeScan, Counting
<1>6. CASE DeleteByFolder(r)
  <2>1. /\ pc[r] = "invalidate" /\ job'[r].candidates = job[r].candidates
        /\ pc'[r] = "discover" /\ job'[r].seen = job[r].seen
    BY <1>6, InvalidateEffect
  <2>2. pc[r] \in Selected
    BY <2>1 DEF Selected, Locked
  <2>3. QED
    BY <1>1, <1>2, <1>3, <1>4, <2>1, <2>2 DEF WholeScan, Counting
<1>7. CASE ListUIDs(r) \/ SearchAllowed(r)
  <2>1. PICK uids \in SUBSET Uid :
          /\ pc[r] = "discover"
          /\ \A u \in uids : \/ u \in job[r].candidates
                             \/ \E m \in mailbox : m.uid = u
          /\ job'[r].candidates \subseteq uids
          /\ \/ pc'[r] = "discover"
             \/ \/ job'[r].whole \/ Windowed(job'[r])
                \/ job'[r].cap > 0 /\ Cardinality(uids) > job'[r].cap
    BY <1>7, DiscoveryEffect
  <2>2. \A u \in uids : u <= MaxUid
    <3>1. ASSUME NEW m \in mailbox PROVE m.uid <= MaxUid
      <4>1. m.uid < uidnext /\ uidnext <= MaxUid + 1 /\ m.uid \in Nat
        BY DEF ContentInv, UidsFresh, WholeScans, TypeOK, Message, Uid
      <4>2. QED
        BY <1>0, <4>1
    <3>2. QED
      BY <1>2, <2>1, <3>1 DEF WholeScan
  <2>3. pc[r] \in Selected
    BY <2>1 DEF Selected, Locked
  <2>4. CASE ~Finish(r)
    <3>1. pc'[r] # "discover" => job'[r].whole
      BY <1>0, <1>3, <1>4, <2>1, <2>2, <2>3, <2>4, NothingCapped
    <3>2. QED
      BY <1>3, <1>4, <2>1, <2>2, <2>3, <2>4, <3>1 DEF WholeScan, Counting
  <2>5. QED
    BY <1>1, <2>4
<1>8. ASSUME pc[r] \in Counting \cup {"verify"}, ~Finish(r),
             job'[r].whole = job[r].whole,
             job'[r].candidates = job[r].candidates
      PROVE  WholeScan(r)'
  <2>1. pc[r] \in Selected
    BY <1>8 DEF Selected, Locked, Counting
  <2>2. QED
    BY <1>2, <1>3, <1>4, <1>8, <2>1 DEF WholeScan
<1>9. CASE UncachedUIDs(r) \/ PolicyAllowedUIDs(r) \/ FetchEnvelopes(r)
  <2>1. /\ pc[r] \in {"compare", "headers", "envelopes"}
        /\ job'[r].whole = job[r].whole
        /\ job'[r].candidates = job[r].candidates
    BY <1>9, GateEffect
  <2>2. QED
    BY <1>1, <1>8, <2>1 DEF Counting
<1>10. CASE StoreMessage(r)
  <2>1. /\ pc[r] = "store" /\ job'[r].whole = job[r].whole
        /\ job'[r].candidates = job[r].candidates
    BY <1>10, StoreJob
  <2>2. QED
    BY <1>1, <1>8, <2>1 DEF Counting
<1>11. CASE MarkUIDsVerified(r)
  BY <1>1, <1>8, <1>11, MarkEffect DEF Counting
<1>12. CASE DeleteMissing(r)
  <2>1. pc[r] = "prune" /\ job' = job
    BY <1>12 DEF DeleteMissing, daemon
  <2>2. QED
    BY <1>1, <1>8, <2>1 DEF Counting
<1>13. CASE NoneMissing(r)
  <2>1. pc[r] = "prune" /\ job'[r] = job[r]
    BY <1>13, GoSets DEF NoneMissing
  <2>2. QED
    BY <1>1, <1>8, <2>1 DEF Counting
<1>14. CASE MarkFolderVerified(r)
  <2>1. pc[r] = "verify" /\ job'[r] = job[r]
    BY <1>14, GoSets DEF MarkFolderVerified
  <2>2. QED
    BY <1>1, <1>8, <2>1
<1>15. CASE UpsertFolderState(r)
  BY <1>1, <1>15, CommitEffect
<1>16. QED
  BY <1>5, <1>6, <1>7, <1>9, <1>10, <1>11, <1>12, <1>13, <1>14, <1>15 DEF Cycle

\* A request that does nothing keeps what is said of its scan.
LEMMA WholeSame ==
    ASSUME NEW r \in Request, WholeScan(r), pc'[r] = pc[r], job'[r] = job[r]
    PROVE  WholeScan(r)'
BY DEF WholeScan

\* The requests and the policy while the rest of the world moves.
LEMMA WorldEffect ==
    ASSUME TypeOK, Environment \/ UNCHANGED vars
    PROVE  /\ pc' = pc /\ job' = job /\ rows' = rows
           /\ folderState' = folderState
           /\ \/ policy' = policy
              \/ <<policy, policy'>> \in PolicyChange /\ UNCHANGED server
<1>1. CASE UNCHANGED vars
  BY <1>1 DEF vars, daemon, tables
<1>2. CASE Environment
  <2>1. pc' = pc /\ job' = job /\ rows' = rows /\ folderState' = folderState
    BY <1>2, EnvironmentEffect DEF ServerMoves, OnlyWaits
  <2>2. CASE EditPolicy
    BY <2>1, <2>2 DEF EditPolicy
  <2>3. CASE ~EditPolicy
    BY <1>2, <2>1, <2>3
       DEF Environment, Deliver, Expunge, ChangeFlags, Renumber, Tick,
           Unchanged_but_server
  <2>4. QED
    BY <2>1, <2>2, <2>3
<1>3. QED
  BY <1>1, <1>2

\* Without a cap every scan stays whole, whoever takes the step.
LEMMA StepWhole ==
    ASSUME Uncapped, TypeOK, TypeOK', SyncInv, ContentInv, WholeScans,
           [Next]_vars
    PROVE  WholeScans'
<1>1. uidnext' <= MaxUid + 1
  BY UidsBounded DEF WholeScans
<1>2. ASSUME NEW r \in Request
      PROVE  WholeScan(r)'
  <2>1. WholeScan(r)
    BY DEF WholeScans
  <2>2. CASE Environment \/ UNCHANGED vars
    BY <2>1, <2>2, WorldEffect, WholeSame
  <2>3. CASE Crash
    <3>1. pc'[r] = "idle" /\ job'[r] = NoJob
      BY <2>3 DEF Crash
    <3>2. QED
      BY <3>1, NoJobLocals DEF WholeScan, Selected, Locked, Counting
  <2>4. ASSUME NEW s \in Request, Start(s) \/ Progress(s)
        PROVE  WholeScan(r)'
    <3>1. CASE s # r
      <4>1. pc'[r] = pc[r] /\ job'[r] = job[r]
        BY <2>4, <3>1, CycleEffect, WaitingEffect DEF Progress
      <4>2. QED
        BY <2>1, <4>1, WholeSame
    <3>2. CASE s = r /\ Cycle(r)
      BY <3>2, CycleWhole
    <3>3. CASE Start(r)
      <4>1. PICK c \in Cap :
              LET j == [NoJob EXCEPT !.policy = policy, !.cap = c, !.now = clock,
                          !.expired = {PublicId(x) : x \in Expired(clock)}]
              IN Go(r, j, IF j.expired = {} THEN "lock" ELSE "expire")
        BY <3>3 DEF Start
      <4> DEFINE j == [NoJob EXCEPT !.policy = policy, !.cap = c, !.now = clock,
                         !.expired = {PublicId(x) : x \in Expired(clock)}]
      <4>2. j.cap = c /\ j.candidates = {}
        BY NoJobType, NoJobLocals DEF Job
      <4> HIDE DEF j
      <4>3. /\ job'[r] = j /\ pc'[r] \in {"lock", "expire"}
        BY <4>1, GoSets DEF j
      <4>4. QED
        BY <4>2, <4>3 DEF WholeScan, Selected, Locked, Counting
    <3>4. CASE CleanupExpired(r)
      BY <2>1, <3>4, CleanupEffect
         DEF WholeScan, Selected, Locked, Counting, SameRead
    <3>5. CASE Acquire(r) \/ Fail(r)
      <4>1. \/ /\ pc[r] = "lock" /\ pc'[r] = "select"
               /\ job'[r].cap = job[r].cap
               /\ job'[r].candidates = job[r].candidates
            \/ pc'[r] = "idle" /\ job'[r] = NoJob
        <5>1. CASE Acquire(r)
          <6>1. /\ Go(r, [job[r] EXCEPT !.known = folderState], "select")
                /\ pc[r] = "lock" /\ job[r] \in Job
            BY <5>1 DEF Acquire, TypeOK
          <6>2. QED
            BY <6>1, GoSets DEF Job
        <5>2. CASE Fail(r)
          BY <5>2, FinishEffect DEF Fail
        <5>3. QED
          BY <3>5, <5>1, <5>2
      <4>2. QED
        BY <2>1, <4>1, NoJobLocals DEF WholeScan, Selected, Locked, Counting
    <3>6. QED
      BY <2>4, <3>1, <3>2, <3>3, <3>4, <3>5 DEF Progress
  <2>5. QED
    BY <2>2, <2>3, <2>4 DEF Next
<1>3. QED
  BY <1>1, <1>2 DEF WholeScans

\* A wider policy approves whatever a narrower one does.
LEMMA WiderApproves ==
    ASSUME NEW p, NEW q, NoWider(p, q), NEW k \in Kind, Approved(p, k)
    PROVE  Approved(q, k)
BY DEF NoWider, Narrower

\* Narrower and narrower.
LEMMA NarrowerStill ==
    ASSUME NEW p, NEW q, NEW t, Narrower(p, q), NoWider(q, t)
    PROVE  Narrower(p, t)
BY DEF NoWider, Narrower

\* Under the rule an edit narrows the policy, if there is one.
LEMMA PolicyMoves ==
    ASSUME PolicyRule, TypeOK, [Next]_vars
    PROVE  \/ policy' = policy
           \/ Narrower(policy', policy) /\ ~FixedPolicy
<1>1. CASE Environment \/ UNCHANGED vars
  <2>1. policy' = policy \/ <<policy, policy'>> \in PolicyChange
    BY <1>1, WorldEffect
  <2>2. QED
    BY <2>1 DEF PolicyRule, FixedPolicy, OnlyNarrows
<1>2. CASE Crash
  BY <1>2 DEF Crash
<1>3. ASSUME NEW r \in Request, Start(r) \/ Progress(r)
      PROVE  policy' = policy
  BY <1>3, CycleEffect, WaitingEffect DEF Progress
<1>4. QED
  BY <1>1, <1>2, <1>3 DEF Next

\* A policy no wider than the one on disk is so still, or was of a request.
LEMMA StillNoWider ==
    ASSUME PolicyRule, TypeOK, [Next]_vars, NEW p, NoWider(policy, p)
    PROVE  NoWider(policy', p)
BY PolicyMoves, NarrowerStill DEF NoWider

\* What is recorded has been recorded before, or is the state of a cycle.
LEMMA RecordedBefore ==
    ASSUME TypeOK, [Next]_vars
    PROVE  \/ folderState' \subseteq folderState
           \/ \E r \in Request : /\ pc[r] = "commit" /\ UpsertFolderState(r)
                                 /\ folderState' = {NewState(r)}
<1>1. CASE Environment \/ UNCHANGED vars
  BY <1>1, WorldEffect
<1>2. CASE Crash
  BY <1>2 DEF Crash, tables
<1>3. ASSUME NEW r \in Request, Cycle(r)
      PROVE  \/ folderState' = folderState
             \/ /\ pc[r] = "commit" /\ UpsertFolderState(r)
                /\ folderState' = {NewState(r)}
  <2>1. CASE pc[r] = "commit"
    <3>1. UpsertFolderState(r)
      BY <1>3, <2>1
         DEF Cycle, SelectFolder, DeleteByFolder, ListUIDs, SearchAllowed,
             UncachedUIDs, PolicyAllowedUIDs, FetchEnvelopes, StoreMessage,
             MarkUIDsVerified, DeleteMissing, NoneMissing, MarkFolderVerified
    <3>2. QED
      BY <3>1, CommitEffect
  <2>2. CASE pc[r] # "commit"
    BY <1>3, <2>2, CycleEffect
  <2>3. QED
    BY <2>1, <2>2
<1>4. ASSUME NEW r \in Request,
             Start(r) \/ CleanupExpired(r) \/ Acquire(r) \/ Fail(r)
      PROVE  folderState' \subseteq folderState
  BY <1>4, WaitingEffect
<1>5. QED
  BY <1>1, <1>2, <1>3, <1>4 DEF Next, Progress

\* A request under way has its policy from the start, and the states it has
\* read from when it took the mutex.
LEMMA LoadedBefore ==
    ASSUME TypeOK, [Next]_vars, NEW r \in Request
    PROVE  /\ pc'[r] # "idle" =>
                \/ job'[r].policy = policy /\ policy' = policy
                \/ pc[r] # "idle" /\ job'[r].policy = job[r].policy
           /\ pc'[r] \in Locked =>
                \/ pc[r] \in Locked /\ job'[r].known \subseteq job[r].known
                                    /\ job'[r].policy = job[r].policy
                \/ /\ pc[r] = "lock" /\ job'[r].known = folderState
                   /\ job'[r].policy = job[r].policy
<1> USE DEF Locked
<1>1. CASE Environment \/ UNCHANGED vars
  BY <1>1, WorldEffect
<1>2. CASE Crash
  BY <1>2 DEF Crash
<1>3. ASSUME NEW s \in Request, Start(s) \/ Progress(s), s # r
      PROVE  pc'[r] = pc[r] /\ job'[r] = job[r]
  BY <1>3, CycleEffect, WaitingEffect DEF Progress
<1>4. CASE Cycle(r)
  <2>1. /\ pc[r] \in Locked
        /\ \/ Finish(r)
           \/ /\ pc'[r] \in Locked \ {"select"}
              /\ job'[r].policy = job[r].policy
              /\ job'[r].known \subseteq job[r].known
    BY <1>4, CycleEffect
  <2>2. QED
    BY <2>1, FinishEffect
<1>5. CASE Start(r) \/ CleanupExpired(r) \/ Acquire(r) \/ Fail(r)
  <2>1. CASE Start(r)
    BY <2>1, WaitingEffect, StartEffect DEF Unlocked
  <2>2. CASE CleanupExpired(r)
    BY <2>2, CleanupEffect DEF SameRead
  <2>3. CASE Fail(r)
    BY <2>3, FinishEffect DEF Fail
  <2>4. CASE Acquire(r)
    <3>1. /\ Go(r, [job[r] EXCEPT !.known = folderState], "select")
          /\ pc[r] = "lock" /\ job[r] \in Job
      BY <2>4 DEF Acquire, TypeOK
    <3>2. QED
      BY <3>1, GoSets DEF Job
  <2>5. QED
    BY <1>5, <2>1, <2>2, <2>3, <2>4
<1>6. QED
  BY <1>1, <1>2, <1>3, <1>4, <1>5 DEF Next, Progress

\* The policies recorded and loaded stay in the order of their age.
LEMMA StepOrdered ==
    ASSUME PolicyRule, TypeOK, PoliciesOrdered, FixedPolicy => SamePolicy,
           [Next]_vars
    PROVE  PoliciesOrdered'
<1>1. \A s \in folderState : NoWider(policy, s.policy)
  BY DEF PoliciesOrdered
<1>2. ASSUME NEW r \in Request, pc[r] # "idle"
      PROVE  /\ NoWider(policy, job[r].policy)
             /\ \A s \in folderState : NoWider(job[r].policy, s.policy)
  BY <1>2 DEF PoliciesOrdered, Ordered
<1>3. ASSUME NEW s \in folderState'
      PROVE  NoWider(policy', s.policy)
  <2>1. CASE s \in folderState
    BY <1>1, <2>1, StillNoWider
  <2>2. CASE s \notin folderState
    <3>1. PICK r \in Request : pc[r] = "commit" /\ s = NewState(r)
      BY <2>2, RecordedBefore
    <3>2. s.policy = job[r].policy
      BY <3>1 DEF NewState
    <3>3. QED
      BY <1>2, <3>1, <3>2, StillNoWider
  <2>3. QED
    BY <2>1, <2>2
<1>4. ASSUME NEW r \in Request, pc'[r] # "idle"
      PROVE  /\ NoWider(policy', job'[r].policy)
             /\ \A s \in folderState' : NoWider(job'[r].policy, s.policy)
  <2>1. \/ job'[r].policy = policy /\ policy' = policy
        \/ pc[r] # "idle" /\ job'[r].policy = job[r].policy
    BY <1>4, LoadedBefore
  <2>2. NoWider(policy', job'[r].policy)
    BY <1>2, <2>1, StillNoWider DEF NoWider
  <2>3. ASSUME NEW s \in folderState'
        PROVE  NoWider(job'[r].policy, s.policy)
    <3>1. CASE s \in folderState
      BY <1>1, <1>2, <2>1, <3>1
    <3>2. CASE s \notin folderState
      <4>1. PICK t \in Request : /\ pc[t] = "commit" /\ s = NewState(t)
                                 /\ UpsertFolderState(t)
        BY <3>2, RecordedBefore
      <4>2. s.policy = job[t].policy /\ pc'[t] = "idle" /\ r # t
        BY <1>4, <4>1, CommitEffect, FinishEffect DEF NewState
      <4>3. FixedPolicy
        BY <4>2 DEF PolicyRule, OneAtATime
      <4>4. QED
        BY <2>1, <4>1, <4>2, <4>3 DEF SamePolicy, NoWider
    <3>3. QED
      BY <3>1, <3>2
  <2>4. QED
    BY <2>2, <2>3
<1>5. ASSUME NEW r \in Request, pc'[r] \in Locked, NEW s \in job'[r].known
      PROVE  NoWider(job'[r].policy, s.policy)
  BY <1>2, <1>5, LoadedBefore DEF PoliciesOrdered, Ordered
<1>6. QED
  BY <1>3, <1>4, <1>5 DEF PoliciesOrdered, Ordered

\* One policy stays one policy.
LEMMA StepSame ==
    ASSUME PolicyRule, FixedPolicy, TypeOK, SamePolicy, [Next]_vars
    PROVE  SamePolicy' /\ policy' = policy
<1>1. policy' = policy
  BY PolicyMoves
<1>2. ASSUME NEW r \in Request, pc'[r] # "idle"
      PROVE  job'[r].policy = policy
  BY <1>2, LoadedBefore DEF SamePolicy
<1>3. ASSUME NEW s \in folderState'
      PROVE  s.policy = policy
  <2>1. CASE s \in folderState
    BY <2>1 DEF SamePolicy
  <2>2. CASE s \notin folderState
    <3>1. PICK t \in Request : pc[t] = "commit" /\ s = NewState(t)
      BY <2>2, RecordedBefore
    <3>2. QED
      BY <3>1 DEF SamePolicy, NewState
  <2>3. QED
    BY <2>1, <2>2
<1>4. QED
  BY <1>1, <1>2, <1>3 DEF SamePolicy

\* Only StoreMessage writes what was not there.
LEMMA RowsBefore ==
    ASSUME TypeOK, RowsAsSelected, [Next]_vars
    PROVE  RowsFrom \/ \E r \in Request : StoreMessage(r)
<1>1. CASE Environment \/ UNCHANGED vars
  BY <1>1, WorldEffect, SubsetFrom
<1>2. CASE Crash
  BY <1>2, SubsetFrom DEF Crash, tables
<1>3. ASSUME NEW r \in Request,
             Start(r) \/ CleanupExpired(r) \/ Acquire(r) \/ Fail(r)
      PROVE  RowsFrom
  BY <1>3, WaitingEffect, SubsetFrom
<1>4. ASSUME NEW r \in Request, Cycle(r), ~StoreMessage(r)
      PROVE  RowsFrom
  <2>1. CASE SelectFolder(r) \/ DeleteByFolder(r)
    BY <2>1, SubsetFrom DEF SelectFolder, DeleteByFolder, tables
  <2>2. CASE ListUIDs(r) \/ SearchAllowed(r)
    BY <2>2, DiscoveryEffect, SubsetFrom DEF Unchanged_but_job, tables
  <2>3. CASE UncachedUIDs(r) \/ PolicyAllowedUIDs(r) \/ FetchEnvelopes(r)
    BY <2>3, GateEffect, SubsetFrom DEF Unchanged_but_job, tables
  <2>4. CASE MarkUIDsVerified(r) \/ MarkFolderVerified(r)
    BY <2>4, MarkEffect, FolderVerifiedEffect
  <2>5. CASE DeleteMissing(r) \/ NoneMissing(r)
    BY <2>5, SubsetFrom
       DEF DeleteMissing, NoneMissing, Unchanged_but_job, tables
  <2>6. CASE UpsertFolderState(r)
    BY <2>6, CommitEffect, SubsetFrom
  <2>7. QED
    BY <1>4, <2>1, <2>2, <2>3, <2>4, <2>5, <2>6 DEF Cycle
<1>5. QED
  BY <1>1, <1>2, <1>3, <1>4 DEF Next, Progress

\* A row of one piece has passed the gate of the cycle that stores it.
LEMMA StoredApproved ==
    ASSUME TypeOK, ContentInv, NEW r \in Request, pc[r] = "store",
           NEW e \in job[r].envelopes
    PROVE  LET x == Stored(r, e)
           IN /\ x.uid = e.uid /\ x.envelope.kind \in Kind
              /\ x.envelope.from = x.uidvalidity =>
                   Approved(job[r].policy, x.envelope.kind)
<1>1. e \in Envelope
  BY JobNumbers DEF TypeOK
<1>2. e.from = job[r].seen.uidvalidity => Approved(job[r].policy, e.kind)
  BY DEF ContentInv, PastTheGate
<1>3. QED
  BY <1>1, <1>2 DEF Stored, Envelope

\* No new row: all rows stay approved.
LEMMA GatheredSame ==
    ASSUME RowsFrom, NEW p, Gathered(p)
    PROVE  Gathered(p)'
<1> SUFFICES ASSUME NEW x \in rows', x.envelope.from = x.uidvalidity
             PROVE  Approved(p, x.envelope.kind)
  BY DEF Gathered
<1>1. PICK y \in rows : SameRow(x, y)
  BY DEF RowsFrom
<1>2. QED
  BY <1>1 DEF SameRow, Gathered

\* All rows stay approved by a policy no narrower than that of the cycle.
LEMMA GatheredStill ==
    ASSUME TypeOK, RowsAsSelected, ContentInv, [Next]_vars,
           NEW p, Gathered(p),
           \A r \in Request : pc[r] = "store" => NoWider(job[r].policy, p)
    PROVE  Gathered(p)'
<1>1. CASE RowsFrom
  BY <1>1, GatheredSame
<1>2. ASSUME NEW r \in Request, StoreMessage(r)
      PROVE  Gathered(p)'
  <2>1. PICK e \in job[r].envelopes :
          /\ pc[r] = "store"
          /\ \A x \in rows' : x = Stored(r, e) \/ (x \in rows /\ x.uid # e.uid)
    BY <1>2, StoreEffect
  <2> SUFFICES ASSUME NEW x \in rows', x.envelope.from = x.uidvalidity
               PROVE  Approved(p, x.envelope.kind)
    BY DEF Gathered
  <2>2. CASE x \in rows
    BY <2>2 DEF Gathered
  <2>3. CASE x = Stored(r, e)
    BY <2>1, <2>3, StoredApproved, WiderApproves
  <2>4. QED
    BY <2>1, <2>2, <2>3
<1>3. QED
  BY <1>1, <1>2, RowsBefore

\* The rows a cycle keeps have passed its gate.
Kept(r) ==
    \A x \in rows : x.uid \in job[r].keep /\ x.envelope.from = x.uidvalidity =>
        Approved(job[r].policy, x.envelope.kind)

\* No new row: the rows kept stay approved.
LEMMA KeptSame ==
    ASSUME RowsFrom, NEW r \in Request, Kept(r),
           job'[r].policy = job[r].policy, job'[r].keep = job[r].keep
    PROVE  Kept(r)'
<1> SUFFICES ASSUME NEW x \in rows', x.envelope.from = x.uidvalidity,
                    x.uid \in job[r].keep
             PROVE  Approved(job[r].policy, x.envelope.kind)
  BY DEF Kept
<1>1. PICK y \in rows : SameRow(x, y)
  BY DEF RowsFrom
<1>2. QED
  BY <1>1 DEF SameRow, Kept

\* The rows a cycle under the mutex keeps, and in the end all rows, have passed
\* its gate.
LEMMA CycleGathers ==
    ASSUME PolicyRule, GenerationInv, ContentInv, SyncInv, PolicyInv,
           [Next]_vars, NEW r \in Request, Cycle(r),
           Uncapped => WholeScan(r)', pc'[r] \in Rebuilding
    PROVE  /\ Kept(r)' /\ job'[r].policy = job[r].policy
           /\ pc'[r] \in {"verify", "commit"} => Gathered(job[r].policy)'
<1> DEFINE p == job[r].policy
<1>0. TypeOK /\ MutexOK /\ RowsAsSelected
  BY DEF GenerationInv
<1>1. /\ pc[r] \in Locked /\ job'[r].policy = job[r].policy /\ ~Finish(r)
  BY <1>0, CycleEffect, FinishEffect DEF Rebuilding, Selected, Locked
<1>2. GatheredBy(r) /\ LocalsInUse(r) /\ Ordered(r)
  BY DEF PolicyInv, RowsApproved, SyncInv, PoliciesOrdered
<1>3. ASSUME Gathered(p)
      PROVE  Gathered(job[r].policy)' /\ Kept(r)'
  <2>1. \A t \in Request : pc[t] = "store" => t = r
    BY <1>0, <1>1 DEF SyncInv, Locked, GatheredBy, TypeOK, MutexOK
  <2>2. PICK q : q = p
    OBVIOUS
  <2>3. \A t \in Request : pc[t] = "store" => NoWider(job[t].policy, q)
    BY <2>1, <2>2 DEF NoWider
  <2>4. Gathered(q)
    BY <1>3, <2>2
  <2>5. Gathered(q)'
    BY <1>0, <2>3, <2>4, GatheredStill
  <2>6. QED
    BY <1>1, <2>2, <2>5 DEF Gathered, Kept
<1>4. CASE FixedPolicy
  <2>1. pc[r] # "idle"
    BY <1>1 DEF Locked
  <2>2. Gathered(p)
    BY <1>4, <2>1 DEF PolicyInv, SamePolicy
  <2>3. QED
    BY <1>1, <1>3, <2>2
<1>5. CASE ~FixedPolicy
  <2>1. pc'[r] \in Counting \cup {"commit"} => job'[r].whole
    BY <1>5 DEF PolicyRule, WholeScan
  <2>2. ASSUME job'[r].keep = {}
        PROVE  Kept(r)'
    BY <2>2 DEF Kept
  <2>3. CASE SelectFolder(r)
    <3>1. /\ pc[r] = "select" /\ job'[r].keep = job[r].keep
          /\ \/ pc'[r] \in {"invalidate", "discover"}
             \/ \E s \in job[r].known : Unmodified(s, p, ServerNow)
      BY <1>0, <2>3, SelectEffect
    <3>2. job[r].keep = {}
      BY <1>2, <3>1 DEF LocalsInUse
    <3>3. CASE \E s \in job[r].known : Unmodified(s, p, ServerNow)
      <4>1. Gathered(p)
        BY <1>1, <1>2, <3>3 DEF GatheredBy, Unmodified
      <4>2. QED
        BY <1>1, <1>3, <4>1
    <3>4. QED
      BY <1>1, <2>2, <3>1, <3>2, <3>3
  <2>4. CASE DeleteByFolder(r)
    <3>1. /\ pc[r] = "invalidate" /\ pc'[r] = "discover"
          /\ job'[r].keep = job[r].keep
      BY <1>0, <2>4, InvalidateEffect
    <3>2. job[r].keep = {}
      BY <1>2, <3>1 DEF LocalsInUse
    <3>3. QED
      BY <1>1, <2>2, <3>1, <3>2
  <2>5. CASE ListUIDs(r) \/ SearchAllowed(r)
    <3>1. /\ pc[r] = "discover" /\ job'[r].keep = job[r].keep
          /\ pc'[r] \in {"discover", "compare", "headers", "envelopes",
                         "prune", "mark", "commit"}
          /\ pc'[r] = "commit" => ~job'[r].whole
      BY <1>0, <2>5, DiscoveryEffect
    <3>2. job[r].keep = {}
      BY <1>2, <3>1 DEF LocalsInUse
    <3>3. QED
      BY <1>1, <2>1, <2>2, <3>1, <3>2
  <2>6. CASE UncachedUIDs(r) \/ PolicyAllowedUIDs(r) \/ FetchEnvelopes(r)
    <3>1. /\ pc[r] \in {"compare", "headers", "envelopes"} /\ rows' = rows
          /\ pc[r] # "compare" => job'[r].keep = job[r].keep
          /\ pc'[r] \in {"headers", "envelopes", "store", "mark", "prune",
                         "commit"}
          /\ pc'[r] = "commit" => ~job'[r].whole
      BY <1>0, <2>6, GateEffect DEF Unchanged_but_job, tables
    <3>2. CASE pc[r] = "compare"
      <4>1. CachedRowsAreCurrent(job[r])
        BY <1>2, <3>2 DEF LocalsInUse
      <4>2. Gathered(p)
        BY <1>1, <1>2, <4>1 DEF GatheredBy, CachedRowsAreCurrent
      <4>3. QED
        BY <1>1, <1>3, <4>2
    <3>3. CASE pc[r] # "compare"
      <4>1. pc[r] \in Rebuilding
        BY <3>1 DEF Rebuilding, Selected, Locked
      <4>2. Kept(r)
        BY <1>2, <4>1 DEF GatheredBy, Kept
      <4>3. RowsFrom
        BY <3>1, SubsetFrom
      <4>4. Kept(r)'
        BY <1>1, <3>1, <3>3, <4>2, <4>3, KeptSame
      <4>5. QED
        BY <1>1, <2>1, <3>1, <4>4
    <3>4. QED
      BY <3>2, <3>3
  <2>7. CASE StoreMessage(r)
    <3>1. PICK e \in job[r].envelopes :
            /\ pc[r] = "store" /\ job'[r].keep = job[r].keep \cup {e.uid}
            /\ \A x \in rows' : \/ x = Stored(r, e)
                                \/ x \in rows /\ x.uid # e.uid
            /\ pc'[r] \in {"store", "mark", "prune", "commit"}
            /\ pc'[r] = "commit" => ~job'[r].whole
      BY <1>0, <2>7, StoreEffect
    <3>2. Kept(r)
      BY <1>2, <3>1 DEF GatheredBy, Kept, Rebuilding, Selected, Locked
    <3>3. ASSUME NEW x \in rows', x.uid \in job'[r].keep,
                 x.envelope.from = x.uidvalidity
          PROVE  Approved(p, x.envelope.kind)
      <4>1. CASE x = Stored(r, e)
        BY <1>0, <3>1, <3>3, <4>1, StoredApproved
      <4>2. CASE x \in rows /\ x.uid # e.uid
        BY <3>1, <3>2, <3>3, <4>2 DEF Kept
      <4>3. QED
        BY <3>1, <4>1, <4>2
    <3>4. QED
      BY <1>1, <2>1, <3>1, <3>3 DEF Kept
  <2>8. CASE MarkUIDsVerified(r)
    <3>1. /\ pc[r] = "mark" /\ RowsFrom /\ pc'[r] = "prune"
          /\ job'[r].keep = job[r].keep
      BY <1>0, <1>1, <2>8, MarkEffect
    <3>2. Kept(r)
      BY <1>2, <3>1 DEF GatheredBy, Kept, Rebuilding, Selected, Locked
    <3>3. QED
      BY <1>1, <3>1, <3>2, KeptSame
  <2>9. CASE DeleteMissing(r)
    <3>1. /\ pc[r] = "prune" /\ rows' \subseteq rows
          /\ pc'[r] = pc[r] /\ job'[r] = job[r]
      BY <2>9 DEF DeleteMissing, daemon
    <3>2. Kept(r)
      BY <1>2, <3>1 DEF GatheredBy, Kept, Rebuilding, Selected, Locked
    <3>3. QED
      BY <1>1, <3>1, <3>2, SubsetFrom, KeptSame
  <2>10. CASE NoneMissing(r)
    <3>1. /\ pc[r] = "prune" /\ Missing(r) = {} /\ job'[r] = job[r]
          /\ pc'[r] = IF job[r].whole THEN "verify" ELSE "commit"
      BY <1>0, <2>10, GoSets DEF NoneMissing
    <3>2. job[r].whole
      BY <2>1, <3>1
    <3>3. \A x \in rows : x.uid \in job[r].keep
      BY <3>1, <3>2 DEF Missing, Covered
    <3>4. Gathered(p)
      BY <1>2, <3>1, <3>3
         DEF GatheredBy, Gathered, Rebuilding, Selected, Locked
    <3>5. QED
      BY <1>1, <1>3, <3>4
  <2>11. CASE MarkFolderVerified(r)
    <3>1. Gathered(p)
      BY <1>0, <1>2, <2>11, FolderVerifiedEffect DEF GatheredBy
    <3>2. QED
      BY <1>1, <1>3, <3>1
  <2>12. CASE UpsertFolderState(r)
    BY <1>0, <1>1, <2>12, CommitEffect
  <2>13. QED
    BY <2>3, <2>4, <2>5, <2>6, <2>7, <2>8, <2>9, <2>10, <2>11, <2>12 DEF Cycle
<1>6. QED
  BY <1>4, <1>5

\* A request that takes no step of a cycle keeps what its cycle has gathered.
LEMMA WaitingGathers ==
    ASSUME RowsFrom, NEW r \in Request, GatheredBy(r),
           pc'[r] \in Rebuilding => pc'[r] = pc[r] /\ job'[r] = job[r],
           pc'[r] \in Rebuilding
    PROVE  /\ Kept(r)' /\ job'[r].policy = job[r].policy
           /\ pc'[r] \in {"verify", "commit"} => Gathered(job[r].policy)'
<1>1. Kept(r)'
  <2>1. Kept(r)
    BY DEF GatheredBy, Kept
  <2>2. QED
    BY <2>1, KeptSame
<1>2. ASSUME pc'[r] \in {"verify", "commit"}
      PROVE  Gathered(job[r].policy)'
  <2>1. PICK q : q = job[r].policy
    OBVIOUS
  <2>2. Gathered(q)
    BY <1>2, <2>1 DEF GatheredBy
  <2>3. Gathered(q)'
    BY <2>2, GatheredSame
  <2>4. QED
    BY <2>1, <2>3 DEF Gathered
<1>3. QED
  BY <1>1, <1>2

\* The states recorded, read and being made are of policies that approve all
\* rows.
LEMMA StepGathered ==
    ASSUME PolicyRule, GenerationInv, ContentInv, SyncInv, PolicyInv,
           [Next]_vars, Uncapped => WholeScans'
    PROVE  RowsApproved'
<1>0. TypeOK /\ MutexOK /\ RowsAsSelected
  BY DEF GenerationInv
<1>1. \A r \in Request : GatheredBy(r) /\ Ordered(r)
  BY DEF PolicyInv, RowsApproved, PoliciesOrdered
<1>2. ASSUME NEW s \in folderState
      PROVE  Gathered(s.policy)'
  <2>1. PICK q : q = s.policy
    OBVIOUS
  <2>2. Gathered(q)
    BY <2>1 DEF PolicyInv, RowsApproved
  <2>3. \A r \in Request : pc[r] = "store" => NoWider(job[r].policy, q)
    BY <1>1, <2>1 DEF Ordered
  <2>4. QED
    BY <1>0, <2>1, <2>2, <2>3, GatheredStill
<1>3. ASSUME NEW s \in folderState'
      PROVE  Gathered(s.policy)'
  <2>1. CASE s \in folderState
    BY <1>2, <2>1
  <2>2. CASE s \notin folderState
    <3>1. PICK r \in Request : /\ pc[r] = "commit" /\ s = NewState(r)
                               /\ UpsertFolderState(r)
      BY <1>0, <2>2, RecordedBefore
    <3>2. Gathered(s.policy) /\ RowsFrom
      BY <1>0, <1>1, <3>1, CommitEffect, SubsetFrom DEF GatheredBy, NewState
    <3>3. QED
      BY <3>2, GatheredSame
  <2>3. QED
    BY <2>1, <2>2
<1>4. ASSUME NEW r \in Request, pc'[r] \in Locked, NEW s \in job'[r].known
      PROVE  Gathered(s.policy)'
  <2>1. CASE s \in folderState
    BY <1>2, <2>1
  <2>2. CASE pc[r] \in Locked /\ s \in job[r].known
    <3>1. PICK q : q = s.policy
      OBVIOUS
    <3>2. Gathered(q) /\ NoWider(job[r].policy, q)
      BY <1>1, <2>2, <3>1 DEF GatheredBy, Ordered
    <3>3. \A t \in Request : pc[t] = "store" => t = r
      BY <1>0, <2>2, OthersOutside DEF Locked
    <3>4. QED
      BY <1>0, <3>1, <3>2, <3>3, GatheredStill
  <2>3. QED
    BY <1>0, <1>4, <2>1, <2>2, LoadedBefore
<1>5. ASSUME NEW r \in Request, pc'[r] \in Rebuilding
      PROVE  /\ Kept(r)' /\ job'[r].policy = job[r].policy
             /\ pc'[r] \in {"verify", "commit"} => Gathered(job[r].policy)'
  <2>1. CASE Cycle(r)
    BY <1>5, <2>1, CycleGathers DEF WholeScans
  <2>2. CASE RowsFrom /\ pc'[r] = pc[r] /\ job'[r] = job[r]
    BY <1>1, <1>5, <2>2, WaitingGathers
  <2>3. CASE Environment \/ UNCHANGED vars
    BY <1>0, <2>2, <2>3, WorldEffect, SubsetFrom
  <2>4. pc'[r] \notin {"idle", "expire", "lock", "select"}
    BY <1>5 DEF Rebuilding, Selected, Locked
  <2>5. ~Crash
    BY <2>4 DEF Crash
  <2>6. ASSUME Start(r) \/ CleanupExpired(r) \/ Acquire(r) \/ Fail(r)
        PROVE  FALSE
    BY <1>0, <2>4, <2>6, WaitingEffect, FinishEffect
  <2>7. ASSUME NEW s \in Request, s # r, Start(s) \/ Progress(s)
        PROVE  RowsFrom /\ pc'[r] = pc[r] /\ job'[r] = job[r]
    <3>1. CASE Start(s) \/ CleanupExpired(s) \/ Acquire(s) \/ Fail(s)
      BY <1>0, <2>7, <3>1, WaitingEffect, SubsetFrom
    <3>2. CASE Cycle(s)
      <4>1. pc[s] \in Locked /\ pc'[r] = pc[r]
        BY <1>0, <2>7, <3>2, CycleEffect
      <4>2. pc[r] \in Locked
        BY <1>5, <4>1 DEF Rebuilding, Selected
      <4>3. QED
        BY <1>0, <2>7, <4>1, <4>2, OthersOutside
    <3>3. QED
      BY <2>7, <3>1, <3>2 DEF Progress
  <2>8. QED
    BY <2>1, <2>2, <2>3, <2>5, <2>6, <2>7 DEF Next, Progress
<1>6. ASSUME NEW r \in Request
      PROVE  GatheredBy(r)'
  <2>1. ASSUME pc'[r] \in Rebuilding
        PROVE  \A x \in rows' : x.uid \in job'[r].keep
                                  /\ x.envelope.from = x.uidvalidity =>
                 Approved(job'[r].policy, x.envelope.kind)
    BY <1>5, <2>1 DEF Kept
  <2>2. ASSUME pc'[r] \in {"verify", "commit"}
        PROVE  \A x \in rows' : x.envelope.from = x.uidvalidity =>
                 Approved(job'[r].policy, x.envelope.kind)
    <3>1. pc'[r] \in Rebuilding
      BY <2>2 DEF Rebuilding, Selected, Locked
    <3>2. QED
      BY <1>5, <2>2, <3>1 DEF Gathered
  <2>3. QED
    BY <1>4, <2>1, <2>2 DEF GatheredBy, Gathered
<1>7. QED
  BY <1>3, <1>6 DEF RowsApproved

\* Every step keeps the invariant, under the rule for edits of the policy.
LEMMA StepPolicy ==
    ASSUME PolicyRule, GenerationInv, TypeOK', ContentInv, SyncInv, PolicyInv,
           [Next]_vars
    PROVE  PolicyInv'
<1>0. TypeOK /\ MutexOK /\ RowsAsSelected
  BY DEF GenerationInv
<1>1. ASSUME Uncapped PROVE WholeScans'
  BY <1>0, <1>1, StepWhole DEF PolicyInv
<1>2. PoliciesOrdered'
  BY <1>0, StepOrdered DEF PolicyInv
<1>3. RowsApproved'
  BY <1>1, StepGathered
<1>4. ASSUME FixedPolicy
      PROVE  SamePolicy' /\ Gathered(policy)'
  <2>1. SamePolicy' /\ policy' = policy
    BY <1>0, <1>4, StepSame DEF PolicyInv
  <2>2. PICK q : q = policy
    OBVIOUS
  <2>3. \A r \in Request : pc[r] = "store" => NoWider(job[r].policy, q)
    BY <1>4, <2>2 DEF PolicyInv, SamePolicy, NoWider
  <2>4. Gathered(q)'
    BY <1>0, <1>4, <2>2, <2>3, GatheredStill DEF PolicyInv
  <2>5. QED
    BY <2>1, <2>2, <2>4 DEF Gathered
<1>5. QED
  BY <1>1, <1>2, <1>3, <1>4 DEF PolicyInv, FixedPolicy, Uncapped

\* Initially nothing is recorded and nobody is at work.
LEMMA InitPolicy == Init => PolicyInv
<1> SUFFICES ASSUME Init PROVE PolicyInv
  OBVIOUS
<1>1. /\ rows = {} /\ folderState = {} /\ uidnext \in 1..(MaxUid + 1)
      /\ \A r \in Request : pc[r] = "idle" /\ job[r] = NoJob
  BY DEF Init
<1>2. MaxUid \in Nat
  BY NumberAssumption
<1>3. WholeScans
  <2>1. uidnext <= MaxUid + 1
    BY <1>1, <1>2
  <2>2. QED
    BY <1>1, <2>1, NoJobLocals
       DEF WholeScans, WholeScan, Selected, Locked, Counting
<1>4. PoliciesOrdered
  BY <1>1 DEF PoliciesOrdered, Ordered, Locked
<1>5. RowsApproved
  BY <1>1 DEF RowsApproved, GatheredBy, Rebuilding, Selected, Locked
<1>6. SamePolicy /\ Gathered(policy)
  BY <1>1 DEF SamePolicy, Gathered
<1>7. QED
  BY <1>3, <1>4, <1>5, <1>6 DEF PolicyInv

\* As long as edits of the policy do not overtake a cycle, every state recorded
\* or read is of a policy that approves all rows.
LEMMA PolicyInvariant ==
    ASSUME PolicyRule
    PROVE  Spec => []PolicyInv
<1>1. Init => PolicyInv
  BY InitPolicy
<1>2. GenerationInv /\ GenerationInv' /\ ContentInv /\ SyncInv /\ PolicyInv
        /\ [Next]_vars => PolicyInv'
  BY StepPolicy DEF GenerationInv
<1>3. QED
  BY <1>1, <1>2, GenerationsInvariant, ContentInvariant, SyncInvariant, PTL
     DEF Spec

\* A folder whose state carries the fingerprint of the policy on disk holds no
\* row that this policy would not admit (refreshFolder compares the fingerprints
\* before it trusts a cached row): whether the policy is never edited, or edits
\* only narrow it while requests come one at a time and ask for all messages.
THEOREM CachedRowsAreApproved ==
    ASSUME PolicyRule
    PROVE  Spec => []OnlyApprovedRows
<1>1. GenerationInv /\ ContentInv /\ PolicyInv => OnlyApprovedRows
  <2> SUFFICES ASSUME GenerationInv, ContentInv, PolicyInv,
                      NEW s \in folderState, s.policy = policy,
                      NEW x \in rows, x.uidvalidity = uidvalidity
               PROVE  Approved(policy, x.envelope.kind)
    BY DEF OnlyApprovedRows
  <2>1. x.envelope.from \in Nat /\ x.uidvalidity \in Nat
    BY DEF GenerationInv, TypeOK, Row, Envelope
  <2>2. x.envelope.from = x.uidvalidity
    BY <2>1 DEF ContentInv, PartsNotOlder
  <2>3. QED
    BY <2>2 DEF PolicyInv, RowsApproved, Gathered
<1>2. QED
  BY <1>1, PolicyInvariant, GenerationsInvariant, ContentInvariant, PTL

\* The row caches an approved message, as the message is now.
LEMMA LiveAndApproved ==
    ASSUME TypeOK, NEW x \in rows, Live(x), NEW p, Gathered(p)
    PROVE  \E m \in mailbox : Approved(p, m.kind) /\ Caches(x, m)
<1>1. PICK m \in mailbox : /\ x.uidvalidity = uidvalidity /\ OfMessage(x, m)
                           /\ x.envelope.modseq = m.modseq
  BY DEF Live
<1>2. Caches(x, m)
  BY <1>1, CachesOldIs DEF TypeOK
<1>3. Approved(p, m.kind)
  BY <1>1 DEF Gathered, OfMessage
<1>4. QED
  BY <1>2, <1>3

\* While the server has not changed since a state was recorded, every row it
\* would vouch for on the fast path (refresh.go, refreshFolder) is an approved
\* message of the server, flags and all: whatever crashes, failures and purges
\* came between, under the same rule for the edits of the policy.
THEOREM FastPathTrustsNothingStale ==
    ASSUME PolicyRule
    PROVE  Spec => []FastPathNeverStale
<1>1. GenerationInv /\ SyncInv /\ PolicyInv => FastPathNeverStale
  <2> SUFFICES ASSUME GenerationInv, SyncInv, PolicyInv, NEW s \in folderState,
                      Unmodified(s, s.policy, ServerNow), NEW x \in rows
               PROVE  \E m \in mailbox : Approved(s.policy, m.kind) /\ Caches(x, m)
    BY DEF FastPathNeverStale, NothingStale
  <2>1. UpToDate(s.highestmodseq)
    BY ServerNowFields DEF Unmodified, UpToDate
  <2>2. Live(x)
    BY <2>1 DEF SyncInv, TablesInv, Vouches
  <2>3. Gathered(s.policy)
    BY DEF PolicyInv, RowsApproved
  <2>4. QED
    BY <2>2, <2>3, LiveAndApproved DEF GenerationInv
<1>2. QED
  BY <1>1, PolicyInvariant, GenerationsInvariant, SyncInvariant, PTL

-----------------------------------------------------------------------------
(* Without a purge beside a cycle *)

\* Policies that are no wider than each other are the same.
LEMMA SameWidth ==
    ASSUME NEW p, NEW q, NoWider(p, q), NoWider(q, p)
    PROVE  p = q
BY DEF NoWider, Narrower

\* When no request comes beside another, or edits of the policy are none, a
\* policy that is wanted is the one of the request under way.
LEMMA WantedIsLoaded ==
    ASSUME PolicyRule, PolicyInv, NEW r \in Request, pc[r] # "idle",
           NEW s \in folderState, Wanted(s.policy)
    PROVE  s.policy = job[r].policy
<1>1. CASE s.policy = policy
  <2>1. NoWider(policy, job[r].policy) /\ NoWider(job[r].policy, s.policy)
    BY DEF PolicyInv, PoliciesOrdered, Ordered
  <2>2. QED
    BY <1>1, <2>1, SameWidth
<1>2. ASSUME NEW t \in Request, pc[t] # "idle", job[t].policy = s.policy
      PROVE  s.policy = job[r].policy
  <2>1. CASE FixedPolicy
    BY <1>2, <2>1 DEF PolicyInv, SamePolicy
  <2>2. CASE OneAtATime
    BY <1>2, <2>2 DEF OneAtATime
  <2>3. QED
    BY <2>1, <2>2 DEF PolicyRule
<1>3. QED
  BY <1>1, <1>2 DEF Wanted

\* A state that is recorded stays unwanted.
LEMMA WantedBefore ==
    ASSUME PolicyRule, TypeOK, PolicyInv, [Next]_vars, NEW s \in folderState,
           Wanted(s.policy)'
    PROVE  Wanted(s.policy)
<1>1. CASE s.policy = policy'
  <2>1. NoWider(policy, s.policy)
    BY DEF PolicyInv, PoliciesOrdered
  <2>2. policy' = policy
    <3> SUFFICES ASSUME Narrower(policy', policy)
                 PROVE  FALSE
      BY PolicyMoves
    <3>1. policy = policy'
      BY <1>1, <2>1, SameWidth DEF NoWider
    <3>2. QED
      BY <3>1 DEF Narrower
  <2>3. QED
    BY <1>1, <2>2 DEF Wanted
<1>2. ASSUME NEW r \in Request, pc'[r] # "idle", job'[r].policy = s.policy
      PROVE  Wanted(s.policy)
  BY <1>2, LoadedBefore DEF Wanted
<1>3. QED
  BY <1>1, <1>2 DEF Wanted

\* A purge that does not race takes nothing, or all rows and the state.
LEMMA PurgeEffect ==
    ASSUME NoPurgeRace, TypeOK, NEW r \in Request, CleanupExpired(r),
           AllListed(r)
    PROVE  /\ ~OneAtATime => rows' = rows /\ folderState' = folderState
           /\ SameAge /\ rows' # rows => rows' = {} /\ folderState' = {}
<1> DEFINE purged == {x \in Expired(job[r].now) : PublicId(x) \in job[r].expired}
<1>1. /\ pc[r] = "expire" /\ rows' = rows \ purged
      /\ folderState' = IF purged # {} /\ rows' = {} THEN {} ELSE folderState
  BY DEF CleanupExpired
<1>2. purged = Expired(job[r].now)
  BY <1>1 DEF AllListed
<1> HIDE DEF purged
<1>3. ASSUME ~OneAtATime
      PROVE  rows' = rows /\ folderState' = folderState
  <2>1. TTL = 0
    BY <1>3 DEF NoPurgeRace
  <2>2. purged = {}
    BY <1>2, <2>1 DEF Expired
  <2>3. QED
    BY <1>1, <2>2
<1>4. ASSUME SameAge, rows' # rows
      PROVE  rows' = {} /\ folderState' = {}
  <2>1. PICK x \in purged : TRUE
    BY <1>1, <1>4
  <2>2. x \in rows /\ TTL > 0 /\ TextBefore(x.verified, job[r].now - TTL)
    BY <1>2 DEF Expired
  <2>3. \A y \in rows : y.verified = x.verified
    BY <1>4, <2>2 DEF SameAge
  <2>4. rows \subseteq purged
    BY <1>2, <2>2, <2>3 DEF Expired
  <2>5. QED
    BY <1>1, <2>1, <2>4
<1>5. QED
  BY <1>3, <1>4

\* No rows and no states go while another request is at work.
LEMMA OthersSpare ==
    ASSUME NoPurgeRace, TypeOK, MutexOK, CompleteInv, NEW r \in Request,
           NEW s \in Request, s # r, Start(s) \/ Progress(s),
           pc[r] \in Locked \cup {"expire"},
           pc[r] \in Locked \/ ~Cycle(s)
    PROVE  /\ rows' = rows /\ folderState' = folderState
           /\ UNCHANGED server
           /\ pc'[r] = pc[r] /\ job'[r] = job[r]
           /\ r \in quiet' => r \in quiet
<1>1. ~OneAtATime
  BY DEF OneAtATime
<1>2. CASE Start(s)
  BY <1>2, WaitingEffect DEF Start, tables
<1>3. CASE CleanupExpired(s)
  <2>1. rows' = rows /\ folderState' = folderState
    BY <1>1, <1>3, PurgeEffect DEF CompleteInv
  <2>2. QED
    BY <1>3, <2>1, WaitingEffect, CleanupEffect
<1>4. CASE Acquire(s)
  BY <1>4, WaitingEffect DEF Acquire, tables
<1>5. CASE Fail(s)
  BY <1>5, WaitingEffect DEF Fail, tables, Finish
<1>6. CASE Cycle(s)
  BY <1>6, CycleEffect, OthersOutside
<1>7. QED
  BY <1>2, <1>3, <1>4, <1>5, <1>6 DEF Progress

\* What a request has listed to purge is all there is, still.
LEMMA StepListed ==
    ASSUME NoPurgeRace, TypeOK, MutexOK, CompleteInv, [Next]_vars,
           NEW r \in Request
    PROVE  AllListed(r)'
<1>1. AllListed(r)
  BY DEF CompleteInv
<1>2. ASSUME rows' = rows, pc'[r] = pc[r], job'[r] = job[r]
      PROVE  AllListed(r)'
  BY <1>1, <1>2 DEF AllListed, Expired
<1>3. CASE TTL = 0
  BY <1>3 DEF AllListed, Expired
<1>4. CASE OneAtATime
  <2>1. CASE Environment \/ UNCHANGED vars
    BY <1>2, <2>1, WorldEffect
  <2>2. CASE Crash
    BY <2>2 DEF Crash, AllListed
  <2>3. CASE Start(r)
    <3>1. job'[r].expired = {PublicId(x) : x \in Expired(job'[r].now)}
      BY <2>3, StartEffect
    <3>2. rows' = rows
      BY <2>3 DEF Start, tables
    <3>3. QED
      BY <3>1, <3>2 DEF AllListed, Expired
  <2>4. CASE CleanupExpired(r) \/ Acquire(r) \/ Fail(r)
    BY <2>4, WaitingEffect, FinishEffect DEF AllListed, Start, Acquire,
       CleanupExpired, Fail
  <2>5. CASE Cycle(r)
    BY <2>5, CycleEffect, FinishEffect DEF AllListed, Locked
  <2>6. QED
    BY <1>4, <2>1, <2>2, <2>3, <2>4, <2>5 DEF Next, Progress, OneAtATime
<1>5. QED
  BY <1>3, <1>4 DEF NoPurgeRace

\* The state a request has read is the one recorded.
LEMMA StepKnown ==
    ASSUME NoPurgeRace, TypeOK, MutexOK, CompleteInv, [Next]_vars
    PROVE  KnownIsRecorded'
<1> SUFFICES ASSUME NEW r \in Request, pc'[r] = "select"
             PROVE  job'[r].known = folderState'
  BY DEF KnownIsRecorded
<1>1. pc[r] = "select" => job[r].known = folderState
  BY DEF CompleteInv, KnownIsRecorded
<1>2. CASE Environment \/ UNCHANGED vars
  BY <1>1, <1>2, WorldEffect
<1>3. ~Crash
  BY DEF Crash
<1>4. ASSUME NEW s \in Request, s # r, Start(s) \/ Progress(s)
      PROVE  job'[r].known = folderState'
  <2>1. pc'[r] = pc[r] /\ job'[r] = job[r]
    BY <1>4, CycleEffect, WaitingEffect DEF Progress
  <2>2. pc[r] \in Locked
    BY <2>1 DEF Locked
  <2>3. QED
    BY <1>1, <1>4, <2>1, <2>2, OthersSpare
<1>5. ASSUME Start(r) \/ CleanupExpired(r) \/ Acquire(r) \/ Fail(r)
      PROVE  job'[r].known = folderState'
  <2>1. Acquire(r) /\ job'[r].known = folderState
    BY <1>5, WaitingEffect, FinishEffect
  <2>2. QED
    BY <2>1 DEF Acquire, tables
<1>6. ~Cycle(r)
  BY CycleEffect, FinishEffect
<1>7. QED
  BY <1>2, <1>3, <1>4, <1>5, <1>6 DEF Next, Progress

\* The UIDs that a cycle keeps are in the cache.
KeepIsCached(r) == \A u \in job[r].keep : \E x \in rows : x.uid = u

\* All it had to find is in the cache: once it is known to be whole, or has not
\* been disturbed.
EndIsComplete(r) ==
    /\ job[r].whole /\ UpToDate(job[r].seen.highestmodseq) =>
         Complete(job[r].policy)
    /\ r \in quiet => \A m \in mailbox :
         InScope(job[r], m.uid) /\ Approved(job[r].policy, m.kind) =>
            \E x \in rows : x.uid = m.uid

\* The parts of CycleComplete by their names.
LEMMA CompleteParts ==
    ASSUME NEW r \in Request
    PROVE  CycleComplete(r) <=>
             (pc[r] \in Rebuilding =>
                /\ KeepIsCached(r)
                /\ pc[r] \in {"verify", "commit"} => EndIsComplete(r)
                /\ pc[r] = "commit" /\ job[r].whole => SameAge)
BY DEF CycleComplete, KeepIsCached, EndIsComplete

\* No row goes, and none comes: what is said of the end of a cycle stays so.
LEMMA EndSame ==
    ASSUME UNCHANGED server, RowsStay, NEW r \in Request, job'[r] = job[r],
           r \in quiet' => r \in quiet, EndIsComplete(r)
    PROVE  EndIsComplete(r)'
<1>1. \A u : (\E x \in rows : x.uid = u) => \E x \in rows' : x.uid = u
  BY DEF RowsStay, SameRow
<1>2. mailbox' = mailbox
      /\ (UpToDate(job[r].seen.highestmodseq)' <=>
            UpToDate(job[r].seen.highestmodseq))
  BY ServerSame DEF UpToDate
<1>3. QED
  BY <1>1, <1>2 DEF EndIsComplete, Complete, InScope, Windowed

\* When nothing is left to prune, a cycle that is whole and up to date, or has
\* not been disturbed, has all it had to find.
LEMMA PrunedIsComplete ==
    ASSUME TypeOK, ContentInv, SyncInv, NEW r \in Request, pc[r] = "prune",
           KeepIsCached(r)
    PROVE  EndIsComplete(r)
<1> DEFINE j == job[r]
<1>1. /\ LocalsInUse(r) /\ CycleInv(r)
      /\ j.whole => ~Windowed(j)
      /\ r \in quiet => j.seen = ServerNow
  BY CountingKnows DEF Counting
<1>2. Accounted(j) = j.keep
  BY <1>1 DEF LocalsInUse, Accounted
<1>3. \A m \in mailbox : m.uid < uidnext /\ m.uid \in Nat /\ uidnext \in Nat
  BY DEF ContentInv, UidsFresh, TypeOK, Message, Uid
<1>4. ASSUME j.seen.uidvalidity = uidvalidity, j.seen.uidnext = uidnext,
             j.whole \/ r \in quiet,
             NEW m \in mailbox, InScope(j, m.uid), Approved(j.policy, m.kind)
      PROVE  \E x \in rows : x.uid = m.uid
  <2>1. InRange(j, m)
    BY <1>3, <1>4 DEF InRange
  <2>2. m.uid \in Accounted(j) \/ Dropped(r, m.uid)
    BY <1>1, <1>4, <2>1 DEF CycleInv, MessagesAccounted, Counting
  <2>3. ~Dropped(r, m.uid)
    BY <1>4 DEF Dropped
  <2>4. QED
    BY <1>2, <2>2, <2>3 DEF KeepIsCached
<1>5. ASSUME j.whole, UpToDate(j.seen.highestmodseq)
      PROVE  Complete(j.policy)
  <2>1. NumbersBehind(j.seen)
    BY <1>1 DEF CycleInv, SelectionRead, Selected, Locked
  <2>2. j.seen.uidvalidity = uidvalidity /\ j.seen.uidnext = uidnext
    BY <1>5, <2>1 DEF NumbersBehind
  <2>3. \A m \in mailbox : InScope(j, m.uid)
    BY <1>1, <1>3, <1>5, <2>2 DEF InScope
  <2>4. QED
    BY <1>4, <1>5, <2>2, <2>3 DEF Complete
<1>6. ASSUME r \in quiet
      PROVE  j.seen.uidvalidity = uidvalidity /\ j.seen.uidnext = uidnext
  BY <1>1, <1>6, ServerNowFields
<1>7. QED
  BY <1>4, <1>5, <1>6 DEF EndIsComplete

\* A cycle that takes the fast path has all it would have to find.
LEMMA FastPathIsComplete ==
    ASSUME TypeOK, CompleteInv, NEW r \in Request, SelectFolder(r),
           pc'[r] = "verify"
    PROVE  EndIsComplete(r)'
<1>1. /\ pc[r] = "select" /\ job'[r].policy = job[r].policy
      /\ UNCHANGED server /\ rows' = rows
  BY SelectEffect DEF SelectFolder, tables
<1>2. PICK s \in job[r].known : Unmodified(s, job[r].policy, ServerNow)
  BY SelectEffect
<1>3. s \in folderState /\ s.policy = job[r].policy
  BY <1>1, <1>2 DEF CompleteInv, KnownIsRecorded, Unmodified
<1>4. UpToDate(s.highestmodseq)
  BY <1>2, ServerNowFields DEF Unmodified, UpToDate
<1>5. Wanted(s.policy)
  BY <1>1, <1>3 DEF Wanted
<1>6. Complete(job[r].policy)
  BY <1>3, <1>4, <1>5 DEF CompleteInv, VouchesForAll
<1>7. QED
  BY <1>1, <1>6, ServerSame DEF EndIsComplete, Complete

\* A cycle under the mutex on its way to completeness.
LEMMA CycleCompletes ==
    ASSUME GenerationInv, ContentInv, SyncInv, SyncInv', CompleteInv,
           NEW r \in Request, Cycle(r), pc'[r] \in Rebuilding
    PROVE  CycleComplete(r)'
<1>0. TypeOK /\ MutexOK /\ RowsAsSelected
  BY DEF GenerationInv
<1>1. /\ pc[r] \in Locked /\ ~Finish(r) /\ UNCHANGED server
  BY <1>0, CycleEffect, FinishEffect DEF Rebuilding, Selected, Locked
<1>2. LocalsInUse(r) /\ CycleComplete(r)
  BY DEF SyncInv, CompleteInv
<1>3. pc[r] \in Rebuilding => KeepIsCached(r)
  BY <1>2, CompleteParts
<1>4. ASSUME pc'[r] = "commit", ~job'[r].whole, ~Windowed(job'[r])
      PROVE  EndIsComplete(r)'
  <2>1. r \notin quiet'
    BY <1>4 DEF SyncInv, QuietInv, Rebuilding, Selected, Locked, Windowed
  <2>2. QED
    BY <1>4, <2>1 DEF EndIsComplete
<1>5. ASSUME KeepIsCached(r)', pc'[r] \in {"verify", "commit"} => EndIsComplete(r)',
             pc'[r] = "commit" /\ job'[r].whole => SameAge'
      PROVE  CycleComplete(r)'
  BY <1>5 DEF CycleComplete, KeepIsCached, EndIsComplete
<1>6. ASSUME job'[r].keep = {}
      PROVE  KeepIsCached(r)'
  BY <1>6 DEF KeepIsCached
<1>7. CASE SelectFolder(r)
  <2>1. /\ pc[r] = "select" /\ job'[r].keep = job[r].keep
        /\ pc'[r] \in {"invalidate", "verify", "discover"}
    BY <1>0, <1>7, SelectEffect
  <2>2. job[r].keep = {}
    BY <1>2, <2>1 DEF LocalsInUse
  <2>3. QED
    BY <1>0, <1>5, <1>6, <1>7, <2>1, <2>2, FastPathIsComplete
<1>8. CASE DeleteByFolder(r)
  <2>1. /\ pc[r] = "invalidate" /\ pc'[r] = "discover"
        /\ job'[r].keep = job[r].keep
    BY <1>0, <1>8, InvalidateEffect
  <2>2. job[r].keep = {}
    BY <1>2, <2>1 DEF LocalsInUse
  <2>3. QED
    BY <1>5, <1>6, <2>1, <2>2
<1>9. CASE ListUIDs(r) \/ SearchAllowed(r)
  <2>1. /\ pc[r] = "discover" /\ job'[r].keep = job[r].keep
        /\ pc'[r] # "verify"
        /\ pc'[r] = "commit" => ~job'[r].whole /\ ~Windowed(job'[r])
    BY <1>0, <1>9, DiscoveryEffect
  <2>2. job[r].keep = {}
    BY <1>2, <2>1 DEF LocalsInUse
  <2>3. QED
    BY <1>4, <1>5, <1>6, <2>1, <2>2
<1>10. CASE UncachedUIDs(r) \/ PolicyAllowedUIDs(r) \/ FetchEnvelopes(r)
  <2>1. /\ pc[r] \in {"compare", "headers", "envelopes"} /\ rows' = rows
        /\ pc[r] # "compare" => job'[r].keep = job[r].keep
        /\ pc[r] = "compare" =>
             \A u \in job'[r].keep : \E x \in rows : x.uid = u
        /\ pc'[r] # "verify"
        /\ pc'[r] = "commit" => ~job'[r].whole /\ ~Windowed(job'[r])
    BY <1>0, <1>10, GateEffect DEF Unchanged_but_job, tables
  <2>2. KeepIsCached(r)'
    BY <1>3, <2>1 DEF KeepIsCached, Rebuilding, Selected, Locked
  <2>3. QED
    BY <1>4, <1>5, <2>1, <2>2
<1>11. CASE StoreMessage(r)
  <2>1. PICK e \in job[r].envelopes :
          /\ pc[r] = "store" /\ job'[r].keep = job[r].keep \cup {e.uid}
          /\ \A x \in rows : x.uid = e.uid \/ x \in rows'
          /\ Stored(r, e) \in rows'
          /\ pc'[r] # "verify"
          /\ pc'[r] = "commit" => ~job'[r].whole /\ ~Windowed(job'[r])
    BY <1>0, <1>11, StoreEffect
  <2>2. Stored(r, e).uid = e.uid
    BY DEF Stored
  <2>3. KeepIsCached(r)
    BY <1>3, <2>1 DEF Rebuilding, Selected, Locked
  <2>4. ASSUME NEW u \in job'[r].keep
        PROVE  \E x \in rows' : x.uid = u
    <3>1. CASE u = e.uid
      BY <2>1, <2>2, <3>1
    <3>2. CASE u # e.uid
      <4>1. PICK x \in rows : x.uid = u
        BY <2>1, <2>3, <3>2 DEF KeepIsCached
      <4>2. QED
        BY <2>1, <3>2, <4>1
    <3>3. QED
      BY <3>1, <3>2
  <2>5. KeepIsCached(r)'
    BY <2>4 DEF KeepIsCached
  <2>6. QED
    BY <1>4, <1>5, <2>1, <2>5
<1>12. CASE MarkUIDsVerified(r)
  <2>1. /\ pc[r] = "mark" /\ pc'[r] = "prune" /\ RowsStay
        /\ job'[r].keep = job[r].keep
    BY <1>0, <1>1, <1>12, MarkEffect
  <2>2. KeepIsCached(r)
    BY <1>3, <2>1 DEF Rebuilding, Selected, Locked
  <2>3. KeepIsCached(r)'
    BY <2>1, <2>2 DEF KeepIsCached, RowsStay, SameRow
  <2>4. QED
    BY <1>5, <2>1, <2>3
<1>13. CASE DeleteMissing(r)
  <2>1. PICK y \in Missing(r) : rows' = rows \ {y}
    BY <1>13 DEF DeleteMissing
  <2>2. pc[r] = "prune" /\ pc'[r] = pc[r] /\ job'[r] = job[r]
    BY <1>13 DEF DeleteMissing, daemon
  <2>3. KeepIsCached(r) /\ y.uid \notin job[r].keep
    BY <1>3, <2>2 DEF Rebuilding, Selected, Locked, Missing
  <2>4. ASSUME NEW u \in job[r].keep
        PROVE  \E x \in rows' : x.uid = u
    <3>1. PICK x \in rows : x.uid = u
      BY <2>3 DEF KeepIsCached
    <3>2. QED
      BY <2>1, <2>3, <3>1
  <2>5. QED
    BY <1>5, <2>2, <2>4 DEF KeepIsCached
<1>14. CASE NoneMissing(r)
  <2>1. /\ pc[r] = "prune" /\ job'[r] = job[r] /\ rows' = rows /\ quiet' = quiet
        /\ pc'[r] = IF job[r].whole THEN "verify" ELSE "commit"
    BY <1>0, <1>14, GoSets DEF NoneMissing, Unchanged_but_job, tables
  <2>2. KeepIsCached(r)
    BY <1>3, <2>1 DEF Rebuilding, Selected, Locked
  <2>3. EndIsComplete(r)
    BY <1>0, <2>1, <2>2, PrunedIsComplete
  <2>4. RowsStay
    BY <2>1 DEF RowsStay, SameRow
  <2>5. EndIsComplete(r)'
    BY <1>1, <2>1, <2>3, <2>4, EndSame
  <2>6. KeepIsCached(r)'
    BY <2>1, <2>2 DEF KeepIsCached
  <2>7. QED
    BY <1>5, <2>1, <2>5, <2>6
<1>15. CASE MarkFolderVerified(r)
  <2>1. /\ pc[r] = "verify" /\ job'[r] = job[r] /\ RowsStay /\ SameAge'
        /\ quiet' = quiet
    BY <1>0, <1>15, FolderVerifiedEffect
  <2>2. KeepIsCached(r) /\ EndIsComplete(r)
    BY <1>2, <2>1, CompleteParts DEF Rebuilding, Selected, Locked
  <2>3. EndIsComplete(r)'
    BY <1>1, <2>1, <2>2, EndSame
  <2>4. KeepIsCached(r)'
    BY <2>1, <2>2 DEF KeepIsCached, RowsStay, SameRow
  <2>5. QED
    BY <1>5, <2>1, <2>3, <2>4
<1>16. CASE UpsertFolderState(r)
  BY <1>0, <1>1, <1>16, CommitEffect
<1>17. QED
  BY <1>7, <1>8, <1>9, <1>10, <1>11, <1>12, <1>13, <1>14, <1>15, <1>16 DEF Cycle

\* The same, whoever takes the step.
LEMMA StepCompletes ==
    ASSUME NoPurgeRace, GenerationInv, ContentInv, SyncInv, SyncInv',
           CompleteInv, [Next]_vars, NEW r \in Request
    PROVE  CycleComplete(r)'
<1>0. TypeOK /\ MutexOK
  BY DEF GenerationInv
<1> SUFFICES ASSUME pc'[r] \in Rebuilding
             PROVE  CycleComplete(r)'
  BY DEF CycleComplete
<1>1. pc'[r] \in Locked /\ pc'[r] \notin {"idle", "expire", "lock", "select"}
  BY DEF Rebuilding, Selected, Locked
<1>2. CycleComplete(r)
  BY DEF CompleteInv
<1>3. ASSUME UNCHANGED server, rows' = rows, pc'[r] = pc[r], job'[r] = job[r],
             r \in quiet' => r \in quiet
      PROVE  CycleComplete(r)'
  <2>1. RowsStay
    BY <1>3 DEF RowsStay, SameRow
  <2>2. KeepIsCached(r)'
    BY <1>2, <1>3, CompleteParts DEF KeepIsCached
  <2>3. pc[r] \in {"verify", "commit"} => EndIsComplete(r)'
    BY <1>2, <1>3, <2>1, CompleteParts, EndSame
  <2>4. pc[r] = "commit" /\ job[r].whole => SameAge'
    BY <1>2, <1>3, CompleteParts DEF SameAge
  <2>5. QED
    BY <1>3, <2>2, <2>3, <2>4 DEF CycleComplete, KeepIsCached, EndIsComplete
<1>4. CASE ServerMoves
  <2>1. /\ rows' = rows /\ pc'[r] = pc[r] /\ job'[r] = job[r] /\ quiet' = {}
    BY <1>4 DEF ServerMoves
  <2>2. ~UpToDate(job[r].seen.highestmodseq)'
    <3>1. CycleInv(r) /\ pc[r] \in Selected
      BY <1>1, <2>1 DEF SyncInv, Selected
    <3>2. PICK s : s = job[r].seen
      OBVIOUS
    <3>3. NumbersBehind(s) /\ s.highestmodseq \in Nat
      BY <1>0, <3>1, <3>2, StateNumbers DEF CycleInv, SelectionRead
    <3>4. ~UpToDate(s.highestmodseq)'
      BY <1>0, <1>4, <3>3, Outdated
    <3>5. QED
      BY <2>1, <3>2, <3>4
  <2>3. EndIsComplete(r)'
    BY <2>1, <2>2 DEF EndIsComplete
  <2>4. KeepIsCached(r)'
    BY <1>2, <2>1, CompleteParts DEF KeepIsCached
  <2>5. pc[r] = "commit" /\ job[r].whole => SameAge'
    BY <1>2, <2>1, CompleteParts DEF SameAge
  <2>6. QED
    BY <2>1, <2>3, <2>4, <2>5 DEF CycleComplete, KeepIsCached, EndIsComplete
<1>5. CASE OnlyWaits
  BY <1>3, <1>5 DEF OnlyWaits
<1>6. CASE UNCHANGED vars
  BY <1>3, <1>6 DEF vars, daemon, tables
<1>7. ~Crash
  BY <1>1 DEF Crash
<1>8. ASSUME NEW s \in Request, s # r, Start(s) \/ Progress(s)
      PROVE  CycleComplete(r)'
  <2>1. pc'[r] = pc[r]
    BY <1>0, <1>8, CycleEffect, WaitingEffect DEF Progress
  <2>2. QED
    BY <1>0, <1>1, <1>3, <1>8, <2>1, OthersSpare
<1>9. ASSUME Start(r) \/ CleanupExpired(r) \/ Acquire(r) \/ Fail(r)
      PROVE  FALSE
  BY <1>0, <1>1, <1>9, WaitingEffect, FinishEffect
<1>10. CASE Cycle(r)
  BY <1>10, CycleCompletes
<1>11. QED
  BY <1>0, <1>4, <1>5, <1>6, <1>7, <1>8, <1>9, <1>10, EnvironmentEffect
     DEF Next, Progress

\* A cycle that is not at its end leaves no state up to date and wanted.
LEMMA CycleVouches ==
    ASSUME PolicyRule, GenerationInv, SyncInv, PolicyInv, CompleteInv,
           [Next]_vars, NEW r \in Request, Cycle(r),
           NEW s \in folderState', UpToDate(s.highestmodseq)', Wanted(s.policy)'
    PROVE  /\ Complete(s.policy)' /\ SameAge'
           /\ \A t \in Request : pc'[t] \in Selected => pc'[t] \in {"verify", "commit"}
<1>0. TypeOK /\ MutexOK /\ RowsAsSelected
  BY DEF GenerationInv
<1>1. /\ pc[r] \in Locked /\ UNCHANGED server
      /\ pc[r] # "commit" => folderState' = folderState
      /\ \A t \in Request \ {r} : pc'[t] = pc[t] /\ job'[t] = job[t]
  BY <1>0, CycleEffect
<1>2. \A t \in Request \ {r} : pc'[t] \notin Selected
  BY <1>0, <1>1, OthersOutside DEF Selected
<1>3. UpToDate(s.highestmodseq)
  BY <1>1, ServerSame DEF UpToDate
<1>4. ASSUME s \in folderState
      PROVE  Wanted(s.policy)
  BY <1>0, <1>4, WantedBefore
<1>5. CASE pc[r] = "select"
  <2>1. SelectFolder(r) /\ rows' = rows /\ s \in folderState
    BY <1>1, <1>5
       DEF Cycle, SelectFolder, DeleteByFolder, ListUIDs, SearchAllowed,
           UncachedUIDs, PolicyAllowedUIDs, FetchEnvelopes, StoreMessage,
           MarkUIDsVerified, DeleteMissing, NoneMissing, MarkFolderVerified,
           UpsertFolderState, tables
  <2>2. s \in job[r].known
    BY <1>5, <2>1 DEF CompleteInv, KnownIsRecorded
  <2>3. s.policy = job[r].policy
    BY <1>4, <1>5, <2>1, WantedIsLoaded
  <2>4. Unmodified(s, job[r].policy, ServerNow)
    <3>1. NumbersBehind(s)
      BY <2>1 DEF SyncInv, TablesInv
    <3>2. s.uidvalidity = uidvalidity /\ s.uidnext = uidnext
      BY <1>3, <3>1 DEF NumbersBehind
    <3>3. QED
      BY <1>3, <2>3, <3>2, ServerNowFields DEF Unmodified, UpToDate
  <2>5. \A t \in job[r].known : t = s
    BY <1>1, <2>2 DEF SyncInv, CycleInv, StateRead
  <2>6. pc'[r] = "verify"
    <3>1. s.uidvalidity = uidvalidity
      BY <2>4, ServerNowFields DEF Unmodified
    <3>2. QED
      BY <1>0, <2>1, <2>2, <2>4, <2>5, <3>1, SelectEffect
  <2>7. Complete(s.policy) /\ SameAge
    BY <1>3, <1>4, <2>1 DEF CompleteInv, VouchesForAll
  <2>8. QED
    BY <1>1, <1>2, <2>1, <2>6, <2>7, ServerSame DEF Complete, SameAge
<1>6. CASE pc[r] \notin {"select", "verify", "commit"}
  <2>1. pc[r] \in Selected /\ s \in folderState
    BY <1>1, <1>6 DEF Selected
  <2>2. QED
    BY <1>3, <1>4, <1>6, <2>1 DEF CompleteInv, VouchesForAll
<1>7. CASE pc[r] = "verify"
  <2>1. MarkFolderVerified(r) /\ s \in folderState
    BY <1>1, <1>7
       DEF Cycle, SelectFolder, DeleteByFolder, ListUIDs, SearchAllowed,
           UncachedUIDs, PolicyAllowedUIDs, FetchEnvelopes, StoreMessage,
           MarkUIDsVerified, DeleteMissing, NoneMissing, MarkFolderVerified,
           UpsertFolderState
  <2>2. pc'[r] = "commit" /\ RowsStay /\ SameAge'
    BY <1>0, <2>1, FolderVerifiedEffect
  <2>3. Complete(s.policy)
    BY <1>3, <1>4, <2>1 DEF CompleteInv, VouchesForAll
  <2>4. Complete(s.policy)'
    BY <1>1, <2>2, <2>3, ServerSame DEF Complete, RowsStay, SameRow
  <2>5. QED
    BY <1>2, <2>2, <2>4
<1>8. CASE pc[r] = "commit"
  <2>1. UpsertFolderState(r)
    BY <1>8
       DEF Cycle, SelectFolder, DeleteByFolder, ListUIDs, SearchAllowed,
           UncachedUIDs, PolicyAllowedUIDs, FetchEnvelopes, StoreMessage,
           MarkUIDsVerified, DeleteMissing, NoneMissing, MarkFolderVerified,
           UpsertFolderState
  <2>2. s = NewState(r) /\ rows' = rows /\ pc'[r] = "idle"
    BY <1>0, <2>1, CommitEffect, FinishEffect
  <2>3. /\ s.policy = job[r].policy
        /\ \/ s.highestmodseq = 0
           \/ job[r].whole /\ s.highestmodseq = job[r].seen.highestmodseq
    BY <2>2 DEF NewState
  <2>4. job[r].whole /\ UpToDate(job[r].seen.highestmodseq)
    BY <1>3, <2>3 DEF UpToDate
  <2>5. Complete(job[r].policy) /\ SameAge
    BY <1>8, <2>4
       DEF CompleteInv, CycleComplete, Rebuilding, Selected, Locked
  <2>6. QED
    BY <1>1, <1>2, <2>2, <2>3, <2>5, ServerSame
       DEF Complete, SameAge, Selected, Locked
<1>9. QED
  BY <1>5, <1>6, <1>7, <1>8

\* States recorded vouch for all messages, whoever takes the step.
LEMMA StepVouches ==
    ASSUME PolicyRule, NoPurgeRace, GenerationInv, SyncInv, PolicyInv,
           CompleteInv, [Next]_vars, NEW s \in folderState'
    PROVE  VouchesForAll(s)'
<1>0. TypeOK /\ MutexOK
  BY DEF GenerationInv
<1> SUFFICES ASSUME UpToDate(s.highestmodseq)', Wanted(s.policy)'
             PROVE  /\ Complete(s.policy)' /\ SameAge'
                    /\ \A r \in Request : pc'[r] \in Selected =>
                         pc'[r] \in {"verify", "commit"}
  BY DEF VouchesForAll
<1>1. ASSUME s \in folderState, UNCHANGED server
      PROVE  /\ Complete(s.policy) /\ SameAge
             /\ \A r \in Request : pc[r] \in Selected =>
                  pc[r] \in {"verify", "commit"}
  <2>1. UpToDate(s.highestmodseq)
    BY <1>1, ServerSame DEF UpToDate
  <2>2. Wanted(s.policy)
    BY <1>0, <1>1, WantedBefore
  <2>3. QED
    BY <1>1, <2>1, <2>2 DEF CompleteInv, VouchesForAll
<1>2. ASSUME s \in folderState, UNCHANGED server, rows' = rows,
             \A r \in Request : pc'[r] = pc[r] \/ pc'[r] \notin Selected
      PROVE  /\ Complete(s.policy)' /\ SameAge'
             /\ \A r \in Request : pc'[r] \in Selected =>
                  pc'[r] \in {"verify", "commit"}
  BY <1>1, <1>2, ServerSame DEF Complete, SameAge
<1>3. CASE ServerMoves
  <2>1. s \in folderState
    BY <1>3 DEF ServerMoves
  <2>2. NumbersBehind(s) /\ s.highestmodseq \in Nat
    BY <1>0, <2>1, StateNumbers DEF SyncInv, TablesInv
  <2>3. QED
    BY <1>0, <1>3, <2>2, Outdated
<1>4. CASE OnlyWaits
  BY <1>2, <1>4 DEF OnlyWaits
<1>5. CASE UNCHANGED vars
  BY <1>2, <1>5 DEF vars, daemon, tables
<1>6. CASE Crash
  BY <1>2, <1>6 DEF Crash, tables, Selected, Locked
<1>7. ASSUME NEW r \in Request, Start(r) \/ Acquire(r) \/ Fail(r)
      PROVE  /\ Complete(s.policy)' /\ SameAge'
             /\ \A t \in Request : pc'[t] \in Selected =>
                  pc'[t] \in {"verify", "commit"}
  <2>1. rows' = rows /\ folderState' = folderState
    BY <1>7 DEF Start, Acquire, Fail, tables
  <2>2. /\ UNCHANGED server /\ pc'[r] \notin Selected
        /\ \A t \in Request \ {r} : pc'[t] = pc[t]
    BY <1>0, <1>7, WaitingEffect, FinishEffect DEF Selected, Locked
  <2>3. QED
    BY <1>2, <2>1, <2>2
<1>8. ASSUME NEW r \in Request, CleanupExpired(r)
      PROVE  /\ Complete(s.policy)' /\ SameAge'
             /\ \A t \in Request : pc'[t] \in Selected =>
                  pc'[t] \in {"verify", "commit"}
  <2>1. /\ UNCHANGED server /\ folderState' \subseteq folderState
        /\ pc'[r] = "lock" /\ \A t \in Request \ {r} : pc'[t] = pc[t]
    BY <1>0, <1>8, WaitingEffect, CleanupEffect
  <2>2. SameAge
    BY <1>1, <2>1
  <2>3. rows' = rows
    BY <1>0, <1>8, <2>2, PurgeEffect DEF CompleteInv
  <2>4. QED
    BY <1>2, <2>1, <2>3 DEF Selected, Locked
<1>9. ASSUME NEW r \in Request, Cycle(r)
      PROVE  /\ Complete(s.policy)' /\ SameAge'
             /\ \A t \in Request : pc'[t] \in Selected =>
                  pc'[t] \in {"verify", "commit"}
  BY <1>9, CycleVouches
<1>10. QED
  BY <1>0, <1>3, <1>4, <1>5, <1>6, <1>7, <1>8, <1>9, EnvironmentEffect
     DEF Next, Progress

\* Without a race between a purge and a cycle, and between edits of the policy
\* and a cycle, a state up to date vouches for every approved message.
LEMMA CompleteInvariant ==
    ASSUME PolicyRule, NoPurgeRace
    PROVE  Spec => []CompleteInv
<1>1. Init => CompleteInv
  BY DEF Init, CompleteInv, KnownIsRecorded, CycleComplete, AllListed,
         Rebuilding, Selected, Locked
<1>2. GenerationInv /\ ContentInv /\ SyncInv /\ SyncInv' /\ PolicyInv
        /\ CompleteInv /\ [Next]_vars => CompleteInv'
  <2> SUFFICES ASSUME GenerationInv, ContentInv, SyncInv, SyncInv', PolicyInv,
                      CompleteInv, [Next]_vars
               PROVE  CompleteInv'
    OBVIOUS
  <2>1. \A s \in folderState' : VouchesForAll(s)'
    BY StepVouches
  <2>2. KnownIsRecorded' /\ \A r \in Request : CycleComplete(r)' /\ AllListed(r)'
    BY StepKnown, StepCompletes, StepListed DEF GenerationInv
  <2>3. QED
    BY <2>1, <2>2 DEF CompleteInv
<1>3. QED
  BY <1>1, <1>2, GenerationsInvariant, ContentInvariant, SyncInvariant,
     PolicyInvariant, PTL DEF Spec

\* Between cycles, a state that would let the next cycle take the fast path
\* (refresh.go, refreshFolder) is true: the rows are exactly the approved
\* messages of the server.  It takes that no purge runs beside a cycle, and that
\* edits of the policy do not overtake one.
THEOREM FastPathIsTrue ==
    ASSUME PolicyRule, NoPurgeRace
    PROVE  Spec => []FastPathSound
<1>1. GenerationInv /\ ContentInv /\ SyncInv /\ PolicyInv /\ CompleteInv
        => FastPathSound
  <2> SUFFICES ASSUME GenerationInv, ContentInv, SyncInv, PolicyInv, CompleteInv,
                      NEW s \in folderState, Unmodified(s, policy, ServerNow)
               PROVE  NothingMissing(policy) /\ NothingStale(policy)
    BY DEF FastPathSound
  <2>0. TypeOK
    BY DEF GenerationInv
  <2>1. s.policy = policy /\ UpToDate(s.highestmodseq)
    BY ServerNowFields DEF Unmodified, UpToDate
  <2>2. \A x \in rows : Live(x)
    BY <2>1 DEF SyncInv, TablesInv, Vouches
  <2>3. Complete(policy)
    BY <2>1 DEF CompleteInv, VouchesForAll, Wanted
  <2>4. Gathered(policy)
    BY <2>1 DEF PolicyInv, RowsApproved
  <2>5. NothingStale(policy)
    BY <2>0, <2>2, <2>4, LiveAndApproved DEF NothingStale
  <2>6. ASSUME NEW m \in mailbox, Approved(policy, m.kind)
        PROVE  \E x \in rows : Caches(x, m)
    <3>1. PICK x \in rows : x.uid = m.uid
      BY <2>3, <2>6 DEF Complete
    <3>2. PICK n \in mailbox : Caches(x, n)
      BY <2>5 DEF NothingStale
    <3>3. n = m
      BY <3>1, <3>2 DEF Caches, ContentInv, UidsFresh
    <3>4. QED
      BY <3>2, <3>3
  <2>7. QED
    BY <2>5, <2>6 DEF NothingMissing
<1>2. QED
  BY <1>1, CompleteInvariant, PolicyInvariant, GenerationsInvariant,
     ContentInvariant, SyncInvariant, PTL

\* A cycle that nothing has disturbed ends (refresh.go, refreshFolder) with the
\* rows of its range equal to the approved messages of its range, whatever state
\* earlier cycles, crashes and failures left behind, as long as no purge runs
\* beside it and edits of the policy do not overtake it.
THEOREM QuietCyclesConverge ==
    ASSUME PolicyRule, NoPurgeRace
    PROVE  Spec => []QuietCycleConverges
<1>1. GenerationInv /\ SyncInv /\ PolicyInv /\ CompleteInv
        => QuietCycleConverges
  <2> SUFFICES ASSUME GenerationInv, SyncInv, PolicyInv, CompleteInv,
                      NEW r \in quiet, pc[r] = "commit"
               PROVE  LET j == job[r]
                      IN /\ \A m \in mailbox :
                              InScope(j, m.uid) /\ Approved(j.policy, m.kind)
                                => \E x \in rows : CachesOld(x, m)
                         /\ \A x \in rows : InScope(j, x.uid) =>
                              \E m \in mailbox : /\ CachesOld(x, m)
                                                 /\ Approved(j.policy, m.kind)
    BY DEF QuietCycleConverges
  <2>0. /\ rows \subseteq Row /\ mailbox \subseteq Message /\ r \in Request
        /\ pc[r] \in Rebuilding
    BY DEF GenerationInv, TypeOK, Rebuilding, Selected, Locked
  <2>1. \A x \in rows : x.uidvalidity = uidvalidity
    BY <2>0, QuietKnows DEF GenerationInv, RowsAsSelected
  <2>2. ASSUME NEW x \in rows, NEW m \in mailbox, x.uid = m.uid
        PROVE  OfMessage(x, m) /\ CachesOld(x, m)
    BY <2>0, <2>1, <2>2, CachesOldIs DEF SyncInv, TablesInv, RowsDescribe
  <2>3. ASSUME NEW m \in mailbox, InScope(job[r], m.uid),
               Approved(job[r].policy, m.kind)
        PROVE  \E x \in rows : CachesOld(x, m)
    <3>1. PICK x \in rows : x.uid = m.uid
      BY <2>0, <2>3 DEF CompleteInv, CycleComplete
    <3>2. QED
      BY <2>2, <3>1
  <2>4. ASSUME NEW x \in rows, InScope(job[r], x.uid)
        PROVE  \E m \in mailbox : CachesOld(x, m) /\ Approved(job[r].policy, m.kind)
    <3>1. PICK m \in mailbox : m.uid = x.uid
      BY <2>4 DEF SyncInv, QuietInv
    <3>2. Gathered(job[r].policy)
      BY <2>0 DEF PolicyInv, RowsApproved, GatheredBy
    <3>3. QED
      BY <2>2, <3>1, <3>2 DEF OfMessage, Gathered
  <2>5. QED
    BY <2>3, <2>4
<1>2. QED
  BY <1>1, CompleteInvariant, PolicyInvariant, GenerationsInvariant,
     SyncInvariant, PTL

=============================================================================
