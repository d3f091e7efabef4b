--------------------------- MODULE FolderRefresh ---------------------------
(***************************************************************************)
(* The on-demand refresh of one configured folder of one account           *)
(* (internal/refresh/refresh.go), the SQLite cache it writes               *)
(* (internal/cache/cache.go) and the daemon requests that run it           *)
(* (internal/daemon/daemon.go, refreshAndLoad).                            *)
(*                                                                         *)
(* Each request is a goroutine of the daemon: it loads the configuration,  *)
(* purges expired rows, waits for the folder's mutex, and runs one refresh *)
(* cycle under it.  The mailbox lives on a server that other clients       *)
(* change at any time: between two remote calls of a cycle anything may    *)
(* have happened to it.  The tables of the cache survive a crash of the    *)
(* daemon; the requests and the mutex do not.                              *)
(***************************************************************************)
EXTENDS Integers, FiniteSets

CONSTANTS
    Request,        \* the requests that may be in flight together
    Kind,           \* classes of message headers the policies tell apart
    Query,          \* the UID SEARCHes of a policy: one per header and domain
    HitBy,          \* HitBy[q]: the kinds the server returns for q (substrings)
    MatchBy,        \* MatchBy[q]: the kinds with an exact match for q
    Policy,         \* the account policies the configuration may hold
    PolicyChange,   \* pairs of policies: the edits of the configuration
    Cap,            \* the values of MaxCandidates the requests ask for
    CondStore,      \* does the server report HIGHESTMODSEQ?
    TTL,            \* the retention time of a row, 0 for no purge
    TicksPerSecond, \* the clock's steps, at most ten: one decimal of a second
    Patience,       \* the time a request may take, far below a real TTL
    MaxUid,         \* bound on the UIDs of one generation of the mailbox
    MaxModSeq,      \* bound on the changes of the mailbox
    MaxValidity,    \* bound on UIDVALIDITY
    MaxTime         \* bound on the clock

ASSUME PolicyAssumption ==
    /\ Policy # {}
    /\ \A p \in Policy : /\ p.full \in BOOLEAN
                         /\ p.queries \subseteq Query
                         /\ p.full \/ p.queries # {}
    /\ PolicyChange \subseteq Policy \X Policy

\* An IMAP HEADER search matches substrings: it misses no exact match.
ASSUME SearchAssumption ==
    \A q \in Query : MatchBy[q] \subseteq HitBy[q] /\ HitBy[q] \subseteq Kind

ASSUME NumberAssumption ==
    /\ CondStore \in BOOLEAN
    /\ Cap \subseteq Nat
    /\ TTL \in Nat
    /\ TicksPerSecond \in 1..10
    /\ Patience \in Nat
    /\ MaxUid \in Nat
    /\ MaxModSeq \in Nat
    /\ MaxValidity \in Nat
    /\ MaxTime \in Nat

VARIABLES
    uidvalidity, uidnext, modseq, mailbox,  \* the folder on the server
    rows, folderState,                      \* tables messages, folder_state
    policy,                                 \* the account policy on disk
    clock,                                  \* the daemon's clock
    lock,                                   \* holders of the folder's mutex
    pc, job,                                \* the goroutines: where, and locals
    quiet                                   \* history: see Disturbed

server  == <<uidvalidity, uidnext, modseq, mailbox>>
tables  == <<rows, folderState>>
daemon  == <<lock, pc, job>>
vars    == <<server, tables, policy, clock, daemon, quiet>>

-----------------------------------------------------------------------------
(* Data *)

Uid == Nat \ {0}

\* A message on the server; modseq is bumped by every change of its flags.
Message == [uid: Uid, kind: Kind, modseq: Nat]

\* What FetchEnvelopes returns, and the generation of the mailbox it is from.
Envelope == [uid: Uid, kind: Kind, modseq: Nat, from: Nat]

\* A row of messages.  uidvalidity and uid make up its public_id; body is the
\* generation the preview was fetched from, 0 for an empty preview; verified
\* is last_loaded_or_verified_at.
Row == [uidvalidity: Nat, uid: Uid, envelope: Envelope, body: Nat,
        verified: Nat]

PublicId(x) == <<x.uidvalidity, x.uid>>

\* A row of folder_state.  The policy stands for its fingerprint.
FolderState == [uidvalidity: Nat, uidnext: Nat, highestmodseq: Nat,
                policy: Policy, refreshed: Nat]

\* What SelectFolder returns.
Selection == [uidvalidity: Nat, uidnext: Nat, highestmodseq: Nat]

\* Mutant: -1 stands for a mailbox without mod-sequences.
HighestModSeq_Sentinel == IF CondStore /\ modseq > 1 THEN modseq ELSE -1

HighestModSeq == IF CondStore THEN modseq ELSE 0

\* The locals of one request.
Job == [policy: Policy, cap: Nat, now: Nat,
        expired: SUBSET (Nat \X Uid), \* the rows CleanupExpired listed
        known: SUBSET FolderState,   \* the folder state read, {} for nil
        seen: Selection,             \* the remote state selected
        queries: SUBSET Query,       \* searches still to send
        candidates: SUBSET Uid, whole: BOOLEAN,  \* candidateDiscovery
        fetch: SUBSET Uid,           \* fetchUIDs, then allowedUIDs
        keep: SUBSET Uid, observed: SUBSET Uid,
        envelopes: SUBSET Envelope]

NoJob == [policy |-> CHOOSE p \in Policy : TRUE, cap |-> 0, now |-> 0,
          expired |-> {}, known |-> {},
          seen |-> [uidvalidity |-> 0, uidnext |-> 0, highestmodseq |-> 0],
          queries |-> {}, candidates |-> {}, whole |-> FALSE, fetch |-> {},
          keep |-> {}, observed |-> {}, envelopes |-> {}]

\* Phases of a request before the folder's mutex, and under it.
Unlocked == {"idle", "expire", "lock"}
Locked   == {"select", "invalidate", "discover", "compare", "headers",
             "envelopes", "store", "mark", "prune", "verify", "commit"}

\* policy.DomainMatch, or every message under the full policy.
Approved(p, k) == p.full \/ \E q \in p.queries : k \in MatchBy[q]

-----------------------------------------------------------------------------
(* The rest of the world: the server, the owner, time *)

\* quiet is a history variable no code keeps: the requests whose SelectFolder
\* still describes the server, and whose rows nobody else has removed.
Disturbed == quiet' = {}

Unchanged_but_server == UNCHANGED <<tables, policy, clock, daemon>>

\* A message arrives.
Deliver(k) ==
    /\ uidnext <= MaxUid
    /\ modseq < MaxModSeq
    /\ mailbox' = mailbox \cup
                    {[uid |-> uidnext, kind |-> k, modseq |-> modseq + 1]}
    /\ uidnext' = uidnext + 1
    /\ modseq' = modseq + 1
    /\ UNCHANGED uidvalidity
    /\ Disturbed
    /\ Unchanged_but_server

\* Another client expunges a message, or moves it out of the folder.
Expunge(m) ==
    /\ modseq < MaxModSeq
    /\ mailbox' = mailbox \ {m}
    /\ modseq' = modseq + 1
    /\ UNCHANGED <<uidvalidity, uidnext>>
    /\ Disturbed
    /\ Unchanged_but_server

\* Another client changes the flags of a message.
ChangeFlags(m) ==
    /\ modseq < MaxModSeq
    /\ mailbox' = (mailbox \ {m}) \cup {[m EXCEPT !.modseq = modseq + 1]}
    /\ modseq' = modseq + 1
    /\ UNCHANGED <<uidvalidity, uidnext>>
    /\ Disturbed
    /\ Unchanged_but_server

\* The server renumbers the folder: UIDs mean nothing any more.
Renumber ==
    /\ uidvalidity < MaxValidity
    /\ modseq < MaxModSeq
    /\ uidvalidity' = uidvalidity + 1
    /\ uidnext' = 1
    /\ mailbox' = {}
    /\ modseq' = modseq + 1
    /\ Disturbed
    /\ Unchanged_but_server

\* The owner edits the policy of the account.
EditPolicy ==
    /\ \E p \in Policy : <<policy, p>> \in PolicyChange /\ policy' = p
    /\ UNCHANGED <<server, tables, clock, daemon, quiet>>

\* Time passes, but no request outlives its patience.
Tick ==
    /\ clock < MaxTime
    /\ \A r \in Request : pc[r] = "idle" \/ clock - job[r].now < Patience
    /\ clock' = clock + 1
    /\ UNCHANGED <<server, tables, policy, daemon, quiet>>

\* The daemon dies and is started again: only the tables are left.
Crash ==
    /\ \E r \in Request : pc[r] # "idle"
    /\ pc' = [r \in Request |-> "idle"]
    /\ job' = [r \in Request |-> NoJob]
    /\ lock' = {}
    /\ quiet' = {}
    /\ UNCHANGED <<server, tables, policy, clock>>

-----------------------------------------------------------------------------
(* A request before the mutex *)

Go(r, j, phase) ==
    /\ job' = [job EXCEPT ![r] = j]
    /\ pc' = [pc EXCEPT ![r] = phase]

\* The deferred unlock, and the return to the handler.
Finish(r) ==
    /\ Go(r, NoJob, "idle")
    /\ lock' = lock \ {r}
    /\ quiet' = quiet \ {r}

\* Instants are compared as RFC3339Nano text, which drops trailing zeros: "5Z"
\* comes after "5.9Z", since "." comes before "Z".
Fraction(t) == IF t % TicksPerSecond = 0 THEN TicksPerSecond
                                         ELSE t % TicksPerSecond

TextBefore(s, t) ==
    \/ s \div TicksPerSecond < t \div TicksPerSecond
    \/ /\ s \div TicksPerSecond = t \div TicksPerSecond
       /\ Fraction(s) < Fraction(t)

\* The rows past their retention time at t.
Expired(t) == {x \in rows : TTL > 0 /\ TextBefore(x.verified, t - TTL)}

\* A handler loads the configuration and lists the expired rows; with none it
\* calls Refresh, which reads the clock before it waits for the mutex.
Start(r) ==
    /\ pc[r] = "idle"
    /\ \E c \in Cap :
         LET j == [NoJob EXCEPT !.policy = policy, !.cap = c, !.now = clock,
                     !.expired = {PublicId(x) : x \in Expired(clock)}]
         IN Go(r, j, IF j.expired = {} THEN "lock" ELSE "expire")
    /\ UNCHANGED <<server, tables, policy, clock, lock, quiet>>

\* Mutant: the transaction deletes the listed rows without checking them again.
CleanupExpired_NoRecheck(r) ==
    /\ pc[r] = "expire"
    /\ LET purged == {x \in rows : PublicId(x) \in job[r].expired}
       IN /\ rows' = rows \ purged
          /\ folderState' = IF purged # {} /\ rows' = {} THEN {}
                                                        ELSE folderState
          /\ quiet' = IF purged # {} THEN {} ELSE quiet
    /\ Go(r, [job[r] EXCEPT !.now = clock, !.expired = {}], "lock")
    /\ UNCHANGED <<server, policy, clock, lock>>

\* Mutant: the state of an emptied folder stays.
CleanupExpired_KeepsState(r) ==
    /\ pc[r] = "expire"
    /\ LET purged == {x \in Expired(job[r].now) :
                        PublicId(x) \in job[r].expired}
       IN /\ rows' = rows \ purged
          /\ quiet' = IF purged # {} THEN {} ELSE quiet
    /\ Go(r, [job[r] EXCEPT !.now = clock, !.expired = {}], "lock")
    /\ UNCHANGED <<server, folderState, policy, clock, lock>>

\* CleanupExpired's transaction: delete what it listed and is still expired,
\* and the state of a folder it emptied.  It takes writeMu, not the mutex of
\* the folder.
CleanupExpired(r) ==
    /\ pc[r] = "expire"
    /\ LET purged == {x \in Expired(job[r].now) :
                        PublicId(x) \in job[r].expired}
       IN /\ rows' = rows \ purged
          /\ folderState' = IF purged # {} /\ rows' = {} THEN {}
                                                        ELSE folderState
          /\ quiet' = IF purged # {} THEN {} ELSE quiet
    /\ Go(r, [job[r] EXCEPT !.now = clock, !.expired = {}], "lock")
    /\ UNCHANGED <<server, policy, clock, lock>>

\* Mutant: nobody waits for the mutex.
Acquire_NoWait(r) ==
    /\ pc[r] = "lock"
    /\ lock' = lock \cup {r}
    /\ Go(r, [job[r] EXCEPT !.known = folderState], "select")
    /\ UNCHANGED <<server, tables, policy, clock, quiet>>

\* lockRefreshFolder, and the FolderState read first thing under it.
Acquire(r) ==
    /\ pc[r] = "lock"
    /\ lock = {}
    /\ lock' = {r}
    /\ Go(r, [job[r] EXCEPT !.known = folderState], "select")
    /\ UNCHANGED <<server, tables, policy, clock, quiet>>

-----------------------------------------------------------------------------
(* One cycle under the mutex: refreshFolder *)

Unchanged_but_job == UNCHANGED <<server, tables, policy, clock, lock, quiet>>

\* Mutant: the rows are trusted whatever policy they were gathered under.
CachedRowsAreCurrent_AnyPolicy(j) ==
    \E s \in j.known : \/ j.seen.highestmodseq = 0
                       \/ /\ s.highestmodseq # 0
                          /\ s.highestmodseq = j.seen.highestmodseq

\* cachedUIDsAreCurrent, and the policy the state was built under.
CachedRowsAreCurrent(j) ==
    \E s \in j.known :
        /\ s.policy = j.policy
        /\ \/ j.seen.highestmodseq = 0
           \/ s.highestmodseq # 0 /\ s.highestmodseq = j.seen.highestmodseq

\* The remote state the cached rows were built from, by the fast path's test.
Unmodified(s, p, sel) ==
    /\ s.policy = p
    /\ s.uidvalidity = sel.uidvalidity
    /\ s.uidnext = sel.uidnext
    /\ s.highestmodseq # 0
    /\ s.highestmodseq = sel.highestmodseq

\* The range discoverCandidates asks for: up to and including UIDNEXT, and no
\* further back than MaxCandidates when the folder holds more.
Windowed(j) == j.cap > 0 /\ j.seen.uidnext > j.cap + 1
InScope(j, u) == /\ u <= j.seen.uidnext
                 /\ Windowed(j) => u >= j.seen.uidnext - j.cap

NewestOf(S, n) == {u \in S : Cardinality({v \in S : v > u}) < n}

\* candidateDiscovery for the UIDs the server returned.
Discovered(j, uids) ==
    LET capped == j.cap > 0 /\ Cardinality(uids) > j.cap
        found  == IF capped THEN NewestOf(uids, j.cap) ELSE uids
    IN [j EXCEPT !.candidates = found,
                 !.fetch = found,
                 !.whole = ~Windowed(j) /\ ~capped]

\* The next phase, from what is left to do.
Reconcile(j) ==
    IF j.whole THEN "prune"
    ELSE IF j.candidates = {} /\ ~Windowed(j) THEN "commit"
    ELSE IF j.observed = {} THEN "prune" ELSE "mark"

Gate(j) ==
    IF j.fetch = {} THEN Reconcile(j)
    ELSE IF j.policy.full THEN "envelopes" ELSE "headers"

Sift(j) == IF j.candidates # {} /\ CachedRowsAreCurrent(j) THEN "compare"
                                                          ELSE Gate(j)

\* SelectFolder, and the three ways on: drop the rows of another generation
\* or of no known state, trust unchanged rows, or look for candidates.
SelectFolder(r) ==
    /\ pc[r] = "select"
    /\ LET sel == [uidvalidity |-> uidvalidity, uidnext |-> uidnext,
                   highestmodseq |-> HighestModSeq]
           j == [job[r] EXCEPT !.seen = sel, !.queries = job[r].policy.queries]
       IN \/ /\ \A s \in j.known : s.uidvalidity # uidvalidity
             /\ Go(r, j, "invalidate")
          \/ /\ \E s \in j.known : Unmodified(s, j.policy, sel)
             /\ Go(r, [j EXCEPT !.queries = {}, !.whole = TRUE], "verify")
          \/ /\ \E s \in j.known : /\ s.uidvalidity = uidvalidity
                                   /\ ~Unmodified(s, j.policy, sel)
             /\ Go(r, j, "discover")
    /\ quiet' = quiet \cup {r}
    /\ UNCHANGED <<server, tables, policy, clock, lock>>

\* Mutant: a changed UIDVALIDITY forgets the state and leaves the rows.
DeleteByFolder_NoStateOnly(r) ==
    /\ pc[r] = "invalidate"
    /\ rows' = IF job[r].known = {} THEN {} ELSE rows
    /\ Go(r, [job[r] EXCEPT !.known = {}], "discover")
    /\ UNCHANGED <<server, folderState, policy, clock, lock, quiet>>

\* DeleteByFolder.  The row of folder_state stays.
DeleteByFolder(r) ==
    /\ pc[r] = "invalidate"
    /\ rows' = {}
    /\ Go(r, [job[r] EXCEPT !.known = {}], "discover")
    /\ UNCHANGED <<server, folderState, policy, clock, lock, quiet>>

\* The full policy lists the range.
ListUIDs(r) ==
    /\ pc[r] = "discover"
    /\ job[r].policy.full
    /\ LET uids == {m.uid : m \in {n \in mailbox : InScope(job[r], n.uid)}}
           j == Discovered([job[r] EXCEPT !.queries = {}], uids)
       IN Go(r, j, Sift(j))
    /\ Unchanged_but_job

\* A domain policy searches it once per header and domain, each search in a
\* session of its own; the last one completes the candidates.
SearchAllowed(r) ==
    /\ pc[r] = "discover"
    /\ ~job[r].policy.full
    /\ \E q \in job[r].queries :
         LET hits == {m.uid : m \in {n \in mailbox :
                        InScope(job[r], n.uid) /\ n.kind \in HitBy[q]}}
             uids == job[r].candidates \cup hits
             left == [job[r] EXCEPT !.queries = @ \ {q}, !.candidates = uids]
             j    == Discovered(left, uids)
         IN IF left.queries # {} THEN Go(r, left, "discover")
                                 ELSE Go(r, j, Sift(j))
    /\ Unchanged_but_job

\* Mutant: what is not fetched again is not kept either.
UncachedUIDs_NoKeep(r) ==
    /\ pc[r] = "compare"
    /\ LET held == job[r].candidates \cap {x.uid : x \in rows}
           j == [job[r] EXCEPT !.fetch = @ \ held, !.observed = held]
       IN Go(r, j, Gate(j))
    /\ Unchanged_but_job

\* uncachedUIDs: candidates already cached are kept and not fetched again.
UncachedUIDs(r) ==
    /\ pc[r] = "compare"
    /\ LET held == job[r].candidates \cap {x.uid : x \in rows}
           j == [job[r] EXCEPT !.fetch = @ \ held, !.keep = held,
                               !.observed = held]
       IN Go(r, j, Gate(j))
    /\ Unchanged_but_job

\* Mutant: the server's search results pass for approved.
PolicyAllowedUIDs_TrustSearch(r) ==
    /\ pc[r] = "headers"
    /\ Go(r, job[r], "envelopes")
    /\ Unchanged_but_job

\* FetchHeaders: the local policy gate in front of every content fetch.
PolicyAllowedUIDs(r) ==
    /\ pc[r] = "headers"
    /\ LET allowed == {m.uid : m \in {n \in mailbox :
                         n.uid \in job[r].fetch /\ Approved(job[r].policy, n.kind)}}
           j == [job[r] EXCEPT !.fetch = allowed]
       IN Go(r, j, IF allowed = {} THEN Reconcile(j) ELSE "envelopes")
    /\ Unchanged_but_job

FetchEnvelopes(r) ==
    /\ pc[r] = "envelopes"
    /\ LET envelopes == {[uid |-> m.uid, kind |-> m.kind, modseq |-> m.modseq,
                          from |-> uidvalidity] :
                            m \in {n \in mailbox : n.uid \in job[r].fetch}}
           j == [job[r] EXCEPT !.fetch = {}, !.envelopes = envelopes]
       IN Go(r, j, IF envelopes = {} THEN Reconcile(j) ELSE "store")
    /\ Unchanged_but_job

\* Mutant: the public id is made from the UIDVALIDITY of the last session.
StoreMessage_LateValidity(r) ==
    /\ pc[r] = "store"
    /\ \E e \in job[r].envelopes :
         LET row == [uidvalidity |-> uidvalidity, uid |-> e.uid,
                     envelope |-> e,
                     body |-> IF \E m \in mailbox : m.uid = e.uid
                                THEN uidvalidity ELSE 0,
                     verified |-> job[r].now]
             j == [job[r] EXCEPT !.envelopes = @ \ {e},
                                 !.keep = @ \cup {e.uid}]
         IN /\ rows' = {x \in rows : PublicId(x) # PublicId(row)} \cup {row}
            /\ Go(r, j, IF j.envelopes = {} THEN Reconcile(j) ELSE "store")
    /\ UNCHANGED <<server, folderState, policy, clock, lock, quiet>>

\* FetchBodyPreview and UpsertMessage for one envelope.  The body comes from
\* whatever message has that UID now, and is empty when none has.  Nothing
\* that happens between the two calls changes what either does.
StoreMessage(r) ==
    /\ pc[r] = "store"
    /\ \E e \in job[r].envelopes :
         LET row == [uidvalidity |-> job[r].seen.uidvalidity, uid |-> e.uid,
                     envelope |-> e,
                     body |-> IF \E m \in mailbox : m.uid = e.uid
                                THEN uidvalidity ELSE 0,
                     verified |-> job[r].now]
             j == [job[r] EXCEPT !.envelopes = @ \ {e},
                                 !.keep = @ \cup {e.uid}]
         IN /\ rows' = {x \in rows : PublicId(x) # PublicId(row)} \cup {row}
            /\ Go(r, j, IF j.envelopes = {} THEN Reconcile(j) ELSE "store")
    /\ UNCHANGED <<server, folderState, policy, clock, lock, quiet>>

Verified(S, t) == {[x EXCEPT !.verified = t] : x \in S}

\* MarkUIDsVerified: one UPDATE per UID, all of them under writeMu.  A failing
\* UPDATE ends the cycle with some of the UIDs marked.
MarkUIDsVerified(r) ==
    /\ pc[r] = "mark"
    /\ \E done \in SUBSET job[r].observed :
         LET j == [job[r] EXCEPT !.observed = {}]
             hit == {x \in rows : x.uid \in done
                            /\ x.uidvalidity = j.seen.uidvalidity}
         IN /\ rows' = (rows \ hit) \cup Verified(hit, j.now)
            /\ \/ /\ done = job[r].observed
                  /\ Go(r, j, "prune")
                  /\ UNCHANGED <<lock, quiet>>
               \/ /\ done # job[r].observed
                  /\ Finish(r)
    /\ UNCHANGED <<server, folderState, policy, clock>>

\* Mutant: the candidates bound the range even when a window was asked for.
Covered_CandidateBounds(j, u) ==
    j.whole \/ \E a, b \in j.candidates : a <= u /\ u <= b

\* The UIDs a cycle may delete: all of them after a whole scan, else those in
\* observedScopeBounds.
Covered(j, u) ==
    \/ j.whole
    \/ Windowed(j) /\ InScope(j, u)
    \/ /\ ~Windowed(j)
       /\ \E a, b \in j.candidates : a <= u /\ u <= b

Missing(r) == {x \in rows : Covered(job[r], x.uid) /\ x.uid \notin job[r].keep}

\* DeleteMissingByUIDSet and ...InRange: one transaction per UID, and a row is
\* found by its UID alone.
DeleteMissing(r) ==
    /\ pc[r] = "prune"
    /\ \E x \in Missing(r) : rows' = rows \ {x}
    /\ UNCHANGED <<server, folderState, policy, clock, daemon, quiet>>

NoneMissing(r) ==
    /\ pc[r] = "prune"
    /\ Missing(r) = {}
    /\ Go(r, job[r], IF job[r].whole THEN "verify" ELSE "commit")
    /\ Unchanged_but_job

MarkFolderVerified(r) ==
    /\ pc[r] = "verify"
    /\ LET hit == {x \in rows : x.uidvalidity = job[r].seen.uidvalidity}
       IN rows' = (rows \ hit) \cup Verified(hit, job[r].now)
    /\ Go(r, job[r], "commit")
    /\ UNCHANGED <<server, folderState, policy, clock, lock, quiet>>

\* Mutant: the mod-sequence recorded is the one at the end of the cycle.
UpsertFolderState_LateModSeq(r) ==
    /\ pc[r] = "commit"
    /\ LET j == job[r]
       IN folderState' = {[uidvalidity |-> uidvalidity,
                           uidnext |-> uidnext,
                           highestmodseq |-> IF j.whole THEN HighestModSeq ELSE 0,
                           policy |-> j.policy,
                           refreshed |-> j.now]}
    /\ Finish(r)
    /\ UNCHANGED <<server, rows, policy, clock>>

\* The state is written last.  A scan that was not whole records no
\* HIGHESTMODSEQ, so that the next cycle cannot take the fast path.
UpsertFolderState(r) ==
    /\ pc[r] = "commit"
    /\ LET j == job[r]
       IN folderState' = {[uidvalidity |-> j.seen.uidvalidity,
                           uidnext |-> j.seen.uidnext,
                           highestmodseq |->
                             IF j.whole THEN j.seen.highestmodseq ELSE 0,
                           policy |-> j.policy,
                           refreshed |-> j.now]}
    /\ Finish(r)
    /\ UNCHANGED <<server, rows, policy, clock>>

\* Mutant: an error returns without the unlock.
Fail_NoUnlock(r) ==
    /\ pc[r] \in Locked \cup {"expire"}
    /\ Go(r, NoJob, "idle")
    /\ quiet' = quiet \ {r}
    /\ UNCHANGED <<server, tables, policy, clock, lock>>

\* A remote call fails or times out, or a local one does: the cycle stops
\* where it is, and the mutex is released.
Fail(r) ==
    /\ pc[r] \in Locked \cup {"expire"}
    /\ Finish(r)
    /\ UNCHANGED <<server, tables, policy, clock>>

-----------------------------------------------------------------------------
(* The specification *)

Init ==
    /\ uidvalidity = 1
    /\ modseq = 1
    /\ uidnext \in 1..(MaxUid + 1)
    /\ mailbox \in SUBSET [uid: 1..(uidnext - 1), kind: Kind, modseq: {1}]
    /\ \A m, n \in mailbox : m.uid = n.uid => m = n
    /\ rows = {}
    /\ folderState = {}
    /\ policy \in Policy
    /\ clock = 0
    /\ lock = {}
    /\ pc = [r \in Request |-> "idle"]
    /\ job = [r \in Request |-> NoJob]
    /\ quiet = {}

Environment ==
    \/ \E k \in Kind : Deliver(k)
    \/ \E m \in mailbox : Expunge(m) \/ ChangeFlags(m)
    \/ Renumber
    \/ EditPolicy
    \/ Tick

\* The steps of a cycle that holds the mutex.
Cycle(r) ==
    \/ SelectFolder(r) \/ DeleteByFolder(r)
    \/ ListUIDs(r) \/ SearchAllowed(r) \/ UncachedUIDs(r)
    \/ PolicyAllowedUIDs(r) \/ FetchEnvelopes(r) \/ StoreMessage(r)
    \/ MarkUIDsVerified(r) \/ DeleteMissing(r) \/ NoneMissing(r)
    \/ MarkFolderVerified(r) \/ UpsertFolderState(r)

\* The steps of a request that has started.
Progress(r) == CleanupExpired(r) \/ Acquire(r) \/ Cycle(r) \/ Fail(r)

Next == \/ Environment
        \/ Crash
        \/ \E r \in Request : Start(r) \/ Progress(r)

\* Every remote call ends by its deadline and every local one returns: a
\* goroutine that can take a step takes one.  A goroutine starving on the
\* mutex is handed it (sync.Mutex's starvation mode).  No client has to ask,
\* and nothing has to happen on the server.
Fairness == \A r \in Request : WF_vars(Progress(r)) /\ SF_vars(Acquire(r))

Spec == Init /\ [][Next]_vars
FairSpec == Spec /\ Fairness

-----------------------------------------------------------------------------
(* Correctness *)

TypeOK ==
    /\ uidvalidity \in Nat /\ uidnext \in Uid /\ modseq \in Nat
    /\ mailbox \subseteq Message
    /\ rows \subseteq Row
    /\ folderState \subseteq FolderState
    /\ policy \in Policy
    /\ clock \in Nat
    /\ lock \subseteq Request
    /\ pc \in [Request -> Unlocked \cup Locked]
    /\ job \in [Request -> Job]
    /\ quiet \subseteq Request

\* The mutex: its holder is in a cycle, everybody in a cycle holds it, and
\* there is one holder at most.
MutexOK ==
    /\ \A r \in Request : pc[r] \in Locked <=> r \in lock
    /\ \A r, s \in lock : r = s

\* The rows of a folder are all of one generation of UIDs.  ListUIDsForFolder
\* and DeleteByMessageRef go by the UID alone and rely on it, through every
\* crash, failure and renumbering of the mailbox.
OneGeneration == \A x, y \in rows : x.uidvalidity = y.uidvalidity

\* The row x caches the message m: envelope and body are m's, as m is now.
Caches(x, m) ==
    /\ x.uidvalidity = uidvalidity
    /\ x.uid = m.uid
    /\ x.envelope = [uid |-> m.uid, kind |-> m.kind, modseq |-> m.modseq,
                     from |-> uidvalidity]
    /\ x.body = uidvalidity

\* The same with flags that may have changed since.
CachesOld(x, m) == Caches([x EXCEPT !.envelope.modseq = m.modseq], m)

NothingMissing(p) ==
    \A m \in mailbox : Approved(p, m.kind) => \E x \in rows : Caches(x, m)

NothingStale(p) ==
    \A x \in rows : \E m \in mailbox : Approved(p, m.kind) /\ Caches(x, m)

ServerNow == [uidvalidity |-> uidvalidity, uidnext |-> uidnext,
              highestmodseq |-> HighestModSeq]

\* Between cycles, a folder state that would let the next cycle under the policy
\* on disk take the fast path (refresh.go:180-192) is true: the rows are exactly
\* the approved messages of the server.
FastPathSound ==
    lock = {} => \A s \in folderState :
        Unmodified(s, policy, ServerNow)
            => NothingMissing(policy) /\ NothingStale(policy)

\* Whatever a concurrent purge takes away, the fast path never trusts a row
\* that is not an approved message of the server as it is now.
FastPathNeverStale ==
    lock = {} => \A s \in folderState :
        Unmodified(s, s.policy, ServerNow) => NothingStale(s.policy)

\* A purge that empties the folder invalidates its state: as long as the
\* server has approved messages, the next cycle looks for them.
PurgeForgetsState ==
    lock = {} /\ rows = {} =>
        \A s \in folderState : Unmodified(s, s.policy, ServerNow)
            => \A m \in mailbox : ~Approved(s.policy, m.kind)

\* A cycle that nothing disturbed ends with the rows of its range equal to
\* the approved messages of its range, whatever state earlier cycles, crashes
\* and failures left behind.
QuietCycleConverges ==
    \A r \in quiet : pc[r] = "commit" =>
        LET j == job[r]
        IN /\ \A m \in mailbox :
                InScope(j, m.uid) /\ Approved(j.policy, m.kind)
                  => \E x \in rows : CachesOld(x, m)
           /\ \A x \in rows : InScope(j, x.uid) =>
                \E m \in mailbox : CachesOld(x, m) /\ Approved(j.policy, m.kind)

\* A row that mixes two messages, because the server renumbered the folder
\* between two calls of a cycle, is of a generation the server has left: the
\* next cycle finds UIDVALIDITY changed and drops it.
MixedRowsAreStale ==
    \A x \in rows : x.uidvalidity = uidvalidity =>
        x.envelope.from = uidvalidity /\ x.body \in {0, uidvalidity}

\* A cycle prunes a message of the server that the policy approves in one case
\* only: the UID at the low end of its window, pushed out of the candidates by
\* arrivals after SelectFolder.
PruneSparesLiveMessages ==
    [][\A r \in Request, x \in rows :
         DeleteMissing(r) /\ x \notin rows' =>
           \/ \A m \in mailbox : ~CachesOld(x, m)
           \/ \E m \in mailbox : m.uid = x.uid /\ ~Approved(job[r].policy, m.kind)
           \/ /\ Windowed(job[r])
              /\ x.uid = job[r].seen.uidnext - job[r].cap
              /\ r \notin quiet
      ]_vars

\* The envelope that is stored is one the local gate has approved, however many
\* messages the server's search matched and whatever arrives or goes between the
\* gate and the fetch - as long as it comes from the generation that SelectFolder
\* saw.  A folder renumbered between the gate and the fetch gives the approved UID
\* to another message, which is stored without having passed the gate (see the
\* README): such a row is one of those of MixedRowsAreStale.  The same goes for the
\* preview of its body, fetched last by the same UID.
GateBeforeContent ==
    [][\A r \in Request, x \in rows' :
         StoreMessage(r) /\ x \notin rows /\ x.envelope.from = x.uidvalidity =>
           Approved(job[r].policy, x.envelope.kind)
      ]_vars

\* A folder refreshed under the policy on disk holds only rows it approves, of
\* those of the generation the server is in.
OnlyApprovedRows ==
    lock = {} => \A s \in folderState : s.policy = policy =>
        \A x \in rows : x.uidvalidity = uidvalidity =>
            Approved(policy, x.envelope.kind)

\* The purge never takes a row that is within its TTL, even one verified
\* between the listing and the transaction: no earlier than the second in which
\* the TTL ends, for instants are compared as text.
PurgeSparesVerifiedRows ==
    [][\A r \in Request, x \in rows :
         CleanupExpired(r) /\ x \notin rows' =>
           x.verified + TTL < clock + TicksPerSecond]_vars

\* Every request comes to an end: neither the mutex nor the loops of a cycle
\* hold it for ever.
RequestsFinish == \A r \in Request : pc[r] # "idle" ~> pc[r] = "idle"

-----------------------------------------------------------------------------
(* The cache as a mirror of the folder *)

Mirror == INSTANCE FolderMirror WITH
              epoch <- uidvalidity,
              held  <- {PublicId(x) : x \in rows},
              claim <- {s.uidvalidity : s \in folderState}

\* Whatever requests, crashes, failures and other clients do, and whichever two
\* of their steps meet, the two tables are a mirror: every transaction of the
\* cache is one of its steps, or none.
ImplementsMirror == Mirror!Spec

-----------------------------------------------------------------------------
(* The inductive invariant behind OneGeneration *)

\* Phases after SelectFolder, and those after the rows of another generation
\* are gone.
Selected   == Locked \ {"select"}
Rebuilding == Selected \ {"invalidate"}

\* UIDVALIDITY only grows: what was recorded is not ahead of the server, nor
\* of what the cycle under way has selected since.
BehindServer ==
    /\ \A x \in rows : x.uidvalidity <= uidvalidity
    /\ \A s \in folderState : s.uidvalidity <= uidvalidity
    /\ \A r \in Request : pc[r] \in Locked =>
         \A s \in job[r].known : s.uidvalidity <= uidvalidity
    /\ \A r \in Request : pc[r] \in Selected =>
         /\ job[r].seen.uidvalidity <= uidvalidity
         /\ \A s \in folderState : s.uidvalidity <= job[r].seen.uidvalidity
         /\ \A s \in job[r].known : s.uidvalidity <= job[r].seen.uidvalidity

\* A crash can leave rows of a generation newer than the folder state's, never
\* older: a state that matches the server has rows that do.
StateBehindRows ==
    /\ \A s \in folderState, x \in rows : s.uidvalidity <= x.uidvalidity
    /\ \A r \in Request : pc[r] \in Locked =>
         \A s \in job[r].known, x \in rows : s.uidvalidity <= x.uidvalidity

\* A cycle that writes rows has none left of another generation.
RowsAsSelected ==
    \A r \in Request : pc[r] \in Rebuilding =>
        \A x \in rows : x.uidvalidity = job[r].seen.uidvalidity

GenerationInv == /\ TypeOK /\ MutexOK /\ OneGeneration
                 /\ BehindServer /\ StateBehindRows /\ RowsAsSelected

-----------------------------------------------------------------------------
(* The inductive invariant behind what the rows contain *)

\* UIDs are given out once in a generation.
UidsFresh ==
    /\ \A m \in mailbox : m.uid < uidnext
    /\ \A m, n \in mailbox : m.uid = n.uid => m = n

\* What a row or an envelope holds is of no generation older than its UID's.
PartsNotOlder ==
    /\ \A x \in rows :
         /\ x.uidvalidity <= x.envelope.from /\ x.envelope.from <= uidvalidity
         /\ x.body # 0 => x.uidvalidity <= x.body /\ x.body <= uidvalidity
    /\ \A r \in Request : pc[r] = "store" => \A e \in job[r].envelopes :
         job[r].seen.uidvalidity <= e.from /\ e.from <= uidvalidity

\* Past the local gate: the UIDs that passed it, and the envelopes fetched for
\* them, are of approved messages unless the folder has been renumbered since
\* the cycle selected it.
PastTheGate ==
    \A r \in Request :
        /\ /\ pc[r] = "envelopes" /\ ~job[r].policy.full
           /\ job[r].seen.uidvalidity = uidvalidity
           => /\ \A u \in job[r].fetch : u < uidnext
              /\ \A m \in mailbox :
                   m.uid \in job[r].fetch => Approved(job[r].policy, m.kind)
        /\ pc[r] = "store" => \A e \in job[r].envelopes :
             e.from = job[r].seen.uidvalidity => Approved(job[r].policy, e.kind)

\* The clock a request has read is not ahead.
NowIsPast == \A r \in Request : job[r].now <= clock

ContentInv == UidsFresh /\ PartsNotOlder /\ PastTheGate /\ NowIsPast

=============================================================================
