------------------------------ MODULE FolderSync ------------------------------
(***************************************************************************)
(* The inductive invariants behind what a refresh cycle of FolderRefresh   *)
(* leaves in the cache: which messages of the server it has accounted for  *)
(* in each of its phases, and what a recorded folder_state vouches for.    *)
(***************************************************************************)
EXTENDS FolderRefresh

\* The phases between the discovery of candidates and the end of the pruning.
Counting == {"compare", "headers", "envelopes", "store", "mark", "prune"}

\* A recorded HIGHESTMODSEQ that the server still has: nothing has changed.
UpToDate(h) == h # 0 /\ h = HighestModSeq

\* The row x is of one piece, and of the message m but for its flags.
OfMessage(x, m) ==
    /\ x.uid = m.uid
    /\ x.envelope.uid = m.uid /\ x.envelope.kind = m.kind
    /\ x.envelope.from = x.uidvalidity
    /\ x.body = x.uidvalidity

\* The row is a message of the server, flags and all.
Live(x) == /\ x.uidvalidity = uidvalidity
           /\ \E m \in mailbox : /\ OfMessage(x, m)
                                 /\ x.envelope.modseq = m.modseq

\* UIDs of the cycle that are cached, or on their way into the cache.
Accounted(j) == j.keep \cup j.fetch \cup {e.uid : e \in j.envelopes}

\* A UID that newestUIDs cut off the candidates because of arrivals since
\* SelectFolder: the low end of the window, or below all candidates.
Dropped(r, u) ==
    LET j == job[r]
    IN /\ ~j.whole /\ r \notin quiet
       /\ IF Windowed(j) THEN u = j.seen.uidnext - j.cap
                         ELSE \A c \in j.candidates : u < c

-----------------------------------------------------------------------------
(* The tables *)

\* A mod-sequence that is still the server's comes with the rest of the
\* selection; what is older was recorded earlier.
NumbersBehind(s) ==
    /\ s.highestmodseq <= HighestModSeq
    /\ UpToDate(s.highestmodseq) => /\ s.uidvalidity = uidvalidity
                                    /\ s.uidnext = uidnext

\* While the server has not changed since a state was recorded, all rows are
\* messages of the server, however cycles have failed since.
Vouches(s) ==
    UpToDate(s.highestmodseq) => \A x \in rows : Live(x)

\* A row of the present generation describes the message that has its UID,
\* should there be one: kinds do not change, and no UID is given out twice.
RowsDescribe ==
    \A x \in rows : x.uidvalidity = uidvalidity =>
        /\ x.uid < uidnext
        /\ \A m \in mailbox : m.uid = x.uid => OfMessage(x, m)

TablesInv ==
    /\ RowsDescribe
    /\ \A s, t \in folderState : s = t
    /\ \A s \in folderState : NumbersBehind(s) /\ Vouches(s)

-----------------------------------------------------------------------------
(* A request *)

\* Which locals are in use in which phase.
LocalsInUse(r) ==
    LET j == job[r]
    IN /\ pc[r] \in Unlocked \cup {"select", "invalidate"} => j.candidates = {}
       /\ pc[r] \in Unlocked \cup {"select", "invalidate", "discover"} =>
            j.fetch = {} /\ j.keep = {}
       /\ pc[r] = "compare" => /\ j.fetch = j.candidates /\ j.keep = {}
                               /\ CachedRowsAreCurrent(j)
       /\ pc[r] \in {"store", "mark", "prune"} => j.fetch = {}
       /\ pc[r] \notin {"store", "verify", "commit"} => j.envelopes = {}
       /\ pc[r] \in Counting /\ j.whole => ~Windowed(j)

\* The state a cycle has read.
StateRead(r) ==
    /\ \A s, t \in job[r].known : s = t
    /\ \A s \in job[r].known : NumbersBehind(s) /\ Vouches(s)
    /\ pc[r] = "select" => folderState \subseteq job[r].known

\* What it has selected.
SelectionRead(r) ==
    pc[r] \in Selected =>
        LET j == job[r]
        IN /\ NumbersBehind(j.seen)
           /\ j.seen.uidvalidity = uidvalidity => j.seen.uidnext <= uidnext
           /\ \A s \in folderState \cup j.known :
                s.highestmodseq <= j.seen.highestmodseq

\* While the server has not changed since SelectFolder, the rows kept are
\* messages of it, and so are the envelopes, and in the end all rows.
KeptIsLive(r) ==
    pc[r] \in Rebuilding /\ UpToDate(job[r].seen.highestmodseq) =>
        LET j == job[r]
        IN /\ \A x \in rows : x.uid \in j.keep => Live(x)
           /\ pc[r] = "store" => \A e \in j.envelopes :
                \E m \in mailbox : /\ m.uid = e.uid /\ m.kind = e.kind
                                   /\ m.modseq = e.modseq
           /\ pc[r] \in {"verify", "commit"} /\ j.whole =>
                \A x \in rows : Live(x)

\* An envelope, too, describes the message that has its UID.
EnvelopesDescribe(r) ==
    pc[r] = "store" =>
        \A e \in job[r].envelopes : e.from = uidvalidity =>
            /\ e.uid < uidnext
            /\ \A m \in mailbox : m.uid = e.uid => m.kind = e.kind

\* Rows that were there at SelectFolder have UIDs below its UIDNEXT.
OlderRows(r) ==
    pc[r] \in Rebuilding =>
        \A x \in rows : x.uid < job[r].seen.uidnext \/ x.uid \in job[r].keep

\* A message of the range asked for, known since SelectFolder.
InRange(j, m) == m.uid < j.seen.uidnext /\ InScope(j, m.uid)

\* The searches done have found what they match.
SearchesDone(r) ==
    LET j == job[r]
    IN /\ pc[r] = "invalidate" => j.queries = j.policy.queries
       /\ pc[r] = "discover" =>
            /\ \A u \in j.candidates : InScope(j, u)
            /\ j.seen.uidvalidity = uidvalidity =>
                 \A q \in j.policy.queries \ j.queries, m \in mailbox :
                    InRange(j, m) /\ m.kind \in HitBy[q] => m.uid \in j.candidates

\* No approved message in the range of the cycle is overlooked.
MessagesAccounted(r) ==
    pc[r] \in Counting /\ job[r].seen.uidvalidity = uidvalidity =>
        \A m \in mailbox :
            InRange(job[r], m) /\ Approved(job[r].policy, m.kind) =>
               m.uid \in Accounted(job[r]) \/ Dropped(r, m.uid)

CycleInv(r) == /\ StateRead(r) /\ SelectionRead(r)
               /\ KeptIsLive(r) /\ EnvelopesDescribe(r) /\ OlderRows(r)
               /\ SearchesDone(r) /\ MessagesAccounted(r)

\* A cycle that nothing has disturbed has what it found still before it.
QuietInv(r) ==
    LET j == job[r]
    IN /\ pc[r] \in Selected /\ j.seen = ServerNow
       /\ pc[r] \in Rebuilding \ {"discover"} => j.whole \/ Windowed(j)
       /\ pc[r] \in Counting \cup {"discover"} =>
            \A u \in j.candidates : \E m \in mailbox : m.uid = u
       /\ pc[r] \in Counting =>
            /\ \A u \in Accounted(j) : \E m \in mailbox : m.uid = u
            /\ \A u \in j.keep : \E x \in rows : x.uid = u
       /\ pc[r] \in {"verify", "commit"} =>
            \A x \in rows : InScope(j, x.uid) => \E m \in mailbox : m.uid = x.uid

SyncInv == /\ TablesInv
           /\ \A r \in Request : LocalsInUse(r)
           /\ \A r \in Request : pc[r] \in Locked => CycleInv(r)
           /\ \A r \in quiet : QuietInv(r)

-----------------------------------------------------------------------------
(* When policies do not get in each other's way *)

\* Policies are compared by what they approve.
Narrower(p, q) == /\ \A k \in Kind : Approved(p, k) => Approved(q, k)
                  /\ \E k \in Kind : Approved(q, k) /\ ~Approved(p, k)
NoWider(p, q)  == p = q \/ Narrower(p, q)

\* Nobody edits the policy of the account.
FixedPolicy == PolicyChange = {}

\* Edits only ever narrow it.
OnlyNarrows == \A e \in PolicyChange : Narrower(e[2], e[1])

\* Requests come one at a time.
OneAtATime == \A r, s \in Request : r = s

\* No request asks for fewer messages than the folder may hold.
Uncapped == \A c \in Cap : c = 0 \/ c >= MaxUid

PolicyRule == FixedPolicy \/ (OnlyNarrows /\ OneAtATime /\ Uncapped)

\* Without a cap every scan is whole.
WholeScan(r) ==
    LET j == job[r]
    IN /\ pc[r] # "idle" => j.cap \in Cap
       /\ pc[r] \in Selected => j.seen.uidnext <= MaxUid + 1
       /\ \A u \in j.candidates : u <= MaxUid
       /\ pc[r] \in Counting \cup {"verify", "commit"} => j.whole

WholeScans == uidnext <= MaxUid + 1 /\ \A r \in Request : WholeScan(r)

\* What was recorded, and what a request has loaded, is of a policy no narrower
\* than the present one, the older the wider.
Ordered(r) ==
    /\ pc[r] # "idle" => /\ NoWider(policy, job[r].policy)
                         /\ \A s \in folderState :
                              NoWider(job[r].policy, s.policy)
    /\ pc[r] \in Locked =>
         \A s \in job[r].known : NoWider(job[r].policy, s.policy)

PoliciesOrdered ==
    /\ \A s \in folderState : NoWider(policy, s.policy)
    /\ \A r \in Request : Ordered(r)

SamePolicy ==
    /\ \A s \in folderState : s.policy = policy
    /\ \A r \in Request : pc[r] # "idle" => job[r].policy = policy

\* Every row of one piece has passed the gate of the policy p.
Gathered(p) ==
    \A x \in rows : x.envelope.from = x.uidvalidity =>
        Approved(p, x.envelope.kind)

\* The rows are approved by the policy of the state a cycle has read, those it
\* keeps by its own, and in the end all of them.
GatheredBy(r) ==
    /\ pc[r] \in Locked => \A s \in job[r].known : Gathered(s.policy)
    /\ pc[r] \in Rebuilding =>
         \A x \in rows : x.uid \in job[r].keep
                           /\ x.envelope.from = x.uidvalidity =>
            Approved(job[r].policy, x.envelope.kind)
    /\ pc[r] \in {"verify", "commit"} => Gathered(job[r].policy)

RowsApproved == /\ \A s \in folderState : Gathered(s.policy)
                /\ \A r \in Request : GatheredBy(r)

PolicyInv == /\ PoliciesOrdered /\ RowsApproved
             /\ FixedPolicy => SamePolicy /\ Gathered(policy)
             /\ Uncapped => WholeScans

-----------------------------------------------------------------------------
(* Without a purge beside a cycle *)

\* No purge, or requests that come one at a time.
NoPurgeRace == TTL = 0 \/ OneAtATime

Complete(p) == \A m \in mailbox : Approved(p, m.kind) =>
                   \E x \in rows : x.uid = m.uid

SameAge == \A x, y \in rows : x.verified = y.verified

\* A cycle under this policy is under way, or the next one may be.
Wanted(p) == p = policy \/ \E r \in Request : pc[r] # "idle" /\ job[r].policy = p

\* A state recorded before nothing changed vouches for completeness, too: the
\* next cycle takes the fast path, and a purge takes all rows or none.
VouchesForAll(s) ==
    UpToDate(s.highestmodseq) /\ Wanted(s.policy) =>
        /\ Complete(s.policy) /\ SameAge
        /\ \A r \in Request : pc[r] \in Selected => pc[r] \in {"verify", "commit"}

\* The state a cycle has read is the one recorded when it compares it with the
\* server.
KnownIsRecorded ==
    \A r \in Request : pc[r] = "select" => job[r].known = folderState

\* What a cycle keeps is in the cache, and in the end all that it had to find.
CycleComplete(r) ==
    pc[r] \in Rebuilding =>
        LET j == job[r]
        IN /\ \A u \in j.keep : \E x \in rows : x.uid = u
           /\ pc[r] \in {"verify", "commit"} =>
                /\ j.whole /\ UpToDate(j.seen.highestmodseq) => Complete(j.policy)
                /\ r \in quiet => \A m \in mailbox :
                     InScope(j, m.uid) /\ Approved(j.policy, m.kind) =>
                        \E x \in rows : x.uid = m.uid
           /\ pc[r] = "commit" /\ j.whole => SameAge

\* The purge has listed all there is.
AllListed(r) ==
    pc[r] = "expire" =>
        \A x \in Expired(job[r].now) : PublicId(x) \in job[r].expired

CompleteInv == /\ \A s \in folderState : VouchesForAll(s)
               /\ KnownIsRecorded
               /\ \A r \in Request : CycleComplete(r) /\ AllListed(r)

=============================================================================
