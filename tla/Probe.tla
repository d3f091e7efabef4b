------------------------------- MODULE Probe -------------------------------
(***************************************************************************)
(* `ksuite-mail probe imap`: the fixed checklist the daemon runs against   *)
(* the mail provider of one account (internal/providerprobe/imap.go), the  *)
(* sessions it opens (internal/imapadapter/adapter.go), the handler that   *)
(* runs it under a budget (internal/daemon/daemon.go, handleProbeIMAP) and *)
(* the client that waits for it (cmd/ksuite-mail/probe.go).                *)
(*                                                                         *)
(* Every call of the checklist is a session of its own: it dials, logs in, *)
(* sends its commands and closes.  Other clients use the mailbox all the   *)
(* while.  Time passes while a session waits for the server, and between   *)
(* two sessions, while the daemon closes the one, loads the credential for *)
(* the next and is scheduled.                                              *)
(***************************************************************************)
EXTENDS Integers, FiniteSets

CONSTANTS
    Account,        \* accounts: policy, is a folder configured, searches
    Query,          \* header searches, one per header and domain
    Target,         \* Target[q]: the folder probed, another one, or none
    Kind,           \* classes of messages the searches tell apart
    HitBy,          \* HitBy[q]: the kinds a proper server returns for q
    Exact,          \* Exact[q]: those of them with an address of the domain
    Quirks,         \* the servers: what they support and get wrong
    Source,         \* does the daemon have a mail source?
    ScanLimit,      \* readStateFixtureScanLimit
    Budget,         \* the daemon's time for one probe
    DialTimeout,    \* the adapter's time for one session
    Pause,          \* the daemon's own time before a session, at most
    ClientTimeout,  \* how long the command line waits
    MaxUid,         \* bound on the UIDs of one generation of the mailbox
    MaxValidity,    \* bound on UIDVALIDITY
    MaxChanges      \* bound on what other clients do

ASSUME AccountAssumption ==
    /\ Account # {} /\ Query # {}
    /\ \A a \in Account : /\ a.full \in BOOLEAN /\ a.folder \in BOOLEAN
                          /\ a.queries \subseteq Query
                          /\ ~a.full => \E q \in a.queries : Target[q] = "folder"
    /\ Target \in [Query -> {"folder", "elsewhere", "nowhere"}]
    /\ HitBy \in [Query -> SUBSET Kind]
    /\ Exact \in [Query -> SUBSET Kind]
    /\ \A q \in Query : Exact[q] \subseteq HitBy[q]
    /\ Source \subseteq BOOLEAN

\* modseq: announces CONDSTORE and reports HIGHESTMODSEQ.  ranges: obeys a UID
\* range.  overbroad: ignores the HEADER criterion.  marks: sets \Seen on PEEK.
ASSUME QuirkAssumption ==
    Quirks \subseteq [modseq: BOOLEAN, ranges: BOOLEAN,
                      overbroad: BOOLEAN, marks: BOOLEAN]

\* The client waits longer than the budget (20 s and 18 s), and the adapter
\* lets a session without a deadline take as long as the client waits.  Nothing
\* is assumed of how long the pauses are.
ASSUME TimeAssumption ==
    /\ Budget \in Nat \ {0} /\ DialTimeout \in Nat /\ ClientTimeout \in Nat
    /\ Pause \in Nat
    /\ Budget < DialTimeout /\ Budget < ClientTimeout
    /\ ScanLimit \in Nat \ {0}
    /\ MaxUid \in Nat /\ MaxValidity \in Nat /\ MaxChanges \in Nat

VARIABLES
    quirks, uidvalidity, uidnext, mailbox,  \* the server, the folder probed
    sent,                                   \* is there a match elsewhere?
    changes,                                \* what other clients have done
    account,                                \* the account asked for
    clock,                                  \* time since the request
    conn,                                   \* the session under way, or the pause
    pc, job, checks,                        \* the goroutine: RunIMAP
    client,                                 \* the command line
    disturbed                               \* history: changed since SELECT?

folder == <<uidvalidity, uidnext, mailbox, sent>>
server == <<quirks, folder, changes>>
vars   == <<server, account, clock, conn, pc, job, checks, client, disturbed>>

-----------------------------------------------------------------------------
(* Data *)

Uid == Nat \ {0}
Message == [uid: Uid, kind: Kind, seen: BOOLEAN]

Check == {"capability", "folder_listing", "folder_selection", "uid_behavior",
          "refresh_strategy", "domain_header_search", "read_state"}

\* "failed" is a call that returned an error, "refuted" a call whose result
\* shows the server at fault; both are the status failed.
Verdict == {"none", "passed", "failed", "refuted", "inconclusive",
            "not_applicable"}

NoChecks == [c \in Check |-> "none"]

\* The locals of RunIMAP and of the check it is in.
Job == [modseq: BOOLEAN,             \* capabilities and HIGHESTMODSEQ
        uidnext: Nat,                \* of SelectFolder
        first: Nat,                  \* the lowest UID listed
        left: SUBSET Query, query: Query,
        hits: SUBSET Uid, missing: BOOLEAN,
        evidence: SUBSET Uid,        \* of the folder probed
        uidvalidity: Nat,            \* of SelectFolder; nothing reads it again
        scan: SUBSET Uid, seenBefore: BOOLEAN]

NoJob == [modseq |-> FALSE, uidnext |-> 0, first |-> 0, left |-> {},
          query |-> CHOOSE q \in Query : TRUE, hits |-> {}, missing |-> FALSE,
          evidence |-> {}, uidvalidity |-> 0, scan |-> {}, seenBefore |-> FALSE]

\* One phase per command; the last three share a session.
Remote == {"capability", "folders", "select", "listAll", "listOne", "search",
           "negative", "scan", "seen", "before", "body", "after"}
Phase == {"idle", "answer"} \cup Remote

-----------------------------------------------------------------------------
(* Sessions *)

\* since: when the session began to dial, or when the pause before it began.
Conn   == [state: {"closed", "dialing", "open"}, since: Nat]
NoConn == [state |-> "closed", since |-> 0]
Closed == [state |-> "closed", since |-> clock]

\* dial: the time left bounds the dialer only while there is some left.
DialLimit(since) ==
    since + IF Budget - since > 0 /\ Budget - since < DialTimeout
              THEN Budget - since ELSE DialTimeout

\* Mutant: the session's deadline forgets the budget.
Deadline_NoBudget(since) == since + DialTimeout

\* deadlineConn: a read or write still waiting then fails.
Deadline(since) ==
    IF Budget < since + DialTimeout THEN Budget ELSE since + DialTimeout

\* The command of the phase gets its answer.
Answered(phase) ==
    /\ pc = phase
    /\ conn.state = "open"
    /\ clock < Deadline(conn.since)

\* dial, with the time it finds left: limits and deadline count from here.
Dial ==
    /\ pc \in Remote
    /\ conn.state = "closed"
    /\ conn' = [state |-> "dialing", since |-> clock]
    /\ UNCHANGED <<server, account, clock, pc, job, checks, client, disturbed>>

\* tls.DialWithDialer, in time.
Connect ==
    /\ pc \in Remote
    /\ conn.state = "dialing"
    /\ clock < DialLimit(conn.since)
    /\ conn' = [conn EXCEPT !.state = "open"]
    /\ UNCHANGED <<server, account, clock, pc, job, checks, client, disturbed>>

\* Until when the goroutine may stay where it is.
WaitLimit ==
    CASE conn.state = "closed"  -> conn.since + Pause
      [] conn.state = "dialing" -> DialLimit(conn.since)
      [] conn.state = "open"    -> Deadline(conn.since)

\* The session waits for the server, or the daemon takes its time before it.
Tick ==
    /\ pc \in Remote
    /\ clock < WaitLimit
    /\ client = "waiting" => clock < ClientTimeout
    /\ clock' = clock + 1
    /\ UNCHANGED <<server, account, conn, pc, job, checks, client, disturbed>>

\* The http.Client gives up.  The handler does not notice: the adapter looks at
\* the deadline of its context only, never at its cancellation.
ClientTimesOut ==
    /\ client = "waiting"
    /\ clock >= ClientTimeout
    /\ client' = "gone"
    /\ UNCHANGED <<server, account, clock, conn, pc, job, checks, disturbed>>

-----------------------------------------------------------------------------
(* The mailbox and its other users *)

Touched ==
    /\ changes < MaxChanges
    /\ changes' = changes + 1
    /\ disturbed' = TRUE
    /\ UNCHANGED <<quirks, account, clock, conn, pc, job, checks, client>>

Deliver(k) ==
    /\ uidnext <= MaxUid
    /\ mailbox' = mailbox \cup {[uid |-> uidnext, kind |-> k, seen |-> FALSE]}
    /\ uidnext' = uidnext + 1
    /\ UNCHANGED <<uidvalidity, sent>>
    /\ Touched

Expunge(m) ==
    /\ mailbox' = mailbox \ {m}
    /\ UNCHANGED <<uidvalidity, uidnext, sent>>
    /\ Touched

\* Somebody reads the message, or marks it unread again.
ChangeSeen(m) ==
    /\ mailbox' = (mailbox \ {m}) \cup {[m EXCEPT !.seen = ~m.seen]}
    /\ UNCHANGED <<uidvalidity, uidnext, sent>>
    /\ Touched

\* The folder is deleted and created again: the UIDs are given out anew.
Recreate ==
    /\ uidvalidity < MaxValidity
    /\ uidvalidity' = uidvalidity + 1
    /\ \E k \in Kind : mailbox' = {[uid |-> 1, kind |-> k, seen |-> FALSE]}
    /\ uidnext' = 2
    /\ UNCHANGED sent
    /\ Touched

\* The other folder gets its first match or loses its last.
Elsewhere ==
    /\ sent' = ~sent
    /\ UNCHANGED <<uidvalidity, uidnext, mailbox>>
    /\ Touched

Uids == {m.uid : m \in mailbox}

\* What the server says to UID SEARCH HEADER in the folder of q.
Matching(q) ==
    IF Target[q] = "elsewhere"
    THEN IF sent THEN {1} ELSE {}
    ELSE {m.uid : m \in {n \in mailbox : quirks.overbroad \/ n.kind \in HitBy[q]}}

\* The same for a value that no message has.
MatchingNothing(q) == IF quirks.overbroad THEN Matching(q) ELSE {}

-----------------------------------------------------------------------------
(* RunIMAP *)

\* The next call opens a session of its own.
Go(phase, j, chks) ==
    /\ pc' = phase
    /\ job' = j
    /\ checks' = chks
    /\ conn' = Closed

\* The checks that were not run are inconclusive, the header search of an
\* account with the full policy does not apply.
Finish(chks) ==
    /\ pc' = "answer"
    /\ job' = job
    /\ checks' = [c \in Check |->
                    IF chks[c] # "none" THEN chks[c]
                    ELSE IF c = "domain_header_search" /\ account.full
                         THEN "not_applicable" ELSE "inconclusive"]
    /\ conn' = NoConn

Unchanged_but_goroutine == UNCHANGED <<server, account, clock, client, disturbed>>

With(c, v) == [checks EXCEPT ![c] = v]

\* handleProbeIMAP refuses: unknown account, no credential, no configuration.
Refuse ==
    /\ pc = "idle"
    /\ client \notin {"waiting", "refused"}
    /\ client' = "refused"
    /\ UNCHANGED <<server, account, clock, conn, pc, job, checks, disturbed>>

\* handleProbeIMAP starts the probe, and its budget with it.  Without a source
\* the first four checks fail at once.
Ask ==
    /\ pc = "idle"
    /\ account' \in Account
    /\ clock' = 0
    /\ client' = "waiting"
    /\ disturbed' = FALSE
    /\ job' = NoJob
    /\ \/ /\ TRUE \in Source
          /\ pc' = "capability"
          /\ checks' = NoChecks
          /\ conn' = NoConn
       \/ /\ FALSE \in Source
          /\ pc' = "answer"
          /\ checks' = [c \in Check |->
                CASE c \in {"capability", "folder_listing", "folder_selection",
                            "uid_behavior"} -> "failed"
                  [] c \in {"refresh_strategy", "read_state"} -> "inconclusive"
                  [] OTHER -> IF account'.full THEN "not_applicable"
                                               ELSE "inconclusive"]
          /\ conn' = NoConn
    /\ UNCHANGED server

Capabilities ==
    /\ Answered("capability")
    /\ Go("folders", [job EXCEPT !.modseq = quirks.modseq],
          With("capability", "passed"))
    /\ Unchanged_but_goroutine

\* LIST.  The list may be empty, and the account may name no folder.
Folders ==
    /\ Answered("folders")
    /\ \/ Finish(With("folder_listing", "inconclusive"))
       \/ IF account.folder
          THEN Go("select", job, With("folder_listing", "passed"))
          ELSE Finish(With("folder_listing", "passed"))
    /\ Unchanged_but_goroutine

\* EXAMINE.  A server may leave UIDVALIDITY or UIDNEXT out.
SelectFolder ==
    /\ Answered("select")
    /\ \/ Finish(With("folder_selection", "inconclusive"))
       \/ Go("listAll", [job EXCEPT !.uidnext = uidnext,
                                    !.uidvalidity = uidvalidity],
             With("folder_selection", "passed"))
    /\ disturbed' = FALSE
    /\ UNCHANGED <<server, account, clock, client>>

\* checkRefreshStrategy, once the verdict on UIDs is there.
Strategy(uidBehavior) ==
    IF job.modseq \/ uidBehavior = "passed" THEN "passed"
    ELSE IF uidBehavior = "refuted" THEN "refuted" ELSE "inconclusive"

\* What follows probeUIDBehavior, whatever it found.
AfterUIDBehavior(verdict) ==
    LET chks == [checks EXCEPT !["uid_behavior"] = verdict,
                               !["refresh_strategy"] = Strategy(verdict)]
        reachable == {q \in account.queries : Target[q] # "nowhere"}
    IN IF account.full
       THEN Go("scan", job, [chks EXCEPT !["domain_header_search"] =
                                           "not_applicable"])
       ELSE Go("search", [job EXCEPT !.left = reachable,
                                     !.missing = reachable # account.queries],
               chks)

\* probeUIDBehavior, first call: all UIDs.
ListUIDs ==
    /\ Answered("listAll")
    /\ IF Cardinality(Uids) < 2
       THEN AfterUIDBehavior("inconclusive")
       ELSE Go("listOne",
               [job EXCEPT !.first = CHOOSE u \in Uids : \A v \in Uids : u <= v],
               checks)
    /\ Unchanged_but_goroutine

\* Second call: the range of the first UID alone.
ListFirstUID ==
    /\ Answered("listOne")
    /\ LET ranged == IF quirks.ranges THEN Uids \cap {job.first} ELSE Uids
       IN AfterUIDBehavior(IF ranged = {job.first} THEN "passed" ELSE "refuted")
    /\ Unchanged_but_goroutine

\* probeDomainHeaders, for one header and domain: the search for the domain...
SearchDomain ==
    /\ Answered("search")
    /\ \E q \in job.left :
         Go("negative", [job EXCEPT !.query = q, !.hits = Matching(q)], checks)
    /\ Unchanged_but_goroutine

\* readStateFixtureScope: the last UIDs below UIDNEXT.  An upper end of zero is
\* no upper end.
InScope(u) ==
    LET max == job.uidnext - 1
    IN /\ max >= ScanLimit => u > max - ScanLimit
       /\ max # 0 => u <= max

NewestOf(S) == {u \in S : Cardinality({v \in S : v > u}) < ScanLimit}

\* probeReadState, once the UIDs to try are known.
EnterReadState(j, uids, chks) ==
    IF uids = {} THEN Finish(chks)
                 ELSE Go("seen", [j EXCEPT !.scan = NewestOf(uids)], chks)

\* Mutant: evidence of another folder counts.
Evidence_AnyFolder(uids) == job.evidence \cup uids

\* Evidence counts for the folder it was gathered in.
Evidence(uids) ==
    IF Target[job.query] = "folder" THEN job.evidence \cup uids ELSE job.evidence

\* Mutant: no search with a value that nothing matches.
SearchNegative_Skipped ==
    /\ Answered("negative")
    /\ LET left == job.left \ {job.query}
           j == [job EXCEPT !.left = left, !.evidence = Evidence(job.hits),
                            !.missing = @ \/ job.hits = {}]
           verdict == IF j.missing THEN "inconclusive" ELSE "passed"
       IN IF left # {} THEN Go("search", j, checks)
          ELSE EnterReadState(j, {u \in j.evidence : InScope(u)},
                              With("domain_header_search", verdict))
    /\ Unchanged_but_goroutine

\* ... and the search for a value that no message has: only a server that finds
\* nothing there is believed.  The last query decides, and the evidence of the
\* folder probed goes to the read-state check.
SearchNegative ==
    /\ Answered("negative")
    /\ LET left == job.left \ {job.query}
           j == [job EXCEPT !.left = left, !.evidence = Evidence(job.hits),
                            !.missing = @ \/ job.hits = {}]
           verdict == IF j.missing THEN "inconclusive" ELSE "passed"
       IN IF MatchingNothing(job.query) # {}
          THEN Finish(With("domain_header_search", "refuted"))
          ELSE IF left # {} THEN Go("search", j, checks)
          ELSE EnterReadState(j, {u \in j.evidence : InScope(u)},
                              With("domain_header_search", verdict))
    /\ Unchanged_but_goroutine

\* readStateFixtureUIDs with the full policy: any message in scope will do.
ScanFolder ==
    /\ Answered("scan")
    /\ EnterReadState(job, {u \in Uids : quirks.ranges => InScope(u)}, checks)
    /\ Unchanged_but_goroutine

Current == CHOOSE u \in job.scan : \A v \in job.scan : u <= v
Fetched == {m \in mailbox : m.uid = Current}

\* Mutant: the fixture that will not do is tried again.
NextFixture_Again == Go("seen", job, checks)

\* continue, in the loop of probeReadState.
NextFixture ==
    LET left == job.scan \ {Current}
    IN IF left = {} THEN Finish(checks)
                    ELSE Go("seen", [job EXCEPT !.scan = left], checks)

\* FetchSeenState: only a message that is there and unread is a fixture.
FetchSeenState ==
    /\ Answered("seen")
    /\ IF \E m \in Fetched : ~m.seen THEN Go("before", job, checks)
                                      ELSE NextFixture
    /\ Unchanged_but_goroutine

\* FetchBodyPreviewAndSeenState, three commands of one session: \Seen...
SeenBefore ==
    /\ Answered("before")
    /\ IF Fetched = {}
       THEN NextFixture
       ELSE /\ pc' = "body"
            /\ job' = [job EXCEPT !.seenBefore = \E m \in Fetched : m.seen]
            /\ UNCHANGED <<conn, checks>>
    /\ Unchanged_but_goroutine

\* ... one byte of the body with BODY.PEEK...
PeekBody ==
    /\ Answered("body")
    /\ pc' = "after"
    /\ mailbox' = {IF quirks.marks /\ m \in Fetched THEN [m EXCEPT !.seen = TRUE]
                                                   ELSE m : m \in mailbox}
    /\ UNCHANGED <<quirks, uidvalidity, uidnext, sent, changes, account, clock,
                   conn, job, checks, client, disturbed>>

\* ... and \Seen again.
SeenAfter ==
    /\ Answered("after")
    /\ IF Fetched = {} \/ job.seenBefore
       THEN NextFixture
       ELSE Finish(With("read_state", IF \E m \in Fetched : m.seen THEN "refuted"
                                                                 ELSE "passed"))
    /\ Unchanged_but_goroutine

CheckOf(phase) ==
    CASE phase = "capability" -> "capability"
      [] phase = "folders"    -> "folder_listing"
      [] phase = "select"     -> "folder_selection"
      [] phase \in {"search", "negative"} -> "domain_header_search"
      [] OTHER -> "read_state"

\* Mutant: a header search that failed is asked again.
Fault_Retried ==
    /\ pc \in Remote
    /\ CASE pc \in {"listAll", "listOne"} -> AfterUIDBehavior("failed")
         [] pc \in {"search", "negative"} -> Go("search", job, checks)
         [] OTHER -> Finish(With(CheckOf(pc), "failed"))
    /\ Unchanged_but_goroutine

\* The session fails: no credential, the dial or the login refused, an error
\* response, a broken connection, a time limit reached.  Only the failure of the
\* UID check lets the checklist go on.
Fault ==
    /\ pc \in Remote
    /\ IF pc \in {"listAll", "listOne"}
       THEN AfterUIDBehavior("failed")
       ELSE Finish(With(CheckOf(pc), "failed"))
    /\ Unchanged_but_goroutine

\* Mutant: the answer's status is that of its last check.
Status_OfLast == checks["read_state"]

\* aggregateProbeStatus
Status ==
    LET verdicts == {checks[c] : c \in Check}
    IN IF verdicts \cap {"failed", "refuted"} # {} THEN "failed"
       ELSE IF "inconclusive" \in verdicts THEN "inconclusive" ELSE "passed"

\* The handler writes its answer, if there is still somebody to read it.
Respond ==
    /\ pc = "answer"
    /\ pc' = "idle"
    /\ client' = IF client = "waiting" THEN Status ELSE client
    /\ job' = NoJob
    /\ checks' = NoChecks
    /\ clock' = 0
    /\ disturbed' = FALSE
    /\ UNCHANGED <<server, account, conn>>

-----------------------------------------------------------------------------
Init ==
    /\ quirks \in Quirks
    /\ uidvalidity = 1
    /\ \E n \in 0..(MaxUid - 1) : \E kinds \in [1..n -> Kind] :
          /\ mailbox = {[uid |-> u, kind |-> kinds[u], seen |-> FALSE] : u \in 1..n}
          /\ uidnext = n + 1
    /\ sent \in BOOLEAN
    /\ changes = 0
    /\ account = CHOOSE a \in Account : TRUE
    /\ clock = 0
    /\ conn = NoConn
    /\ pc = "idle"
    /\ job = NoJob
    /\ checks = NoChecks
    /\ client = "none"
    /\ disturbed = FALSE

Others ==
    \/ \E k \in Kind : Deliver(k)
    \/ \E m \in mailbox : Expunge(m) \/ ChangeSeen(m)
    \/ Recreate
    \/ Elsewhere

\* What the goroutine of the handler does.
Progress ==
    \/ Dial \/ Connect
    \/ Capabilities \/ Folders \/ SelectFolder
    \/ ListUIDs \/ ListFirstUID
    \/ SearchDomain \/ SearchNegative
    \/ ScanFolder \/ FetchSeenState
    \/ SeenBefore \/ PeekBody \/ SeenAfter
    \/ Fault
    \/ Respond

Next == Ask \/ Refuse \/ Progress \/ Tick \/ ClientTimesOut \/ Others

Spec == Init /\ [][Next]_vars

\* Neither a session nor the pause before it outlasts its limits, so the
\* goroutine goes on.
FairSpec == Spec /\ WF_vars(Progress)

-----------------------------------------------------------------------------
(* Properties *)

TypeOK ==
    /\ quirks \in Quirks
    /\ uidvalidity \in Nat /\ uidnext \in Uid /\ changes \in Nat
    /\ mailbox \in SUBSET Message
    /\ sent \in BOOLEAN /\ disturbed \in BOOLEAN
    /\ account \in Account
    /\ clock \in Nat
    /\ conn \in Conn
    /\ pc \in Phase
    /\ job \in Job
    /\ checks \in [Check -> Verdict]
    /\ client \in {"none", "waiting", "refused", "gone",
                  "passed", "failed", "inconclusive"}

\* What a verdict says of the server.
Concluded == {"uid_behavior", "domain_header_search", "read_state"}

Good(c) == CASE c = "uid_behavior"         -> quirks.ranges
             [] c = "domain_header_search" -> ~quirks.overbroad
             [] c = "read_state"           -> ~quirks.marks

VerdictTrue(c) == /\ checks[c] = "passed"  => Good(c)
                  /\ checks[c] = "refuted" => ~Good(c)

\* What the answer says of the server is true of it, provided that nobody else
\* touched the folders between EXAMINE and the answer: each verdict comes from
\* several sessions, and a fixture that is missing must not look like a pass.
QuietVerdictsTrue ==
    pc = "answer" /\ ~disturbed => \A c \in Concluded : VerdictTrue(c)

\* For an account under the domain policy the daemon reads a body only of a
\* message of the probed folder that one of the account's own searches, believed
\* after its counter-check, has returned - as long as the folder keeps the
\* UIDVALIDITY the probe saw (RunIMAP never looks at it again).  A search returns
\* every substring match: see PeekOnlyApproved.
PeekOnlyMatching ==
    [][PeekBody /\ ~account.full /\ uidvalidity = job.uidvalidity =>
          \A m \in Fetched : \E q \in account.queries :
              Target[q] = "folder" /\ m.kind \in HitBy[q]]_vars

\* No remote check passes after the budget, however late its dial was answered.
NoLatePass ==
    [][\A c \in Check \ {"refresh_strategy"} :
          checks[c] # "passed" /\ checks'[c] = "passed" => clock < Budget]_vars

\* Under the domain policy no body is read of a message without an address of a
\* configured domain (docs/non-functional-requirements.md:165-175 and
\* docs/requirements.md:281-284), here while nobody else touches the folder.  Not
\* so: see the README.
PeekOnlyApproved ==
    pc = "after" /\ ~account.full /\ ~disturbed =>
        \A m \in Fetched : \E q \in account.queries :
            Target[q] = "folder" /\ m.kind \in Exact[q]

\* How far a probe may outrun its budget, and with it the client that waits for its
\* answer: dial takes the adapter's full time once the budget is spent.  Only the
\* UID check lets the list go on, so that at most two sessions begin to dial then,
\* the one of that check and the one after it.
OverrunBounded == clock <= Budget + 2 * (Pause + DialTimeout)

\* Every probe ends, whatever the server does and however often others disturb
\* it: no check is repeated.
ProbesEnd == pc # "idle" ~> pc = "idle"

-----------------------------------------------------------------------------
(* The inductive invariants behind the safety properties *)

\* The phases whose failure the checklist survives only once, and those before.
Early == {"capability", "folders", "select", "listAll", "listOne"}

\* When the pause before the session of a phase begins at the latest: once the
\* budget is spent, an early phase goes on at most once.
LastPause ==
    IF pc \in Early THEN Budget ELSE Budget + Pause + DialTimeout

\* A session that begins to dial within the budget ends within it, one that
\* begins later takes its dial timeout at most.
TimeInv ==
    /\ OverrunBounded
    /\ pc \in Remote =>
          IF conn.state = "closed"
          THEN conn.since <= LastPause /\ clock <= conn.since + Pause
          ELSE /\ conn.since <= LastPause + Pause
               /\ clock <= Budget \/ clock <= conn.since + DialTimeout

\* A message the searches of the account return.
Matched(m) ==
    \E q \in account.queries : Target[q] = "folder" /\ m.kind \in HitBy[q]

\* Where the probe is in its searches.
PhaseInv ==
    /\ job.left \subseteq account.queries
    /\ pc = "negative" => job.query \in account.queries
    /\ pc \in {"capability", "folders", "select"} =>
          job.evidence = {} /\ job.hits = {}
    /\ pc = "scan" => account.full
    /\ pc \in {"seen", "before", "body", "after"} =>
          /\ job.scan # {}
          /\ ~account.full => job.scan \subseteq job.evidence

\* UIDs are not used again within a generation: what was found stays true of
\* whatever the folder still has of it.
EvidenceInv ==
    /\ \A m \in mailbox : m.uid < uidnext
    /\ \A m, n \in mailbox : m.uid = n.uid => m = n
    /\ job.uidvalidity <= uidvalidity
    /\ \E n \in Nat : \A u \in job.evidence \cup job.hits : u <= n
    /\ job.uidvalidity = uidvalidity =>
          /\ \A u \in job.evidence : u < uidnext
          /\ \A m \in mailbox : m.uid \in job.evidence => Matched(m)
          /\ pc = "negative" /\ Target[job.query] = "folder" =>
                /\ \A u \in job.hits : u < uidnext
                /\ \A m \in mailbox : m.uid \in job.hits /\ ~quirks.overbroad
                                       => m.kind \in HitBy[job.query]

ProbeInv == TypeOK /\ TimeInv /\ PhaseInv /\ EvidenceInv

\* What the sessions before have found and the next one builds on, while nobody
\* else touches the folders.
QuietInv ==
    /\ pc \in {"capability", "folders", "select"} =>
          \A c \in Concluded : checks[c] = "none"
    /\ ~disturbed =>
          /\ \A c \in Concluded : VerdictTrue(c)
          /\ pc = "listOne" => job.first \in Uids /\ Uids # {job.first}
          /\ pc = "negative" => job.hits = Matching(job.query)
          /\ pc = "body" /\ ~job.seenBefore => \A m \in Fetched : ~m.seen
          /\ pc = "after" /\ ~job.seenBefore =>
                \A m \in Fetched : m.seen = quirks.marks

=============================================================================
