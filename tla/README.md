# ksuite-mail: a TLA+ verification

ksuite-mail is a local mail reader in two processes. A daemon owns the mailbox
credentials and an SQLite cache; a command line talks to it over a Unix socket.
There is no background synchronisation: every read command makes the daemon
refresh the configured folders from the IMAP server first, and is then answered
from the cache. Correctness is therefore a matter of what a refresh leaves in
the cache while the server, the configuration, other requests and crashes
change things under it.

## 1. Inventory

| Component | State it keeps | Operations | Modelled |
|---|---|---|---|
| Refresh coordinator (`internal/refresh`) | a process-wide mutex per account and folder | `Refresh`, `refreshFolder`, `discoverCandidates`, `policyAllowedUIDs` | one folder's cycle: `FolderRefresh`; the loop over folders and its result: `RefreshRequest` |
| Cache (`internal/cache`) | tables `messages`, `folder_state`, a full-text index; `writeMu` | upserts, verification marks, deletions, `CleanupExpired`, queries | every statement of a cycle and the purge: `FolderRefresh`; what they promise: `FolderMirror`; the paging queries: `ReadPage` |
| Policy (`internal/policy`) | none | `DomainMatch` | `Approved` in `FolderRefresh` |
| Daemon handlers (`internal/daemon`) | per-request locals | list, search, show, thread, context: load configuration, purge, refresh, page, build the status | up to the refresh: `FolderRefresh`; the envelope of the answer: `RefreshRequest`; its content: `ReadPage` |
| Daemon lifecycle (`internal/daemon`, `cmd/ksuite-maild`) | listener, socket path, process | `Serve`, `Listen`, signals | `Serve`; what a crash leaves in the cache: `FolderRefresh` |
| API envelope (`internal/api`) | none | `ReadStatus`, metadata | `RefreshRequest` |
| IMAP adapter (`internal/imapadapter`) | none: one session per call | dial, deadlines, select, search, list, seen state, body preview | sessions and their time: `Probe`; what each call returns, or that it fails: `Probe`, `FolderRefresh` |
| Provider probe (`internal/providerprobe`) | none | `RunIMAP` | `Probe` |
| Bootstrap (`internal/bootstrap`) | `config.toml`, the secrets file, users, directories | `Run` | `Bootstrap` |
| Doctor (`internal/doctor`), credential check of a probe | none | `Run`, `verifyProbeCredential` | `Doctor` |
| Secrets (`internal/secrets`) | none | `Load`, `Resolve` | as `Bootstrap` writes and `Doctor` reads them |
| Configuration (`internal/config`) | none | parse, validate, edit | the policy that may be edited at any time (`FolderRefresh`), the accounts (`Bootstrap`); parsing is data |
| Command line, socket client (`cmd/ksuite-mail`, `internal/udsclient`) | none | dial, wait, give up | `Serve`, `Probe`; flags and printing are wording |
| Layout, systemd templates, mail test fake | constants | - | not modelled |

How they interact: a handler is a goroutine of the HTTP server. It reads the
configuration file, opens the cache, calls `CleanupExpired`, and calls
`Refresh`, which takes the mutex of each folder in turn and runs a cycle:
`SelectFolder`, then a search or listing, header and envelope fetches, one body
preview per message, each in an IMAP session of its own, with cache writes in
between. Two requests share the mutex, the tables and the configuration file.
The handler then reads the cache without any lock. `init` runs as root beside
the daemon and replaces the files the daemon reads; `doctor` and `probe` read
them through the daemon. The command line reaches the daemon by a Unix socket,
which systemd owns in production and the daemon itself in development.

What is hard, and what makes each part correct:

- *Refresh.* Anything may happen on the server between two calls of a cycle.
  `folder_state` is a claim about the rows (the UIDVALIDITY, UIDNEXT,
  HIGHESTMODSEQ and policy they were built from); the next cycle's fast path
  believes it without looking. The claim must be true whatever failed,
  crashed or ran beside the cycle that made it. A bounded cycle must not
  delete what it did not look at.
- *Cache.* Rows are found by UID alone in places, which is right only while all
  rows of a folder are of one UIDVALIDITY. The purge runs beside the cycles and
  compares instants as text.
- *Policy.* The server's substring search may return messages the policy
  excludes: the local gate comes before any content is fetched. An edit of the
  policy must reach the rows already cached.
- *Handlers.* Every request must end. The status and time of an answer must be
  those of the folders it is about; paging must not hide messages.
- *Probe.* A dozen sessions share one budget, other clients change the mailbox
  between them, and the server may be defective in ways the checks must tell
  apart. A verdict must not outrun its evidence, and bodies may be read only
  where the account's own searches point.
- *Bootstrap and doctor.* A crash between the secret and the configuration entry
  must be recoverable by running `init` again, and a doctor that looks meanwhile
  must not report what is not so.
- *Lifecycle.* A command that waits at the socket must not be lost when the
  daemon ends, nor the path be lost to a daemon that has ended.

The hazards, with the lines where they bite and the properties aimed at them,
are listed in `PROJECT.json`.

## 2. Modules

| Module | Contents |
|---|---|
| `FolderRefresh` | One folder: the server, the two tables, the configuration, the clock, the mutex, and any number of requests. |
| `FolderSync` | What holds of `FolderRefresh` in each phase of a cycle: the inductive invariants of the proofs. |
| `FolderMirror` | The abstract specification: what the cache promises of one folder to a reader. `FolderRefresh` implements it. |
| `RefreshRequest` | One request over all configured folders: which of them fail, and the status, warnings and time of the answer. A folder's cycle is one step. |
| `ReadPage` | A handler's reading of the cache in batches, while other requests change it. |
| `Probe` | `probe imap`: the checklist, its sessions and their deadlines, the budget, the client, the mailbox and its other users. |
| `Bootstrap` | `ksuite-mail init`: two files, a prompt, failures at every step, several operators. |
| `Doctor` | `Bootstrap`, with the daemon that answers a doctor or a probe from the same files. |
| `Serve` | The daemon's process, its socket and the commands that use it, in both deployments. |
| `FolderRefreshProofs`, `FolderSyncProofs`, `FolderMirrorProofs`, `RefreshRequestProofs`, `ReadPageProofs`, `ProbeProofs`, `DoctorProofs`, `ServeProofs` | Theorems about them, for every value of their constants. |
| `MCFolderRefresh`, `MCRefreshRequest`, `MCReadPage`, `MCProbe`, `MCDoctor`, `MCServe` | Values for TLC. |

`RefreshRequest` takes a cycle of `FolderRefresh` as one step: all it needs of it
is whether it failed and what it does to `last_successful_refresh_at`. `ReadPage`
takes the changes other cycles and purges make to the rows as inserts and
deletes. `Doctor` composes with `Bootstrap` by sharing its files.

### FolderRefresh: state

| Variable | Code |
|---|---|
| `uidvalidity`, `uidnext`, `modseq`, `mailbox` | the folder on the IMAP server |
| `rows`, `folderState` | the tables `messages` and `folder_state`, for this folder; a table is a set of records, `folderState` has at most one |
| `policy` | the account's policy in `config.toml`; it also stands for its fingerprint |
| `clock` | `time.Now` |
| `lock` | who holds the mutex of `lockRefreshFolder` |
| `pc`, `job` | where each goroutine is, and its local variables |
| `quiet` | a history variable: requests since whose `SelectFolder` nothing else has changed the server or removed rows |

A row carries, besides its own UIDVALIDITY and UID, the generation of the
mailbox its envelope and its body really came from, which the code cannot know:
this is what lets a property say that a row is a mix of two messages.

### FolderRefresh: actions

| Actions | Code |
|---|---|
| `Start` | `refreshAndLoad`: configuration, list of expired rows, `now` |
| `CleanupExpired` | the deleting transaction of `CleanupExpired` |
| `Acquire` | `lockRefreshFolder` and the first read of `folder_state` |
| `SelectFolder` | the remote select, and the decision: invalidate, fast path or discovery |
| `DeleteByFolder` | the invalidation, for rows without a state and for a new UIDVALIDITY |
| `ListUIDs`, `SearchAllowed` | `discoverCandidates`, one search per header and domain |
| `UncachedUIDs` | the comparison with cached rows |
| `PolicyAllowedUIDs` | the header fetch and the local gate |
| `FetchEnvelopes`, `StoreMessage` | envelopes, and the loop of body fetch and `UpsertMessage` |
| `MarkUIDsVerified`, `DeleteMissing`, `NoneMissing`, `MarkFolderVerified` | reconciliation, bounded or whole |
| `UpsertFolderState` | the final upsert and the deferred unlock |
| `Fail` | any error return, with the deferred unlock |
| `Deliver`, `Expunge`, `ChangeFlags`, `Renumber` | other clients and the server |
| `EditPolicy`, `Tick`, `Crash` | the owner, time, the end of the process |

An action is as large as the code allows: one remote call with the local
decisions up to the next remote call or the next transaction of the cache.

Assumptions about the world, which are not in the code:

- every expunge raises HIGHESTMODSEQ. CONDSTORE alone does not promise this;
  the fast path relies on it;
- UIDVALIDITY only grows, UIDNEXT is never 0 and gives out no UID twice, and a message never changes its
  headers or body;
- a HEADER search returns at least the exact matches (`SearchAssumption`);
- no request takes longer than `Patience` (the clock waits for it), far less
  than the TTL of a row.

The purge compares instants as the code does, as RFC3339Nano text:
`TextBefore` orders ticks of a fraction of a second the way the text without
trailing zeros does.

Data left out: subjects, dates, snippets, reply stripping and truncation, the
full-text index.

### FolderMirror

A mirror holds messages, each known by a generation of the mailbox and a UID,
and may claim to be of one generation. `Renumber` starts a new generation;
`Store` takes in a message of the generation of the others; `Forget` drops
messages, and the claim with the last of them; `Claim` records the generation.
A reader may rely on two things: UIDs tell the messages apart (`OneEpoch`), and a
mirror that claims the present generation holds nothing of another one
(`ClaimTrue`). `ListUIDsForFolder`, `DeleteByMessageRef` and the fast path rely
on exactly this.

The refinement: `epoch` is `uidvalidity`, `held` the public ids of `rows`,
`claim` the UIDVALIDITY in `folderState` (`ImplementsMirror`).

### RefreshRequest

`success` is `last_successful_refresh_at` of each folder; `pc` and `job` are the
goroutines of `Refresh` and of the handlers; `answer` is what the last step
sent, if it sent an answer; `times` is a history of every folder's refreshes.

| Actions | Code |
|---|---|
| `Start` | `refreshAndLoadConfig`: with a mail source, or without |
| `RefreshFolder`, `FailFolder`, `FailLocally` | an iteration of `Refresh`: success, a remote error and its warning, a local error that ends the request |
| `List` | `handleList`, `handleSearch`, with `readEnvelopeForScope` |
| `ShowMessages` | `handleShow`, `handleThread`, `handleContext`, with `readEnvelopeForMessages` |
| `ShowMiss` | the same without their message in the cache: `writeRefreshMiss`, or 404 |
| `ShowHidden` | the same with a message that the policy hides, or whose account is gone: 404, whatever became of the refresh |
| `CleanupExpired`, `Tick` | a purge that empties a folder; time |

Which messages are cached is left open: an answer may or may not have rows, and
a thread may be of any folders of one account. At least one folder is
configured, and none twice. At this commit `cmd/ksuite-maild` passes the daemon
a source factory for the probe only, so that the built daemon takes the branch
without a source on every read; with one, as the handler tests of the
repository have it, it takes the other. `Source` holds both.

### ReadPage

`table` is the rows of the filter or of the thread, ordered by their number;
`job` is the loop of `visibleMessagePage`, `visibleThreadMessages` or
`boundedThreadContext`, one action (`LoadPage`, `LoadContext`) per batch, since
each is a query of its own; `IncludeSeed` and `TruncateBody` finish a thread and
a context; `LoadFails` is a failed query; `Others` inserts or deletes a row
between two queries. The order of a query is the `Rank` of a row: how many rows
of the table are not older. A batch is a set, the rows whose ranks LIMIT and
OFFSET name, and `Newest` puts a set in order. `defaultLimit` (100) and `maxReadWindow` (1000) are
constants. Which rows the policy shows is constant: a request reads its
configuration once. Search is a list whose filter is the query.

### Probe

| Variable | Code |
|---|---|
| `quirks` | what the server supports and gets wrong: CONDSTORE, UID ranges, the HEADER criterion, PEEK |
| `uidvalidity`, `uidnext`, `mailbox`, `sent`, `changes` | the folder probed, whether another folder has a match, what others have done |
| `account` | the account asked for: its policy, its folder, its searches |
| `clock`, `conn` | time since the request; the session: closed, dialing or open, and since when |
| `pc`, `job`, `checks` | the goroutine of `RunIMAP`: its next command, its locals, the verdicts so far |
| `client` | the command line: waiting, gone, or its answer |
| `disturbed` | history: has another client touched the folders since SELECT? |

| Actions | Code |
|---|---|
| `Ask`, `Refuse`, `Respond` | `handleProbeIMAP`: the refusals, the start of the budget, the answer with `aggregateProbeStatus` |
| `Dial`, `Connect`, `DialLimit`, `Deadline` | `dial` and `deadlineConn` of the adapter: the time of a dial, from the moment it begins, and of the commands after it |
| `Tick` | time: a session waits for the server, or the daemon closes one, loads the credential for the next and is scheduled (`Pause` at most) |
| `Capabilities`, `Folders`, `SelectFolder` | the first three checks |
| `ListUIDs`, `ListFirstUID` | `probeUIDBehavior`, two sessions |
| `SearchDomain`, `SearchNegative` | `probeDomainHeaders`, two sessions per query |
| `ScanFolder`, `FetchSeenState` | `readStateFixtureUIDs` and the choice of an unread message |
| `SeenBefore`, `PeekBody`, `SeenAfter` | `FetchBodyPreviewAndSeenState`, three commands of one session |
| `Fault` | any error of a session, time limits included, in any phase |
| `ClientTimesOut` | the timeout of the HTTP client |
| `Deliver`, `Expunge`, `ChangeSeen`, `Recreate`, `Elsewhere` | other clients, between any two commands |

A verdict is "failed" when a call fails and "refuted" when its result shows the
server at fault; the code has one status, `failed`, for both. `HitBy` is what a header
search returns, which is a substring search; `Exact` are those of its hits with an
address of the domain.

### Bootstrap and Doctor

`config` and `secrets` are the two files: whether they exist, whether the chown
after their rename has happened, and the accounts they have entries for. `user`
and `dirs` are the service user and the directories. A run (`job`) keeps what it
read of both files across the prompt. There is one action per step of `Run`, in
the order `Then` gives, which differs with and without an account; `Fail` is an
error return, an interrupt or a crash at any step. A write and its chown are two
actions, creating and renaming the temporary file one.

`Doctor` adds one handler of the daemon: `AskDaemon` begins a doctor or the probe
of an account, `CheckConfig`, `CheckSecrets` and `CheckCache` are its reads, each
a step between the steps of an `init` (`Beside`), `Answer` ends it. `found` is what
the checks found; `renewed` is a history: the files that `init` has renamed into
place since the request read them. A file that has been renamed into place and not yet been given to
the service user is unreadable to the daemon.

### Serve

`file` is the socket the path leads to, `open` the sockets somebody listens on,
`phase` the daemons, `client` the commands: in the backlog of a socket, with a
handler, or answered, refused, cut off or late. `met` is a history: daemons that
wanted the path at the same time.

| Actions | Code |
|---|---|
| `Dial`, `GiveUp`, `NextCommand` | `udsclient` and the command line |
| `Activate` | systemd, for a connection (`ksuite-maild.socket`) |
| `Launch`, `RemoveSocket`, `Bind`, `Chmod` | `Listen`, `pathListener` |
| `Accept`, `Reply` | `http.Server` and the handlers |
| `Signal`, `Exit` | the context of `main`, `Shutdown` with its time limit |
| `AcceptFails` | `srv.Serve` returns an error while `Serve` waits for the signal |
| `Kill` | a crash, or a signal before `NotifyContext` |


## 3. Runs

| Run | Bounds | Shows |
|---|---|---|
| `Sync` | 2 requests, both policies, caps 1 and 2, 2 UIDs, 2 generations, 4 mod-sequences | types, `MutexOK`, `OneGeneration`, `FastPathSound`, `MixedRowsAreStale`, `QuietCycleConverges`, `GateBeforeContent`, `ImplementsMirror` |
| `Window` | 2 requests, no HIGHESTMODSEQ, caps 1 and 3, 3 UIDs, 2 generations | `QuietCycleConverges` for bounded cycles that keep rows without fetching them again, `PruneSparesLiveMessages` |
| `PolicyAndPurge` | 1 request, the full policy narrowed to a domain at any time, TTL 2, patience 1, 5 ticks of half a second, no binding cap | `OnlyApprovedRows`; `FastPathSound` with the purge and the edit |
| `Purge` | 2 requests, TTL 2, patience 1, 3 ticks of half a second, fair | `FastPathNeverStale`, `PurgeSparesVerifiedRows`, `RequestsFinish` |
| `Answers` | 2 requests, 2 folders, 9 filters, with and without a source | `OkMeansRefreshed`, `NotFoundIsCertain`, `FailuresStayLocal`, `OneFailureTime` |
| `Paging` | 5 rows, 2 hidden, batches of 2, a window of 4, 2 changes | `ExactAnswer`, `NoRepeat`, `NoneOverlooked`, `SeedShown`, `BudgetKept` |
| `Init` | 1 operator, 2 accounts, 3 failed runs, a doctor or probe at any time, fair | `ConfiguredHasSecret`, `DoneMeansReady`, `NoFalseAlarm`, `HealthyReportStands`, `NothingLost`, `RetryRecovers` |
| `Probe` | 3 accounts, a proper server and 2 defective ones, with and without a source, 3 UIDs, 2 generations, 1 change by others, a budget of 2, a dial of 3 and a pause of 1, fair | types, `QuietVerdictsTrue`, `PeekOnlyMatching`, `NoLatePass`, `OverrunBounded`, `ProbesEnd` |
| `Serve` | 2 daemons, 2 commands, both deployments, 3 starts by hand, 3 ends, fair | `SocketSurvives`, `ServingMeansReachable`, `QueueServed`, `StaleFileHarmless` |
| `PurgeRace`, `PolicyEdit`, `PeekFake` | the smallest that show it | violations: see below |

Why the bounds are enough.

- *Refresh.* Two requests are all the mutex tells apart: one in a cycle and one
  that is before it (with an old configuration, an old `now` or a list of
  expired rows). Two generations give one renumbering, which may fall between
  any two calls; with a third, a row would still be compared only with the
  generation before. Two UIDs give a message that stays and one that comes or
  goes; three, with caps 1 and 3, give a folder larger than the window, one as
  large, and the off-by-one between. The mod-sequence bounds the number of
  changes on the server in a run. Two ticks to the second give the two forms an
  instant's text has, with and without a fraction.
- *Answers.* Two folders give every relation of failures to a filter: one or
  both in it, one in it and one outside, both outside (a filter may name an
  account or a folder that is not configured); two clock values tell a refresh
  of this request from an older one.
- *Paging.* A full table takes two batches and has a row beyond the window; a
  hidden row may be in either batch, or last; two changes may both fall between
  the batches, on either side of the place reached.
- *Init.* Three failures let a run fail after each of the two renames and once
  more while it recovers; two accounts tell an entry that a run writes from one
  that it must keep.
- *Probe.* A budget of 2 is spent in one session or in two; a dial of 3 is longer
  than the budget, as the adapter's 20 s are than the probe's 18 s. A pause of 1
  before any session lets the budget end between two sessions as well as in one,
  and a session begin before it, at it or after it. Three UIDs
  and a scan limit of 2 give a message out of reach and a loop of two fixtures;
  one change by others may fall between any two commands, and is enough to take
  a fixture away, to read it or to give its UID to another message. One defective
  server ignores the search criterion and has no CONDSTORE; the other has neither
  CONDSTORE nor UID ranges and sets `\Seen` on PEEK.
- *Serve.* Two daemons are a rival or a successor; three ends let both of them
  end and a third one start in between.

Deadlock is checked in every run.

What the violations say:

- `PurgeRace`: `CleanupExpired` does not take the folder's mutex. A purge that
  empties the folder beside a cycle has its deletion of `folder_state` undone
  by the cycle's upsert, and the fast path then reports an empty folder as
  fresh until the server changes. `FastPathNeverStale` holds: nothing wrong is
  shown, only too little.
- `PolicyEdit`: the fingerprint of the policy is recorded by the last statement
  of a cycle. A cycle under a wider policy that stores rows and then fails
  leaves them under the fingerprint of the old one; when the policy is changed
  back, later cycles find the fingerprint equal and keep the rows without the
  local gate. The handlers' own check (`cachedMessageAllowed`) keeps them from
  being served. `PolicyAndPurge` shows that a policy that is only narrowed does
  not do this.
- `PeekFake`: the UIDs whose bodies the read-state check peeks at are hits of the
  server's header search, a substring search. The refresh filters such hits
  through the local gate; the probe does not, so that a byte of the body of a
  message of `fake-regenerativ.ch` is fetched for the domain `regenerativ.ch`.
  `PeekOnlyMatching` is what holds: nothing but hits is read.

Met while modelling, and the reason for a premise or a bound, without a run of
their own:

- The gate approves UIDs in one session, and the envelopes and bodies are fetched
  by UID in later ones, without another look at UIDVALIDITY (refresh.go:222). A
  folder renumbered in between gives the approved UID to another message, whose
  envelope is stored without having passed the gate, although "Cache contains only
  policy-approved content." (arc42, line 445) and NFR-PRV-001 has "no non-matching
  rows in cache". The row carries the old UIDVALIDITY, which the server has left,
  so that the next complete cycle drops it (`MixedRowsAreStale`), and
  `cachedMessageAllowed` keeps it from being served. `GateBeforeContent` is what
  holds: an envelope of the generation that `SelectFolder` saw has passed the gate.
- A policy changed and changed back between two complete cycles: what `PolicyEdit`
  shows of rows stored holds of rows pruned too. A cycle under the narrower policy
  that prunes rows and ends before its last statement leaves the record of the
  wider policy; once the policy is back, the fast path finds the fingerprint equal
  and keeps the folder without those messages until the server's state changes
  (refresh.go:183). `FastPathSound` does not hold with the edits of `PolicyEdit.cfg`.
- `dial` takes the time that is left of the budget only while some is left
  (`remaining > 0`, adapter.go:345). The check of UIDs is the one whose failure lets
  the checklist go on: if it uses up the budget, the next session dials with the
  adapter's full time and the client, which waits longer than the budget but not
  as long, has gone before the answer comes; the test at daemon_test.go:474 wants
  it the other way round. When the budget ends between two sessions, the check of
  UIDs itself may begin late, and the header search after it again:
  `OverrunBounded` says that no more than two sessions do, and `NoLatePass` that
  nothing passes because of them.
- The snippets of a context's timeline and the text of its seed are charged to its
  budget, and the seed's own snippet, which the answer carries too (daemon.go:559),
  is not; requirements.md:149 excepts only metadata. `BudgetKept` is about what is
  charged.
- A run of `init` killed between the rename of `config.toml` and its chown leaves
  the file to root. The next run with the same account returns at "already present"
  before `normalizePerms`, whose comment says that it is "always run, even on a
  validating re-run" (bootstrap.go:388), and does not repair it; a run without an
  account, or with another one, does. `DoneMeansReady` is about runs that report
  `done`.
- The window of a bounded cycle holds one UID more than the cap (refresh.go:289),
  so that an arrival after `SelectFolder` makes the cycle delete the row of the
  lowest UID in it. `PruneSparesLiveMessages` says that this is the only such case.
- A bounded cycle under a new policy records its fingerprint although rows
  outside its window were stored under the old one (refresh.go:285).
  `PolicyAndPurge` therefore has no binding cap.
- `OnlyApprovedRows` is checked with one request. With two, one that loaded the
  configuration before an edit may store rows after another one recorded the
  folder under the new policy, and die before its own record.
- Without a mail source the newest refresh is read from the cache, and dropped
  again by `scopedRefreshMeta` because the only warning carries no time.
- `OneFailureTime` is about one warning: with two folders of the answer failed,
  `scopedRefreshMeta` leaves the time of the request, at which a folder outside
  the answer may be the only one refreshed.
- A filter that matches no configured folder has no warnings in its scope, so
  that `readEnvelopeForScope` turns a refresh that failed everywhere into `ok`;
  `OkMeansRefreshed` holds because the answer is then about no folder. A
  configuration without folders would make every refresh a failure without a
  warning, and `config.Validate` lets a folder be listed twice; both are excluded
  by `FoldersAssumption`.
- A row inserted at the top between two batches may make a message show twice
  (hence the premise of `NoRepeat`), and a deleted one may hide a message (hence
  that of `NoneOverlooked`).
- A healthy doctor's report may be overtaken: an `init` that renames a file after
  the doctor read it leaves it unreadable until its chown, or until a later run
  repairs it if it dies between the two. `HealthyReportStands` says that this is the only way
  (`renewed`).
- A message that is cached and hidden by the policy is answered with 404 whatever
  became of the refresh; `NotFoundIsCertain` is about messages that are not cached.
- `Init` and its proofs have one operator. Two read both files before their
  prompts and write them whole afterwards: the later one undoes the earlier, and
  may leave an account without its credential.
- A daemon started by hand removes the socket path without asking whether another
  one listens there, and one that stops unlinks the path whoever has bound it
  since. `ServingMeansReachable` is about daemons without such a rival.
- When the accept loop fails, `Serve` waits for a signal with its listener closed;
  systemd does not start another daemon beside it, so that commands wait until
  their timeouts. `QueueServed` has this exception.
- The command that a signal or a crash finds with a handler is cut off if the
  handler takes longer than `Shutdown` waits.

### Fairness

`Purge` assumes `WF(Progress(r))`: a goroutine that can go on does. Every
remote call ends, with a result or with an error, because the adapter sets a
deadline on its connection; every local call returns. `SF(Acquire(r))`: Go's
`sync.Mutex` hands itself to a waiter that starves. Nothing is assumed of the
server, of clients or of `Start`: no request has to come.

`Init` assumes `WF(Step(o))`, a run goes on until it ends, `SF(Start(o, a))`, the
operator runs `init` again for each account, and `WF(Handler)`, the daemon answers
the doctor. Failures are finitely many by `MaxFailures`; an operator whose every
run fails gets nothing.

`Probe` assumes `WF(Progress)`: the goroutine of the probe goes on. A session that
waits for its server has a limit, at which only `Fault` is left. Nothing is assumed
of the server, of other clients or of time.

`Serve` assumes that systemd starts the service while a connection waits
(`WF(Activate(d))`; its start limit is not modelled), that a serving daemon accepts (`WF(Accept(d, c))`) and that a
shutdown ends, by the time limit of `Shutdown` (`WF(Exit(d))`). Nothing is assumed
of handlers and clients.

## 4. Proofs

All of them are for every value of the constants that satisfies the `ASSUME`s:
any number of requests, daemons, commands and accounts, any policies, servers and
bounds. Four of the theorems of `FolderSyncProofs` have a hypothesis on the constants
besides, for what they say is not so without it:

- `PolicyRule`: nobody edits the account's policy (`FixedPolicy`: the runs `Sync`,
  `Window` and `Purge`); or edits only narrow it, requests come one at a time, and
  no cap is below the size of the folder (the run `PolicyAndPurge`). Each part is
  needed: the run `PolicyEdit` shows what a policy does that is widened and taken
  back, and the notes below it how a second request, or a binding cap, leaves
  rows that the policy on disk does not approve.
- `NoPurgeRace`: rows do not expire, or requests come one at a time. A purge beside
  the cycle of another request takes rows that the cycle has counted: the run
  `PurgeRace`.

| Theorem | Says |
|---|---|
| `FolderRefreshProofs`: `TypeCorrect`, `CyclesSerialized`, `CacheHoldsOneGeneration` | `[]TypeOK`, `[]MutexOK`, `[]OneGeneration` |
| `FolderRefreshProofs`: `CacheIsMirror` | `Spec => ImplementsMirror`: the tables implement `FolderMirror` |
| `FolderMirrorProofs`: `MirrorOneEpoch`, `MirrorClaimTrue` | what a reader of a mirror may rely on |
| `FolderRefreshProofs`: `MixturesAreStale`, `ContentIsApproved`, `PurgeIsNeverEarly` | `[]MixedRowsAreStale`, `GateBeforeContent`, `PurgeSparesVerifiedRows` |
| `FolderSyncProofs`: `LiveMessagesAreSpared` | `PruneSparesLiveMessages` |
| `FolderSyncProofs`: `CachedRowsAreApproved`, `FastPathTrustsNothingStale` | `[]OnlyApprovedRows`, `[]FastPathNeverStale`, given `PolicyRule` |
| `FolderSyncProofs`: `FastPathIsTrue`, `QuietCyclesConverge` | `[]FastPathSound`, `[]QuietCycleConverges`, given `PolicyRule` and `NoPurgeRace` |
| `RefreshRequestProofs`: `OkIsFresh`, `NotFoundIsTrue`, `CaveatIsLocal`, `TheTimeIsOfTheFailure` | `[]OkMeansRefreshed`, `[]NotFoundIsCertain`, `[]FailuresStayLocal`, `[]OneFailureTime` |
| `ReadPageProofs`: `AnswersAreExact`, `NothingIsRepeated`, `NothingIsOverlooked`, `ThreadsHaveTheirSeed`, `BudgetsAreKept` | `[]ExactAnswer`, `[]NoRepeat`, `[]NoneOverlooked`, `[]SeedShown`, `[]BudgetKept` |
| `ProbeProofs`: `ProbeTypes`, `ProbeIsBounded`, `NothingPassesLate`, `PeeksWereFound`, `VerdictsAreTrue` | `[]TypeOK`, `[]OverrunBounded`, `NoLatePass`, `PeekOnlyMatching`, `[]QuietVerdictsTrue` |
| `DoctorProofs`: `AccountsHaveCredentials`, `SuccessIsReady`, `EntriesOnlyGrow`, `NobodyIsBlamed`, `HealthyReportsStand` | `[]ConfiguredHasSecret`, `[]DoneMeansReady`, `NothingLost`, `[]NoFalseAlarm`, `[]HealthyReportStands`, for one operator (`Alone`) |
| `ServeProofs`: `SocketOutlivesDaemons`, `PathLeadsToServer`, `RestartBinds` | `SocketSurvives`, `[]ServingMeansReachable`, `StaleFileHarmless` |

Each proof has an inductive invariant, which stands at the end of the module it is
about (that of `FolderSyncProofs` in `FolderSync`), has been checked by TLC, and is
proved one action at a time.

- *One generation.* `OneGeneration` is not inductive. A row is written with the
  UIDVALIDITY of the `SelectFolder` of its own cycle, and what keeps other
  generations out is a chain: the cycle found a state of the same UIDVALIDITY or
  deleted all rows (`RowsAsSelected`); a state of the same UIDVALIDITY has no
  older rows beside it (`StateBehindRows`: a crash can leave rows newer than the
  state, never older), and no newer ones, because nothing recorded is ahead of
  the server (`BehindServer`) and the cycle selected after reading the state. The
  purge only removes rows, and removes the state only with the last of them.
  Together with the mutex this is `GenerationInv`. The refinement uses it for the
  two steps that are not a `Forget`: a stored row is of the generation of the
  others, and so is the state written last.
- *Content.* `ContentInv` follows a UID from the local gate to the row, for as long
  as the folder keeps the UIDVALIDITY that `SelectFolder` saw. The server
  gives no UID out twice in a generation (`UidsFresh`), so that what passed the
  gate stays approved until the folder is renumbered (`PastTheGate`), whatever
  arrives, goes or changes its flags between the header and the envelope fetch;
  and parts fetched later are of no earlier generation (`PartsNotOlder`). A row of
  the generation the server is in therefore has its parts from that generation,
  and they were approved. The purge needs only that the clock a request read is
  not ahead (`NowIsPast`), and that the text of an instant is never later than
  its second ends (`TextOrder`).
- *The fast path.* None of the five properties is inductive: what a recorded state
  claims is only true because of what every cycle since SelectFolder has found,
  kept and pruned. Three invariants follow a cycle, each on top of the one before.
  `SyncInv` is without policies. It says what a request's locals mean in each phase:
  which UIDs are accounted for (`MessagesAccounted`: every approved message of the
  range is a candidate, cached, on its way into the cache, or pushed out by
  arrivals), and, as long as the server's mod-sequence is still the one selected,
  that rows kept, envelopes fetched and in the end all rows are messages of the
  server (`KeptIsLive`). A recorded state vouches for this (`Vouches`): if its
  HIGHESTMODSEQ is still the server's, nothing has changed since, and whatever
  cycles have failed in between, they have only stored what is live. Pruning
  takes rows that are not accounted for, and `MessagesAccounted` says those are
  not live. `QuietInv` is the same for a cycle that nothing has disturbed, whether
  or not the server announces mod-sequences.
  `PolicyInv` orders the policies of what was recorded, read and is on disk, and
  says that the rows have passed the gate of each (`Gathered`): rows that a cycle
  keeps have only passed the gate of an earlier one.
  `CompleteInv` adds that nothing approved is missing (`VouchesForAll`), which needs
  that no purge takes what a cycle has counted, and that a purge between cycles
  takes all rows or none (`SameAge`): a whole cycle verifies them all at its `now`.
- *Answers.* `RequestInv`: a request owes every configured folder a refresh or a
  warning and never both, because the list still to do has no folder twice. The
  rest is how the scope of a filter cuts the warnings down. `TimesInv`: a time that
  a request holds, for a warning or for itself, is in the history of the folder it
  stands for, since a folder's state is only written or forgotten.
- *Pages.* `PageInv` says what the batches read so far amount to. Undisturbed, the
  rows seen are the first of the table (`Seen`), the results are a slice of the
  visible ones among them, or what fits of them, and the counters `skipped` and
  `used` are what that slice has used up (`ExactInv`, `SpentInv`): one more batch
  extends both sides alike (`SliceConcat`, `FittingConcat`), and a read stops only
  when nothing further down can change its results. With deletions, every row
  shown that is still there is behind the place reached (`RepeatInv`), for ranks
  only fall; with insertions, every visible row that was there and is behind it
  has been shown (`OverlookInv`), for ranks only rise. The lemmas about ranks say
  that each rank has one row (`RankFalls`, `RankOnto`). What a set in order, a sum
  or a slice is, is proved from these and from what a sum satisfies (`IsSum`);
  where an induction is needed it is over a set of numbers (`Inductive`, from
  the well-foundedness of the naturals), never over an operator.
- *Probe.* `TimeInv`: a session that begins to dial within the budget ends within it,
  and one that begins later takes its dial timeout at most. Any other failure ends
  the checklist, so that the pause before a session begins within the budget, or,
  after the UID check has been survived once, a pause and a dial later at most
  (`LastPause`). `PhaseInv` and
  `EvidenceInv` say where the UIDs come from that the read-state check tries: from
  searches of the folder probed whose counter-check found nothing; since UIDs are
  not used again, they still name such messages, or nothing, while the folder
  keeps its UIDVALIDITY. `QuietInv` is what one session hands to the next while
  nobody else interferes: the lowest UID is there and is not alone, the last
  search found what it would find again, the message about to be read is unread.
- *Init and doctor.* `BootstrapInv`: with one operator, what a run read is still so
  when it writes, and every configuration entry has its credential.
  `ReportInv`: what the doctor has seen listed is listed still, and was stored when
  it read the secrets, because init writes the secret first and the doctor reads
  it last; and a file that it could read is readable unless it is in `renewed`.
- *Socket.* `ServeInv`: under systemd nothing opens or closes the socket, so that a
  command can only be cut off by the end of the daemon whose handler has it; of
  daemons that bind the path, the one that has had no rival has it to itself.

Only model-checked: liveness (`RequestsFinish`, `RetryRecovers`, `ProbesEnd`,
`QueueServed`), which rests on fairness and is beyond the prover. Every other
property of the passing runs is a theorem.

## 5. Not modelled

- The systemd templates and the layout (`internal/systemd`, `internal/layout`):
  constants and text. What the socket unit means is `Activate` in `Serve`.
- The mail fake (`internal/mailfake`): a test double that no binary links. The
  servers of `FolderRefresh` and `Probe` stand in for the real one.
- Header and envelope fetches of the live adapter: at this commit `FetchHeaders`
  and `FetchEnvelopes` return `ErrSourceUnavailable` (adapter.go:151-157).
  `FolderRefresh` has what the port promises of them and what the fake does.
- The full-text index, which the transactions that write a message also write, and
  `DeleteAll` and seeding, which no refresh calls.
- Parsing and formatting: TOML, JSON, IMAP responses, MIME, flags and exit codes of
  the command line, the wording of checks and warnings. `ParseTTL` multiplies
  without a check for overflow; the models take its result.
- Two daemons over one state directory: the mutex of a folder is of the process.
  Under systemd there is one daemon; `Serve` shows when there can be two.
- A server that expunges without raising HIGHESTMODSEQ, and a configuration whose
  `password_ref` was edited by hand.

## 6. Plan

Done: `FolderRefresh`, `RefreshRequest`, `ReadPage`, `Bootstrap`, `Doctor`, `Probe`,
`Serve`, `FolderMirror` and the refinement, and the theorems above.

Left, in this order:

1. weaker hypotheses than `PolicyRule` for the fast path: which edits of a policy
   are harmless under which requests;
2. two operators of `init`, once the code has a lock to model;
3. the cache's index beside `messages`, when a handler depends on the two agreeing.
