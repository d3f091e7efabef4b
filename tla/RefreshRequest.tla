--------------------------- MODULE RefreshRequest ---------------------------
(***************************************************************************)
(* A read request of the daemon: the refresh of every configured folder    *)
(* (Refresh, internal/refresh/refresh.go), which goes on when a folder     *)
(* fails, and the status, warnings and time of refresh of its answer       *)
(* (readEnvelopeForScope and its neighbours, internal/daemon/daemon.go).   *)
(*                                                                         *)
(* A folder's cycle is one step here: FolderRefresh has its inside.  Of    *)
(* the cache only last_successful_refresh_at is kept; whether the answer   *)
(* has rows is left open.                                                  *)
(***************************************************************************)
EXTENDS Integers, Sequences, FiniteSets

CONSTANTS
    Request,    \* the requests that may be in flight together
    Folders,    \* the configured folders, as [account, folder], in order
    All,        \* the filter that was left empty
    Filter,     \* what readers of list and search ask for
    Source,     \* whether the daemon has a mail source to refresh from
    MaxTime     \* bound on the clock

Configured == {Folders[i] : i \in 1..Len(Folders)}

ASSUME FoldersAssumption ==
    /\ Folders \in Seq(Configured) /\ Folders # <<>>
    /\ \A i, j \in 1..Len(Folders) : Folders[i] = Folders[j] => i = j
    /\ \A f \in Configured : /\ f = [account |-> f.account, folder |-> f.folder]
                             /\ f.account \notin {"", All} /\ f.folder # All

ASSUME OtherAssumption == Source \subseteq BOOLEAN /\ MaxTime \in Nat

VARIABLES
    success,    \* last_successful_refresh_at of a folder, 0 for none
    clock,
    pc, job,    \* the goroutines
    answer,     \* the answer the last step has sent, if it sent one
    times       \* history: when each folder was ever refreshed

vars == <<success, clock, pc, job, answer, times>>

-----------------------------------------------------------------------------
(* Data *)

\* The warning of a missing source names no account.
NoFolder == [account |-> "", folder |-> ""]

\* A folder that failed, with its last success as the cache had it then.
Warning == [of: Configured \cup {NoFolder}, last: Nat]

\* refresh.Result.  Partial is set with the first warning.
Result == [attempted: BOOLEAN, remoteOK: BOOLEAN, time: Nat,
           warnings: SUBSET Warning]

Job == [now: Nat, todo: Seq(Configured), warnings: SUBSET Warning,
        refreshed: SUBSET Configured]

NoJob == [now |-> 0, todo |-> <<>>, warnings |-> {}, refreshed |-> {}]

\* What the client gets; the last three are history: the configured folders it
\* asked about, those this request has refreshed, and whether the message asked
\* for is in the cache but not for this reader.
Answer == [status: {"none", "ok", "ok_stale", "error", "not_found", "internal"},
           remoteOK: BOOLEAN, time: Nat, warnings: SUBSET Warning,
           about: SUBSET Configured, refreshed: SUBSET Configured,
           hidden: BOOLEAN]

NoAnswer == [status |-> "none", remoteOK |-> FALSE, time |-> 0,
             warnings |-> {}, about |-> {}, refreshed |-> {},
             hidden |-> FALSE]

MaxOf(S) == CHOOSE t \in S \cup {0} : \A u \in S : u <= t

LatestRefreshAt == MaxOf({success[f] : f \in Configured})

Matches(filter, f) == /\ filter.account \in {All, f.account}
                      /\ filter.folder \in {All, f.folder}

Affects(w, filter) == w.of = NoFolder \/ Matches(filter, w.of)

\* Mutant: a thread is warned of what failed for all of its messages.
WarningsFor_EveryMessage(res, filters) ==
    {w \in res.warnings : \A filter \in filters : Affects(w, filter)}

\* warningsForScope, of one filter, and warningsForMessages, of the folders of
\* the messages returned.
WarningsFor(res, filters) ==
    {w \in res.warnings : \E filter \in filters : Affects(w, filter)}

\* Data is stale, and its absence an error, after any failed refresh.
ReadStatus(attempted, remoteOK, partial, found) ==
    IF ~partial /\ (~attempted \/ remoteOK) THEN "ok"
    ELSE IF found THEN "ok_stale" ELSE "error"

\* Mutant: the time of the request, whichever folder failed.
ScopedTime_OfRequest(res, warnings) == res.time

\* scopedRefreshMeta.
ScopedTime(res, warnings) ==
    IF Cardinality(warnings) = 1 THEN (CHOOSE w \in warnings : TRUE).last
                                 ELSE res.time

\* Mutant: any failure makes the answer stale.
ReadEnvelope_Unscoped(res, warnings, found) ==
    [status |-> ReadStatus(res.attempted, res.remoteOK, res.warnings # {}, found),
     remoteOK |-> res.remoteOK,
     time |-> ScopedTime(res, warnings),
     warnings |-> warnings]

\* readEnvelopeForScope and readEnvelopeForMessages, given the warnings that
\* are in scope: failures elsewhere do not show.
ReadEnvelope(res, warnings, found) ==
    LET elsewhere == res.warnings # {} /\ warnings = {}
        partial   == res.warnings # {} /\ ~elsewhere
        remoteOK  == res.remoteOK \/ elsewhere
    IN [status   |-> ReadStatus(res.attempted, remoteOK, partial, found),
        remoteOK |-> remoteOK,
        time     |-> IF elsewhere THEN res.time ELSE ScopedTime(res, warnings),
        warnings |-> warnings]

-----------------------------------------------------------------------------
(* The world *)

Tick ==
    /\ clock < MaxTime
    /\ clock' = clock + 1
    /\ answer' = NoAnswer
    /\ UNCHANGED <<success, pc, job, times>>

\* A purge that empties a folder removes its state, beside any request.
CleanupExpired(f) ==
    /\ success' = [success EXCEPT ![f] = 0]
    /\ answer' = NoAnswer
    /\ UNCHANGED <<clock, pc, job, times>>

-----------------------------------------------------------------------------
(* Refresh *)

Go(r, j, phase) ==
    /\ job' = [job EXCEPT ![r] = j]
    /\ pc' = [pc EXCEPT ![r] = phase]

Start(r) ==
    /\ pc[r] = "idle"
    /\ \E source \in Source :
         LET j == [NoJob EXCEPT !.now = clock]
         IN IF source THEN Go(r, [j EXCEPT !.todo = Folders], "refresh")
                      ELSE Go(r, j, "sourceless")
    /\ answer' = NoAnswer
    /\ UNCHANGED <<success, clock, times>>

Next_folder(r, j) == Go(r, j, IF j.todo = <<>> THEN "read" ELSE "refresh")

\* refreshFolder succeeds: its last statement records `now`.
RefreshFolder(r) ==
    /\ pc[r] = "refresh"
    /\ LET f == Head(job[r].todo)
           t == job[r].now
       IN /\ success' = [success EXCEPT ![f] = t]
          /\ times' = [times EXCEPT ![f] = @ \cup {t}]
          /\ Next_folder(r, [job[r] EXCEPT !.todo = Tail(@),
                                           !.refreshed = @ \cup {f}])
    /\ answer' = NoAnswer
    /\ UNCHANGED clock

\* A remote error: a warning, and on to the next folder.  The cycle may have
\* invalidated the folder before it failed.
FailFolder(r) ==
    /\ pc[r] = "refresh"
    /\ LET f == Head(job[r].todo)
       IN /\ \/ UNCHANGED success
             \/ success' = [success EXCEPT ![f] = 0]
          /\ Next_folder(r, [job[r] EXCEPT !.todo = Tail(@),
                   !.warnings = @ \cup {[of |-> f, last |-> success'[f]]}])
    /\ answer' = NoAnswer
    /\ UNCHANGED <<clock, times>>

\* A local error, in the refresh or in reading the cache: no answer is made
\* from a cache that cannot be trusted.
FailLocally(r) ==
    /\ pc[r] # "idle"
    /\ answer' = [NoAnswer EXCEPT !.status = "internal"]
    /\ Go(r, NoJob, "idle")
    /\ UNCHANGED <<success, clock, times>>

-----------------------------------------------------------------------------
(* The answer *)

\* What Refresh returns, or refreshAndLoadConfig without a source.
ResultOf(r) ==
    LET j == job[r]
    IN IF pc[r] = "sourceless"
       THEN [attempted |-> FALSE, remoteOK |-> FALSE, time |-> LatestRefreshAt,
             warnings |-> {[of |-> NoFolder, last |-> 0]}]
       ELSE [attempted |-> TRUE,
             remoteOK |-> j.refreshed # {} /\ j.warnings = {},
             time |-> IF j.refreshed # {} THEN j.now ELSE LatestRefreshAt,
             warnings |-> j.warnings]

Respond(r, envelope, about) ==
    /\ answer' = [status |-> envelope.status, remoteOK |-> envelope.remoteOK,
                  time |-> envelope.time, warnings |-> envelope.warnings,
                  about |-> about, refreshed |-> job[r].refreshed,
                  hidden |-> FALSE]
    /\ Go(r, NoJob, "idle")
    /\ UNCHANGED <<success, clock, times>>

Ready(r) == pc[r] \in {"read", "sourceless"}

\* handleList, handleSearch: the visible rows of the filter, maybe none.
List(r) ==
    /\ Ready(r)
    /\ \E filter \in Filter :
         LET res   == ResultOf(r)
             about == {f \in Configured : Matches(filter, f)}
         IN \E found \in IF about = {} THEN {FALSE} ELSE BOOLEAN :
              Respond(r, ReadEnvelope(res, WarningsFor(res, {filter}), found), about)

\* handleShow, handleThread and handleContext with a visible seed: the folders
\* of the messages returned, all of one account.
ShowMessages(r) ==
    /\ Ready(r)
    /\ \E about \in SUBSET Configured :
         LET res == ResultOf(r)
         IN /\ about # {}
            /\ \A f, g \in about : f.account = g.account
            /\ Respond(r, ReadEnvelope(res, WarningsFor(res, about), TRUE), about)

\* Mutant: a message that is not in the cache does not exist.
ShowMiss_NotFound(r) ==
    /\ Ready(r)
    /\ LET res == ResultOf(r)
       IN Respond(r, [status |-> "not_found", remoteOK |-> res.remoteOK,
                      time |-> res.time, warnings |-> {}], Configured)

\* The same handlers without the seed in the cache: writeRefreshMiss, or 404.
ShowMiss(r) ==
    /\ Ready(r)
    /\ LET res    == ResultOf(r)
           status == ReadStatus(res.attempted, res.remoteOK,
                                res.warnings # {}, FALSE)
       IN Respond(r,
            [status |-> IF status = "error" THEN "error" ELSE "not_found",
             remoteOK |-> res.remoteOK, time |-> res.time,
             warnings |-> IF status = "error" THEN res.warnings ELSE {}],
            Configured)

\* A seed in the cache that the policy hides, or whose account is configured no
\* more: 404, whatever became of the refresh.
ShowHidden(r) ==
    /\ Ready(r)
    /\ answer' = [NoAnswer EXCEPT !.status = "not_found", !.hidden = TRUE]
    /\ Go(r, NoJob, "idle")
    /\ UNCHANGED <<success, clock, times>>

-----------------------------------------------------------------------------
(* The specification *)

Init ==
    /\ success = [f \in Configured |-> 0]
    /\ clock = 1
    /\ pc = [r \in Request |-> "idle"]
    /\ job = [r \in Request |-> NoJob]
    /\ answer = NoAnswer
    /\ times = [f \in Configured |-> {}]

Next ==
    \/ Tick
    \/ \E f \in Configured : CleanupExpired(f)
    \/ \E r \in Request :
         \/ Start(r) \/ RefreshFolder(r) \/ FailFolder(r) \/ FailLocally(r)
         \/ List(r) \/ ShowMessages(r) \/ ShowMiss(r) \/ ShowHidden(r)

Spec == Init /\ [][Next]_vars

-----------------------------------------------------------------------------
(* Correctness *)

\* The types of the goroutines' state and of the answers they send.
TypeOK ==
    /\ success \in [Configured -> Nat]
    /\ clock \in Nat
    /\ pc \in [Request -> {"idle", "refresh", "read", "sourceless"}]
    /\ job \in [Request -> Job]
    /\ answer \in Answer
    /\ times \in [Configured -> SUBSET Nat]

\* An answer without a caveat is about folders this very request refreshed,
\* however the filter, the messages and the failures lie to each other.
OkMeansRefreshed ==
    answer.status = "ok" => /\ answer.about \subseteq answer.refreshed
                            /\ answer.remoteOK /\ answer.warnings = {}

\* A message that the cache does not have is said not to exist only if this
\* request has refreshed every folder.  (One that it has and may not show is said
\* not to exist whatever failed: ShowHidden.)
NotFoundIsCertain ==
    answer.status = "not_found" /\ ~answer.hidden
        => answer.refreshed = Configured

\* Failures of other folders do not spoil the answer of a list, a search or a
\* thread whose own folders are all fresh.
Caveat == answer.status \in {"ok_stale", "error"}

FailuresStayLocal ==
    Caveat => /\ answer.warnings # {}
              /\ answer.about = {} \/ ~(answer.about \subseteq answer.refreshed)

\* The time given with a caveat is one at which a folder of the answer was
\* refreshed; 0 claims nothing.
TimeIsOfScope ==
    answer.time # 0 => \E f \in answer.about : answer.time \in times[f]

\* It is, as long as one folder only has failed.
OneFailureTime ==
    Caveat /\ Cardinality(answer.warnings) = 1 => TimeIsOfScope

-----------------------------------------------------------------------------
(* The inductive invariants behind the ones above *)

StateOK == /\ success \in [Configured -> Nat]
           /\ clock \in Nat
           /\ pc \in [Request -> {"idle", "refresh", "read", "sourceless"}]
           /\ job \in [Request -> Job]

\* A request owes every configured folder a refresh or a warning, never both.
Accounted(j) ==
    /\ \A f \in Configured : \/ f \in j.refreshed
                             \/ \E w \in j.warnings : w.of = f
                             \/ \E i \in 1..Len(j.todo) : j.todo[i] = f
    /\ \A w \in j.warnings : w.of \in Configured \ j.refreshed
    /\ \A i \in 1..Len(j.todo) :
          /\ j.todo[i] \notin j.refreshed
          /\ \A w \in j.warnings : w.of # j.todo[i]
          /\ \A k \in 1..Len(j.todo) : j.todo[i] = j.todo[k] => i = k

RequestInv ==
    /\ StateOK
    /\ \A r \in Request :
          /\ pc[r] \in {"refresh", "read"} => Accounted(job[r])
          /\ pc[r] = "refresh" => job[r].todo # <<>>
          /\ pc[r] = "read" => job[r].todo = <<>>
          /\ pc[r] = "sourceless" => job[r].refreshed = {}

\* Every time a request holds is 0, or one at which the folder it stands for was
\* refreshed; none is of the future.
TimesInv ==
    /\ times \in [Configured -> SUBSET Nat]
    /\ \A f \in Configured :
          /\ success[f] <= clock
          /\ success[f] = 0 \/ success[f] \in times[f]
    /\ \A r \in Request :
          /\ job[r].now <= clock
          /\ \A f \in job[r].refreshed : job[r].now \in times[f]
          /\ \A w \in job[r].warnings :
                w.last # 0 => w.of \in Configured /\ w.last \in times[w.of]

=============================================================================
