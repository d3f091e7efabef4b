------------------------ MODULE RefreshRequestProofs ------------------------
(***************************************************************************)
(* Theorems about RefreshRequest, for any folders, filters and requests:   *)
(* what the status and the time of an answer say of the folders it is      *)
(* about.                                                                  *)
(***************************************************************************)
EXTENDS RefreshRequest, TLAPS, WellFoundedInduction

-----------------------------------------------------------------------------
(* The loop over the folders *)

\* The place and the locals of the request that takes a step.
LEMMA GoType ==
    ASSUME StateOK, NEW r \in Request, NEW j \in Job,
           NEW phase \in {"idle", "refresh", "read", "sourceless"},
           Go(r, j, phase)
    PROVE  /\ pc' \in [Request -> {"idle", "refresh", "read", "sourceless"}]
           /\ job' \in [Request -> Job]
           /\ pc'[r] = phase /\ job'[r] = j
           /\ \A s \in Request \ {r} : pc'[s] = pc[s] /\ job'[s] = job[s]
BY DEF Go, StateOK

LEMMA NoJobType == NoJob \in Job
BY DEF NoJob, Job

\* There is a folder, and none without an account.
LEMMA SomeFolder ==
    /\ Folders \in Seq(Configured) /\ Folders # <<>>
    /\ Len(Folders) \in Nat /\ 1 \in 1..Len(Folders)
    /\ Folders[1] \in Configured
    /\ NoFolder \notin Configured
    /\ \A f, g \in Configured : Matches(f, g) => f = g
<1>1. Folders \in Seq(Configured) /\ Folders # <<>>
  BY FoldersAssumption
<1>2. Len(Folders) \in Nat /\ 1 \in 1..Len(Folders) /\ Folders[1] \in Configured
  BY <1>1
<1>3. \A f \in Configured : f.account # ""
  BY FoldersAssumption
<1>4. NoFolder.account = ""
  BY DEF NoFolder
<1>5. ASSUME NEW f \in Configured, NEW g \in Configured, Matches(f, g)
      PROVE  f = g
  <2>1. f.account = g.account /\ f.folder = g.folder
    BY <1>5, FoldersAssumption DEF Matches
  <2>2. /\ f = [account |-> f.account, folder |-> f.folder]
        /\ g = [account |-> g.account, folder |-> g.folder]
    BY FoldersAssumption
  <2>3. QED
    BY <2>1, <2>2
<1>6. QED
  BY <1>1, <1>2, <1>3, <1>4, <1>5

\* A request that has begun owes every folder.
LEMMA AllOwed ==
    ASSUME NEW j \in Job, j.todo = Folders, j.warnings = {}, j.refreshed = {}
    PROVE  Accounted(j)
BY FoldersAssumption DEF Accounted, Configured

\* The folder at the head is settled, one way or the other; the rest is owed.
LEMMA HeadSettled ==
    ASSUME NEW j \in Job, Accounted(j), j.todo # <<>>,
           NEW k \in Job, k.todo = Tail(j.todo),
           NEW f, f = Head(j.todo), NEW w, w.of = f,
           \/ k.refreshed = j.refreshed \cup {f} /\ k.warnings = j.warnings
           \/ k.refreshed = j.refreshed /\ k.warnings = j.warnings \cup {w}
    PROVE  Accounted(k)
<1>1. j.todo \in Seq(Configured)
  BY DEF Job
<1>2. /\ Len(j.todo) \in Nat /\ Len(j.todo) > 0
      /\ f = j.todo[1] /\ f \in Configured
      /\ Len(k.todo) = Len(j.todo) - 1
      /\ \A i \in 1..Len(k.todo) : /\ k.todo[i] = j.todo[i + 1]
                                   /\ i + 1 \in 1..Len(j.todo)
  BY <1>1
<1>3. \A i \in 1..Len(k.todo) : k.todo[i] # f
  BY <1>2 DEF Accounted
<1>4. \A g \in Configured : \/ g \in k.refreshed
                            \/ \E v \in k.warnings : v.of = g
                            \/ \E i \in 1..Len(k.todo) : k.todo[i] = g
  <2> SUFFICES ASSUME NEW g \in Configured, g \notin k.refreshed,
                      ~ \E v \in k.warnings : v.of = g
               PROVE  \E i \in 1..Len(k.todo) : k.todo[i] = g
    OBVIOUS
  <2>1. g # f
    OBVIOUS
  <2>2. PICK i \in 1..Len(j.todo) : j.todo[i] = g
    BY DEF Accounted
  <2>3. i # 1 /\ i - 1 \in 1..Len(k.todo)
    BY <1>2, <2>1, <2>2
  <2>4. k.todo[i - 1] = j.todo[(i - 1) + 1]
    BY <1>2, <2>3
  <2>5. k.todo[i - 1] = g
    BY <2>2, <2>3, <2>4
  <2>6. QED
    BY <2>3, <2>5
<1>5. \A v \in k.warnings : v.of \in Configured \ k.refreshed
  BY <1>2 DEF Accounted
<1>6. \A i \in 1..Len(k.todo) :
        /\ k.todo[i] \notin k.refreshed
        /\ \A v \in k.warnings : v.of # k.todo[i]
        /\ \A l \in 1..Len(k.todo) : k.todo[i] = k.todo[l] => i = l
  <2> TAKE i \in 1..Len(k.todo)
  <2>1. k.todo[i] = j.todo[i + 1] /\ i + 1 \in 1..Len(j.todo) /\ k.todo[i] # f
    BY <1>2, <1>3
  <2>2. k.todo[i] \notin k.refreshed
    BY <2>1 DEF Accounted
  <2>3. \A v \in k.warnings : v.of # k.todo[i]
    BY <2>1 DEF Accounted
  <2>4. ASSUME NEW l \in 1..Len(k.todo), k.todo[i] = k.todo[l]
        PROVE  i = l
    <3>1. k.todo[l] = j.todo[l + 1] /\ l + 1 \in 1..Len(j.todo)
      BY <1>2
    <3>2. i + 1 = l + 1
      BY <2>1, <2>4, <3>1 DEF Accounted
    <3>3. QED
      BY <3>2
  <2>5. QED
    BY <2>2, <2>3, <2>4
<1>7. QED
  BY <1>4, <1>5, <1>6 DEF Accounted

\* The invariant of one request carries over to the others.
LEMMA OneRequest ==
    ASSUME RequestInv, NEW r \in Request, StateOK',
           \A s \in Request \ {r} : pc'[s] = pc[s] /\ job'[s] = job[s],
           /\ pc'[r] \in {"refresh", "read"} => Accounted(job'[r])
           /\ pc'[r] = "refresh" => job'[r].todo # <<>>
           /\ pc'[r] = "read" => job'[r].todo = <<>>
           /\ pc'[r] = "sourceless" => job'[r].refreshed = {}
    PROVE  RequestInv'
BY DEF RequestInv, Accounted

LEMMA StartInv ==
    ASSUME RequestInv, NEW r \in Request, Start(r)
    PROVE  RequestInv'
<1> DEFINE j == [NoJob EXCEPT !.now = clock]
           all == [j EXCEPT !.todo = Folders]
<1>1. /\ j \in Job /\ j.refreshed = {}
      /\ all \in Job /\ all.todo = Folders /\ all.warnings = {}
      /\ all.refreshed = {}
  <2>1. clock \in Nat
    BY DEF RequestInv, StateOK
  <2>2. j \in Job /\ j.warnings = {} /\ j.refreshed = {}
    BY <2>1, NoJobType DEF Job, NoJob
  <2>3. /\ all \in Job /\ all.todo = Folders
        /\ all.warnings = {} /\ all.refreshed = {}
    <3> HIDE DEF j
    <3>1. Folders \in Seq(Configured)
      BY SomeFolder
    <3>2. all \in Job
      BY <2>2, <3>1 DEF Job
    <3>3. all.todo = Folders
      BY <2>2 DEF Job
    <3>4. all.warnings = {} /\ all.refreshed = {}
      BY <2>2 DEF Job
    <3> QED BY <3>2, <3>3, <3>4
  <2>4. QED
    BY <2>2, <2>3
<1>2. Go(r, all, "refresh") \/ Go(r, j, "sourceless")
  BY DEF Start
<1>3. StateOK /\ success' = success /\ clock' = clock
  BY DEF RequestInv, Start
<1>4. Accounted(all)
  <2> HIDE DEF j, all
  <2> QED BY <1>1, AllOwed
<1> HIDE DEF j, all
<1>5. CASE Go(r, all, "refresh")
  <2>1. StateOK' /\ pc'[r] = "refresh" /\ job'[r] = all
        /\ \A s \in Request \ {r} : pc'[s] = pc[s] /\ job'[s] = job[s]
    BY <1>1, <1>3, <1>5, GoType DEF StateOK
  <2>2. QED
    BY <1>1, <1>4, <2>1, OneRequest, SomeFolder
<1>6. CASE Go(r, j, "sourceless")
  <2>1. StateOK' /\ pc'[r] = "sourceless" /\ job'[r] = j
        /\ \A s \in Request \ {r} : pc'[s] = pc[s] /\ job'[s] = job[s]
    BY <1>1, <1>3, <1>6, GoType DEF StateOK
  <2>2. QED
    BY <1>1, <2>1, OneRequest
<1>7. QED
  BY <1>2, <1>5, <1>6

\* An iteration of the loop, however it ended.
LEMMA FolderInv ==
    ASSUME RequestInv, NEW r \in Request, RefreshFolder(r) \/ FailFolder(r)
    PROVE  RequestInv'
<1> DEFINE f == Head(job[r].todo)
           w == [of |-> f, last |-> success'[f]]
           fresh == [job[r] EXCEPT !.todo = Tail(@), !.refreshed = @ \cup {f}]
           failed == [job[r] EXCEPT !.todo = Tail(@), !.warnings = @ \cup {w}]
<1>1. /\ StateOK /\ job[r] \in Job /\ pc[r] = "refresh"
      /\ job[r].todo # <<>> /\ Accounted(job[r])
  BY DEF RequestInv, StateOK, RefreshFolder, FailFolder
<1>2. f \in Configured /\ Tail(job[r].todo) \in Seq(Configured)
  BY <1>1 DEF Job
<1>3. success' \in [Configured -> Nat] /\ clock' = clock
  BY <1>1, <1>2 DEF RefreshFolder, FailFolder, StateOK, Job
<1>4. PICK k \in {fresh, failed} : Next_folder(r, k)
  BY DEF RefreshFolder, FailFolder
<1>5. w \in Warning
  BY <1>2, <1>3 DEF Warning
<1>6. /\ k \in Job /\ k.todo = Tail(job[r].todo)
      /\ \/ k.refreshed = job[r].refreshed \cup {f} /\ k.warnings = job[r].warnings
         \/ k.refreshed = job[r].refreshed /\ k.warnings = job[r].warnings \cup {w}
  <2> HIDE DEF f, w
  <2>1. job[r].warnings \cup {w} \in SUBSET Warning
    BY <1>1, <1>5 DEF Job
  <2>2. job[r].refreshed \cup {f} \in SUBSET Configured
    BY <1>1, <1>2 DEF Job
  <2>3. CASE k = fresh
    BY <1>1, <1>2, <2>2, <2>3 DEF Job
  <2>4. CASE k = failed
    BY <1>1, <1>2, <2>1, <2>4 DEF Job
  <2> QED BY <2>3, <2>4
<1>7. w.of = f /\ f = Head(job[r].todo)
  OBVIOUS
<1>8. Accounted(k)
  <2> HIDE DEF w, f
  <2> QED BY <1>1, <1>6, <1>7, HeadSettled
<1> DEFINE phase == IF k.todo = <<>> THEN "read" ELSE "refresh"
<1>9. Go(r, k, phase) /\ phase \in {"idle", "refresh", "read", "sourceless"}
  BY <1>4 DEF Next_folder
<1> HIDE DEF fresh, failed, phase
<1>10. StateOK' /\ pc'[r] = phase /\ job'[r] = k
       /\ \A s \in Request \ {r} : pc'[s] = pc[s] /\ job'[s] = job[s]
  BY <1>1, <1>3, <1>6, <1>9, GoType DEF StateOK
<1>11. QED
  BY <1>8, <1>10, OneRequest DEF phase, Accounted

\* A request that has ended owes nothing.
LEMMA EndInv ==
    ASSUME RequestInv, NEW r \in Request, Go(r, NoJob, "idle"),
           success' = success, clock' = clock
    PROVE  RequestInv'
<1>1. StateOK
  BY DEF RequestInv
<1>2. StateOK' /\ pc'[r] = "idle"
      /\ \A s \in Request \ {r} : pc'[s] = pc[s] /\ job'[s] = job[s]
  BY <1>1, GoType, NoJobType DEF StateOK
<1>3. QED
  BY <1>2, OneRequest

LEMMA StepInv == RequestInv /\ [Next]_vars => RequestInv'
<1> SUFFICES ASSUME RequestInv, [Next]_vars PROVE RequestInv'
  OBVIOUS
<1>1. CASE Tick
  BY <1>1 DEF Tick, RequestInv, StateOK, Accounted
<1>2. ASSUME NEW f \in Configured, CleanupExpired(f) PROVE RequestInv'
  <2>1. success' \in [Configured -> Nat]
    BY <1>2 DEF CleanupExpired, RequestInv, StateOK
  <2>2. QED
    BY <1>2, <2>1 DEF CleanupExpired, RequestInv, StateOK, Accounted
<1>3. ASSUME NEW r \in Request, Start(r) PROVE RequestInv'
  BY <1>3, StartInv
<1>4. ASSUME NEW r \in Request, RefreshFolder(r) \/ FailFolder(r)
      PROVE  RequestInv'
  BY <1>4, FolderInv
<1>5. ASSUME NEW r \in Request,
             FailLocally(r) \/ ShowHidden(r) \/ List(r) \/ ShowMessages(r)
               \/ ShowMiss(r)
      PROVE  RequestInv'
  <2>1. Go(r, NoJob, "idle") /\ success' = success /\ clock' = clock
    BY <1>5 DEF FailLocally, ShowHidden, List, ShowMessages, ShowMiss, Respond
  <2>2. QED
    BY <2>1, EndInv
<1>6. CASE UNCHANGED vars
  BY <1>6 DEF vars, RequestInv, StateOK, Accounted
<1>7. QED
  BY <1>1, <1>2, <1>3, <1>4, <1>5, <1>6 DEF Next

LEMMA RequestInvariant == Spec => []RequestInv
<1>1. Init => RequestInv
  <2> SUFFICES ASSUME Init PROVE RequestInv
    OBVIOUS
  <2>1. StateOK
    BY NoJobType DEF Init, StateOK
  <2>2. QED
    BY <2>1 DEF Init, RequestInv
<1>2. QED
  BY <1>1, StepInv, PTL DEF Spec

-----------------------------------------------------------------------------
(* The answers *)

\* A result warns of every folder that was not refreshed, and of no other one.
Honest(res, refreshed) ==
    /\ res.warnings = {} => res.remoteOK
    /\ res.warnings # {} => ~res.remoteOK
    /\ ~res.attempted => res.warnings # {}
    /\ refreshed \subseteq Configured
    /\ \A w \in res.warnings : \/ w.of = NoFolder /\ refreshed = {}
                               \/ w.of \in Configured \ refreshed
    /\ \A f \in Configured : \/ f \in refreshed
                             \/ \E w \in res.warnings : w.of \in {f, NoFolder}

LEMMA ResultHonest ==
    ASSUME RequestInv, NEW r \in Request, Ready(r)
    PROVE  Honest(ResultOf(r), job[r].refreshed)
<1>1. job[r] \in Job /\ job[r].refreshed \subseteq Configured
  BY DEF RequestInv, StateOK, Job
<1>2. CASE pc[r] = "sourceless"
  <2>1. job[r].refreshed = {}
    BY <1>2 DEF RequestInv
  <2> DEFINE none == [of |-> NoFolder, last |-> 0]
  <2>2. /\ ResultOf(r).warnings = {none} /\ none.of = NoFolder
        /\ ~ResultOf(r).attempted /\ ~ResultOf(r).remoteOK
    BY <1>2 DEF ResultOf
  <2> HIDE DEF none
  <2>3. QED
    BY <2>1, <2>2 DEF Honest
<1>3. CASE pc[r] = "read"
  <2>1. Accounted(job[r]) /\ job[r].todo = <<>>
    BY <1>3 DEF RequestInv
  <2>2. \A f \in Configured : \/ f \in job[r].refreshed
                              \/ \E w \in job[r].warnings : w.of = f
    BY <2>1 DEF Accounted
  <2>3. Folders[1] \in Configured
    BY SomeFolder
  <2>4. job[r].warnings = {} => job[r].refreshed # {}
    BY <2>2, <2>3
  <2>5. /\ ResultOf(r).warnings = job[r].warnings /\ ResultOf(r).attempted
        /\ ResultOf(r).remoteOK
             = (job[r].refreshed # {} /\ job[r].warnings = {})
    BY <1>3 DEF ResultOf
  <2>6. \A w \in job[r].warnings : w.of \in Configured \ job[r].refreshed
    BY <2>1 DEF Accounted
  <2>7. QED
    BY <1>1, <2>2, <2>4, <2>5, <2>6 DEF Honest
<1>4. QED
  BY <1>2, <1>3 DEF Ready

\* The status says whether a warning is in scope, and nothing else.
LEMMA EnvelopeStatus ==
    ASSUME NEW res, NEW refreshed, Honest(res, refreshed),
           NEW warnings \in SUBSET res.warnings, NEW found
    PROVE  LET e == ReadEnvelope(res, warnings, found)
           IN /\ e.warnings = warnings
              /\ e.status \in {"ok", "ok_stale", "error"}
              /\ e.status = "ok" => warnings = {} /\ e.remoteOK
              /\ e.status # "ok" => warnings # {}
BY DEF ReadEnvelope, ReadStatus, Honest

Truthful == OkMeansRefreshed /\ NotFoundIsCertain /\ FailuresStayLocal

\* What makes an answer truthful, whichever handler sends it.
LEMMA AnswerTruthful ==
    ASSUME answer'.status \in {"ok", "ok_stale", "error"},
           answer'.status = "ok" =>
               /\ answer'.warnings = {} /\ answer'.remoteOK
               /\ answer'.about \subseteq answer'.refreshed,
           answer'.status # "ok" =>
               /\ answer'.warnings # {}
               /\ answer'.about = {} \/ ~(answer'.about \subseteq answer'.refreshed)
    PROVE  Truthful'
BY DEF Truthful, OkMeansRefreshed, NotFoundIsCertain, FailuresStayLocal, Caveat

\* Warnings selected by filters settle the folders the filters match.
LEMMA ScopeSettled ==
    ASSUME NEW res, NEW refreshed, Honest(res, refreshed), NEW filters,
           NEW about \in SUBSET Configured,
           \A f \in about : \E filter \in filters : Matches(filter, f),
           \A f \in Configured, filter \in filters : Matches(filter, f) => f \in about
    PROVE  LET ws == WarningsFor(res, filters)
           IN /\ ws \subseteq res.warnings
              /\ ws = {} => about \subseteq refreshed
              /\ ws # {} => about = {} \/ ~(about \subseteq refreshed)
<1> DEFINE ws == WarningsFor(res, filters)
<1>1. ws \subseteq res.warnings
  BY DEF WarningsFor
<1>2. ASSUME ws = {}, NEW f \in about PROVE f \in refreshed
  <2>1. PICK filter \in filters : Matches(filter, f)
    OBVIOUS
  <2>2. \A w \in res.warnings : w.of \notin {f, NoFolder}
    BY <1>2, <2>1 DEF WarningsFor, Affects
  <2>3. QED
    BY <2>2 DEF Honest
<1>3. ASSUME ws # {}, about # {} PROVE ~(about \subseteq refreshed)
  <2>1. PICK w \in res.warnings : \E filter \in filters : Affects(w, filter)
    BY <1>3 DEF WarningsFor
  <2>2. CASE refreshed = {}
    BY <1>3, <2>2
  <2>3. CASE refreshed # {}
    <3>1. w.of \in Configured \ refreshed
      BY <2>1, <2>3 DEF Honest
    <3>2. w.of # NoFolder
      BY <3>1, SomeFolder
    <3>3. QED
      BY <2>1, <3>1, <3>2 DEF Affects
  <2>4. QED
    BY <2>2, <2>3
<1>4. QED
  BY <1>1, <1>2, <1>3

LEMMA ListTruthful ==
    ASSUME RequestInv, NEW r \in Request, List(r)
    PROVE  Truthful'
<1>1. PICK filter \in Filter :
        LET res   == ResultOf(r)
            about == {f \in Configured : Matches(filter, f)}
        IN \E found \in IF about = {} THEN {FALSE} ELSE BOOLEAN :
             Respond(r, ReadEnvelope(res, WarningsFor(res, {filter}), found), about)
  BY DEF List
<1> DEFINE res   == ResultOf(r)
           about == {f \in Configured : Matches(filter, f)}
           ws    == WarningsFor(res, {filter})
<1>2. PICK found : Respond(r, ReadEnvelope(res, ws, found), about)
  BY <1>1
<1> DEFINE e == ReadEnvelope(res, ws, found)
<1>3. Honest(res, job[r].refreshed)
  BY ResultHonest DEF List
<1>4. /\ about \in SUBSET Configured
      /\ \A f \in about : \E g \in {filter} : Matches(g, f)
      /\ \A f \in Configured, g \in {filter} : Matches(g, f) => f \in about
  OBVIOUS
<1> HIDE DEF res, about
<1>5. /\ ws \subseteq res.warnings
      /\ ws = {} => about \subseteq job[r].refreshed
      /\ ws # {} => about = {} \/ ~(about \subseteq job[r].refreshed)
  BY <1>3, <1>4, ScopeSettled
<1> HIDE DEF ws
<1>6. /\ e.warnings = ws
      /\ e.status \in {"ok", "ok_stale", "error"}
      /\ e.status = "ok" => ws = {} /\ e.remoteOK
      /\ e.status # "ok" => ws # {}
  BY <1>3, <1>5, EnvelopeStatus
<1>7. /\ answer'.status = e.status /\ answer'.remoteOK = e.remoteOK
      /\ answer'.warnings = e.warnings /\ answer'.about = about
      /\ answer'.refreshed = job[r].refreshed
  BY <1>2 DEF Respond
<1> HIDE DEF e
<1>8. QED
  BY <1>5, <1>6, <1>7, AnswerTruthful

LEMMA ShowMessagesTruthful ==
    ASSUME RequestInv, NEW r \in Request, ShowMessages(r)
    PROVE  Truthful'
<1>1. PICK about \in SUBSET Configured :
        LET res == ResultOf(r)
        IN /\ about # {}
           /\ \A f, g \in about : f.account = g.account
           /\ Respond(r, ReadEnvelope(res, WarningsFor(res, about), TRUE), about)
  BY DEF ShowMessages
<1>0. PICK found : found = TRUE
  OBVIOUS
<1> DEFINE res == ResultOf(r)
           ws  == WarningsFor(res, about)
           e   == ReadEnvelope(res, ws, found)
<1>2. Respond(r, e, about)
  BY <1>0, <1>1
<1>3. Honest(res, job[r].refreshed)
  BY ResultHonest DEF ShowMessages
<1> HIDE DEF res
<1>4. ws \subseteq res.warnings
  BY DEF WarningsFor
<1>5. ASSUME ws = {}, NEW f \in about PROVE f \in job[r].refreshed
  <2>1. \A w \in res.warnings : w.of \notin {f, NoFolder}
    BY <1>5, SomeFolder DEF WarningsFor, Affects, Matches
  <2>2. QED
    BY <2>1, <1>3 DEF Honest
<1>6. ASSUME ws # {} PROVE ~(about \subseteq job[r].refreshed)
  <2>1. PICK w \in res.warnings, f \in about : Affects(w, f)
    BY <1>6 DEF WarningsFor
  <2>2. CASE job[r].refreshed = {}
    BY <1>1, <2>2
  <2>3. CASE job[r].refreshed # {}
    <3>1. w.of \in Configured \ job[r].refreshed
      BY <1>3, <2>1, <2>3 DEF Honest
    <3>2. Matches(f, w.of)
      BY <2>1, <3>1, SomeFolder DEF Affects
    <3>3. f = w.of
      BY <3>1, <3>2, SomeFolder
    <3>4. QED
      BY <3>1, <3>3
  <2>4. QED
    BY <2>2, <2>3
<1> HIDE DEF ws
<1>7. /\ e.warnings = ws
      /\ e.status \in {"ok", "ok_stale", "error"}
      /\ e.status = "ok" => ws = {} /\ e.remoteOK
      /\ e.status # "ok" => ws # {}
  BY <1>3, <1>4, EnvelopeStatus
<1>8. /\ answer'.status = e.status /\ answer'.remoteOK = e.remoteOK
      /\ answer'.warnings = e.warnings /\ answer'.about = about
      /\ answer'.refreshed = job[r].refreshed
  BY <1>2 DEF Respond
<1> HIDE DEF e
<1>9. ws = {} => about \subseteq job[r].refreshed
  BY <1>5
<1>10. ws # {} => ~(about \subseteq job[r].refreshed)
  BY <1>6
<1>11. QED
  BY <1>7, <1>8, <1>9, <1>10, AnswerTruthful

LEMMA ShowMissTruthful ==
    ASSUME RequestInv, NEW r \in Request, ShowMiss(r)
    PROVE  Truthful'
<1> DEFINE res    == ResultOf(r)
           status == ReadStatus(res.attempted, res.remoteOK,
                                res.warnings # {}, FALSE)
           e == [status |-> IF status = "error" THEN "error" ELSE "not_found",
                 remoteOK |-> res.remoteOK, time |-> res.time,
                 warnings |-> IF status = "error" THEN res.warnings ELSE {}]
<1>1. Respond(r, e, Configured)
  BY DEF ShowMiss
<1>2. Honest(res, job[r].refreshed)
  BY ResultHonest DEF ShowMiss
<1> HIDE DEF res
<1>3. IF status = "error" THEN res.warnings # {} ELSE res.warnings = {}
  BY <1>2 DEF ReadStatus, Honest
<1>4. res.warnings = {} => job[r].refreshed = Configured
  BY <1>2 DEF Honest
<1>5. res.warnings # {} => ~(Configured \subseteq job[r].refreshed)
  <2>1. ASSUME NEW w \in res.warnings, Configured \subseteq job[r].refreshed
        PROVE  FALSE
    BY <1>2, <2>1, SomeFolder DEF Honest
  <2>2. QED
    BY <2>1
<1>6. /\ answer'.status = e.status /\ answer'.remoteOK = e.remoteOK
      /\ answer'.warnings = e.warnings /\ answer'.about = Configured
      /\ answer'.refreshed = job[r].refreshed
  BY <1>1 DEF Respond
<1>7. CASE status = "error"
  <2>1. answer'.status = "error" /\ answer'.warnings # {}
        /\ ~(answer'.about \subseteq answer'.refreshed)
    BY <1>3, <1>5, <1>6, <1>7
  <2>2. QED
    BY <2>1, AnswerTruthful
<1>8. CASE status # "error"
  <2>1. answer'.status = "not_found" /\ answer'.refreshed = Configured
    BY <1>3, <1>4, <1>6, <1>8
  <2>2. QED
    BY <2>1 DEF Truthful, OkMeansRefreshed, NotFoundIsCertain,
                FailuresStayLocal, Caveat
<1>9. QED
  BY <1>7, <1>8

LEMMA StepTruthful == RequestInv /\ Truthful /\ [Next]_vars => Truthful'
<1> SUFFICES ASSUME RequestInv, Truthful, [Next]_vars PROVE Truthful'
  OBVIOUS
<1>1. ASSUME answer'.status \in {"none", "internal"} PROVE Truthful'
  BY <1>1 DEF Truthful, OkMeansRefreshed, NotFoundIsCertain,
              FailuresStayLocal, Caveat
<1>2. CASE Tick \/ \E f \in Configured : CleanupExpired(f)
  BY <1>1, <1>2 DEF Tick, CleanupExpired, NoAnswer
<1>3. ASSUME NEW r \in Request, Start(r) \/ RefreshFolder(r) \/ FailFolder(r)
      PROVE  Truthful'
  BY <1>1, <1>3 DEF Start, RefreshFolder, FailFolder, NoAnswer
<1>4. ASSUME NEW r \in Request, FailLocally(r) PROVE Truthful'
  BY <1>1, <1>4 DEF FailLocally, NoAnswer
<1>8. ASSUME NEW r \in Request, ShowHidden(r) PROVE Truthful'
  BY <1>8 DEF ShowHidden, NoAnswer, Truthful, OkMeansRefreshed,
              NotFoundIsCertain, FailuresStayLocal, Caveat
<1>5. ASSUME NEW r \in Request, List(r) \/ ShowMessages(r) \/ ShowMiss(r)
      PROVE  Truthful'
  BY <1>5, ListTruthful, ShowMessagesTruthful, ShowMissTruthful
<1>6. CASE UNCHANGED vars
  BY <1>6 DEF vars, Truthful, OkMeansRefreshed, NotFoundIsCertain,
              FailuresStayLocal, Caveat
<1>7. QED
  BY <1>2, <1>3, <1>4, <1>5, <1>6, <1>8 DEF Next

LEMMA AnswersTruthful == Spec => []Truthful
<1>1. Init => Truthful
  BY DEF Init, NoAnswer, Truthful, OkMeansRefreshed, NotFoundIsCertain,
         FailuresStayLocal, Caveat
<1>2. QED
  BY <1>1, StepTruthful, RequestInvariant, PTL DEF Spec

\* An answer with status ok is about folders that its own request refreshed, all
\* of them, whatever the filter, the messages found and the failures are.
THEOREM OkIsFresh == Spec => []OkMeansRefreshed
<1>1. Truthful => OkMeansRefreshed
  BY DEF Truthful
<1>2. QED
  BY <1>1, AnswersTruthful, PTL

\* "Not found" is said of a message that is not in the cache only after every
\* configured folder was refreshed (writeRefreshMiss).
THEOREM NotFoundIsTrue == Spec => []NotFoundIsCertain
<1>1. Truthful => NotFoundIsCertain
  BY DEF Truthful
<1>2. QED
  BY <1>1, AnswersTruthful, PTL

\* A caveat always comes with a warning, and with a folder of the answer that
\* was not refreshed.
THEOREM CaveatIsLocal == Spec => []FailuresStayLocal
<1>1. Truthful => FailuresStayLocal
  BY DEF Truthful
<1>2. QED
  BY <1>1, AnswersTruthful, PTL

-----------------------------------------------------------------------------
(* The times *)

\* A bounded set of numbers has a greatest one: MaxOf finds it.
LEMMA MaxInSet ==
    ASSUME NEW S \in SUBSET Nat, NEW b \in Nat, \A s \in S : s <= b
    PROVE  MaxOf(S) \in S \cup {0}
<1> DEFINE Bounds == {t \in Nat : \A s \in S : s <= t}
<1>1. b \in Bounds /\ Bounds \subseteq Nat
  OBVIOUS
<1> HIDE DEF Bounds
<1>2. PICK t \in Bounds : \A y \in Bounds : ~(<<y, t>> \in OpToRel(<, Nat))
  BY <1>1, NatLessThanWellFounded, WFMin
<1>3. \A y \in Bounds : ~(y < t)
  BY <1>1, <1>2 DEF OpToRel
<1>4. t \in S \cup {0}
  <2> SUFFICES ASSUME t \notin S, t # 0 PROVE FALSE
    OBVIOUS
  <2>1. t - 1 \in Bounds
    BY <1>1 DEF Bounds
  <2>2. QED
    BY <1>1, <1>3, <2>1
<1>5. \A s \in S : s <= t
  BY DEF Bounds
<1>6. QED
  BY <1>4, <1>5 DEF MaxOf

\* What TimesInv says of one request, at a clock and with a history.
TimesOf(j, now, history) ==
    /\ j.now <= now
    /\ \A f \in j.refreshed : j.now \in history[f]
    /\ \A w \in j.warnings :
          w.last # 0 => w.of \in Configured /\ w.last \in history[w.of]

\* The history of a folder only grows, and so does the clock.
Onward ==
    /\ clock \in Nat /\ clock' \in Nat /\ clock <= clock'
    /\ times' \in [Configured -> SUBSET Nat]
    /\ \A f \in Configured : times[f] \subseteq times'[f]
    /\ \A f \in Configured : /\ success'[f] <= clock'
                             /\ success'[f] = 0 \/ success'[f] \in times'[f]

\* What was known of a request's times stays so.
LEMMA TimesKept ==
    ASSUME NEW j \in Job, TimesOf(j, clock, times), Onward
    PROVE  TimesOf(j, clock', times')
<1>1. j.now \in Nat /\ j.refreshed \subseteq Configured
  BY DEF Job
<1>2. j.now <= clock'
  BY <1>1 DEF TimesOf, Onward
<1>3. QED
  BY <1>1, <1>2 DEF TimesOf, Onward

\* The invariant, once the request that stepped is known to keep it.
LEMMA OneRequestTimes ==
    ASSUME StateOK, TimesInv, Onward, NEW r \in Request, NEW j, NEW phase,
           Go(r, j, phase), TimesOf(j, clock', times')
    PROVE  TimesInv'
<1>1. \A s \in Request : TimesOf(job'[s], clock', times')
  <2> SUFFICES ASSUME NEW s \in Request PROVE TimesOf(job'[s], clock', times')
    OBVIOUS
  <2>1. CASE s = r
    <3>1. job'[s] = j
      BY <2>1 DEF Go, StateOK
    <3>2. QED
      BY <3>1
  <2>2. CASE s # r
    <3>1. /\ job'[s] = job[s] /\ job[s] \in Job
          /\ TimesOf(job[s], clock, times)
      BY <2>2 DEF Go, StateOK, TimesInv, TimesOf
    <3>2. QED
      BY <3>1, TimesKept
  <2>3. QED
    BY <2>1, <2>2
<1>2. QED
  BY <1>1 DEF TimesInv, TimesOf, Onward

LEMMA StartTimes ==
    ASSUME StateOK, TimesInv, Onward, NEW r \in Request, Start(r)
    PROVE  TimesInv'
<1> DEFINE begun == [NoJob EXCEPT !.now = clock]
           owing == [begun EXCEPT !.todo = Folders]
<1>1. Go(r, owing, "refresh") \/ Go(r, begun, "sourceless")
  BY DEF Start
<1>2. begun.now = clock /\ begun.warnings = {} /\ begun.refreshed = {}
  BY DEF NoJob
<1>3. owing.now = clock /\ owing.warnings = {} /\ owing.refreshed = {}
  BY DEF NoJob
<1> HIDE DEF begun, owing
<1>4. PICK j, phase : /\ Go(r, j, phase) /\ j.now = clock
                      /\ j.warnings = {} /\ j.refreshed = {}
  BY <1>1, <1>2, <1>3
<1>5. TimesOf(j, clock', times')
  BY <1>4 DEF TimesOf, Onward
<1>6. QED
  BY <1>4, <1>5, OneRequestTimes

\* A folder was refreshed: its time is written down.
LEMMA RefreshFolderTimes ==
    ASSUME StateOK, TimesInv, Onward, NEW r \in Request, RefreshFolder(r),
           job[r].todo # <<>>
    PROVE  TimesInv'
<1>1. PICK f : f = Head(job[r].todo)
  OBVIOUS
<1>2. job[r] \in Job /\ f \in Configured
  BY <1>1 DEF StateOK, Job
<1>3. times' = [times EXCEPT ![f] = @ \cup {job[r].now}]
  BY <1>1 DEF RefreshFolder
<1>4. PICK j, phase : /\ Go(r, j, phase) /\ j.now = job[r].now
                      /\ j.warnings = job[r].warnings
                      /\ j.refreshed = job[r].refreshed \cup {f}
  <2> DEFINE k == [job[r] EXCEPT !.todo = Tail(@), !.refreshed = @ \cup {f}]
  <2>1. Next_folder(r, k)
    BY <1>1 DEF RefreshFolder
  <2>2. PICK phase : Go(r, k, phase)
    BY <2>1 DEF Next_folder
  <2>3. /\ k.now = job[r].now
        /\ k.warnings = job[r].warnings
        /\ k.refreshed = job[r].refreshed \cup {f}
    BY <1>2 DEF Job
  <2> HIDE DEF k
  <2> QED BY <2>2, <2>3
<1>5. job[r].now \in times'[f]
  BY <1>2, <1>3 DEF TimesInv
<1>6. TimesOf(job[r], clock', times')
  BY <1>2, TimesKept DEF TimesInv, TimesOf
<1>7. TimesOf(j, clock', times')
  BY <1>4, <1>5, <1>6 DEF TimesOf
<1>8. QED
  BY <1>4, <1>7, OneRequestTimes

\* A folder failed: its warning carries the time the cache has for it.
LEMMA FailFolderTimes ==
    ASSUME StateOK, TimesInv, Onward, NEW r \in Request, FailFolder(r),
           job[r].todo # <<>>
    PROVE  TimesInv'
<1>1. PICK f : f = Head(job[r].todo)
  OBVIOUS
<1>2. job[r] \in Job /\ f \in Configured
  BY <1>1 DEF StateOK, Job
<1>3. PICK w : w = [of |-> f, last |-> success'[f]]
  OBVIOUS
<1>4. PICK j, phase : /\ Go(r, j, phase) /\ j.now = job[r].now
                      /\ j.warnings = job[r].warnings \cup {w}
                      /\ j.refreshed = job[r].refreshed
  <2> DEFINE k == [job[r] EXCEPT !.todo = Tail(@), !.warnings = @ \cup {w}]
  <2>1. Next_folder(r, k)
    BY <1>1, <1>3 DEF FailFolder
  <2>2. PICK phase : Go(r, k, phase)
    BY <2>1 DEF Next_folder
  <2>3. /\ k.now = job[r].now
        /\ k.warnings = job[r].warnings \cup {w}
        /\ k.refreshed = job[r].refreshed
    BY <1>2 DEF Job
  <2> HIDE DEF k
  <2> QED BY <2>2, <2>3
<1>5. w.last # 0 => w.of \in Configured /\ w.last \in times'[w.of]
  BY <1>2, <1>3 DEF Onward
<1>6. TimesOf(job[r], clock', times')
  BY <1>2, TimesKept DEF TimesInv, TimesOf
<1>7. TimesOf(j, clock', times')
  BY <1>4, <1>5, <1>6 DEF TimesOf
<1>8. QED
  BY <1>4, <1>7, OneRequestTimes

LEMMA StepOnward ==
    ASSUME RequestInv, TimesInv, [Next]_vars
    PROVE  Onward
<1>1. StateOK
  BY DEF RequestInv
<1>2. CASE Tick
  BY <1>1, <1>2 DEF Tick, StateOK, TimesInv, Onward
<1>3. ASSUME NEW g \in Configured, CleanupExpired(g) PROVE Onward
  BY <1>1, <1>3 DEF CleanupExpired, StateOK, TimesInv, Onward
<1>4. ASSUME NEW r \in Request, RefreshFolder(r) \/ FailFolder(r) PROVE Onward
  <2>1. PICK f : f = Head(job[r].todo)
    OBVIOUS
  <2>2. job[r] \in Job /\ f \in Configured /\ job[r].now \in Nat
    BY <1>4, <2>1 DEF RequestInv, StateOK, Job, RefreshFolder, FailFolder
  <2>3. job[r].now <= clock
    BY DEF TimesInv
  <2>4. CASE RefreshFolder(r)
    BY <1>1, <2>1, <2>2, <2>3, <2>4
    DEF RefreshFolder, StateOK, TimesInv, Onward
  <2>5. CASE FailFolder(r)
    BY <1>1, <2>1, <2>2, <2>5 DEF FailFolder, StateOK, TimesInv, Onward
  <2>6. QED
    BY <1>4, <2>4, <2>5
<1>5. CASE UNCHANGED <<success, clock, times>>
  BY <1>1, <1>5 DEF StateOK, TimesInv, Onward
<1>6. QED
  BY <1>2, <1>3, <1>4, <1>5 DEF Next, vars, Start, FailLocally, List,
     ShowMessages, ShowMiss, ShowHidden, Respond

LEMMA StepTimes == RequestInv /\ TimesInv /\ [Next]_vars => TimesInv'
<1> SUFFICES ASSUME RequestInv, TimesInv, [Next]_vars PROVE TimesInv'
  OBVIOUS
<1>1. StateOK /\ Onward
  BY StepOnward DEF RequestInv
<1>2. CASE UNCHANGED job
  BY <1>1, <1>2, TimesKept DEF TimesInv, TimesOf, Onward, StateOK
<1>3. ASSUME NEW r \in Request, Start(r) PROVE TimesInv'
  BY <1>1, <1>3, StartTimes
<1>4. ASSUME NEW r \in Request, RefreshFolder(r) \/ FailFolder(r)
      PROVE  TimesInv'
  <2>1. job[r].todo # <<>>
    BY <1>4 DEF RequestInv, RefreshFolder, FailFolder
  <2>2. QED
    BY <1>1, <1>4, <2>1, RefreshFolderTimes, FailFolderTimes
<1>5. ASSUME NEW r \in Request,
             FailLocally(r) \/ ShowHidden(r) \/ List(r) \/ ShowMessages(r)
               \/ ShowMiss(r)
      PROVE  TimesInv'
  <2>1. Go(r, NoJob, "idle")
    BY <1>5 DEF FailLocally, ShowHidden, List, ShowMessages, ShowMiss, Respond
  <2>2. TimesOf(NoJob, clock', times')
    BY <1>1 DEF TimesOf, NoJob, Onward
  <2>3. QED
    BY <1>1, <2>1, <2>2, OneRequestTimes
<1>6. QED
  BY <1>2, <1>3, <1>4, <1>5 DEF Next, vars, Tick, CleanupExpired

LEMMA TimesInvariant == Spec => []TimesInv
<1>1. Init => TimesInv
  BY DEF Init, TimesInv, NoJob
<1>2. QED
  BY <1>1, StepTimes, RequestInvariant, PTL DEF Spec

-----------------------------------------------------------------------------
(* The time of an answer *)

\* The times a result may show were times of a refresh of some folder.
Dated(res) ==
    /\ \A w \in res.warnings :
          w.last # 0 => w.of \in Configured /\ w.last \in times[w.of]
    /\ res.time # 0 => \E f \in Configured : res.time \in times[f]

LEMMA LatestDated ==
    ASSUME StateOK, TimesInv, LatestRefreshAt # 0
    PROVE  \E f \in Configured : LatestRefreshAt \in times[f]
<1> DEFINE S == {success[f] : f \in Configured}
<1>1. S \in SUBSET Nat /\ clock \in Nat /\ \A t \in S : t <= clock
  BY DEF StateOK, TimesInv
<1>2. LatestRefreshAt = MaxOf(S)
  BY DEF LatestRefreshAt
<1> HIDE DEF S
<1>3. MaxOf(S) \in S
  BY <1>1, <1>2, MaxInSet
<1>4. PICK f \in Configured : LatestRefreshAt = success[f]
  BY <1>2, <1>3 DEF S
<1>5. QED
  BY <1>4 DEF TimesInv

LEMMA ResultDated ==
    ASSUME RequestInv, TimesInv, NEW r \in Request, Ready(r)
    PROVE  Dated(ResultOf(r))
<1>1. StateOK /\ job[r].refreshed \subseteq Configured
  BY DEF RequestInv, StateOK, Job
<1>2. CASE pc[r] = "sourceless"
  <2>1. /\ ResultOf(r).time = LatestRefreshAt
        /\ \A w \in ResultOf(r).warnings : w.last = 0
    BY <1>2 DEF ResultOf
  <2>2. QED
    BY <1>1, <2>1, LatestDated DEF Dated
<1>3. CASE pc[r] = "read"
  <2>1. /\ ResultOf(r).warnings = job[r].warnings
        /\ ResultOf(r).time = IF job[r].refreshed # {} THEN job[r].now
                                                      ELSE LatestRefreshAt
    BY <1>3 DEF ResultOf
  <2>2. \A w \in job[r].warnings :
           w.last # 0 => w.of \in Configured /\ w.last \in times[w.of]
    BY DEF TimesInv
  <2>3. job[r].refreshed # {} => \E f \in Configured : job[r].now \in times[f]
    BY <1>1 DEF TimesInv
  <2>4. QED
    BY <1>1, <2>1, <2>2, <2>3, LatestDated DEF Dated
<1>4. QED
  BY <1>2, <1>3 DEF Ready

\* With one warning in scope the answer shows the time of that folder.
LEMMA EnvelopeTime ==
    ASSUME NEW res, NEW refreshed, Honest(res, refreshed), Dated(res),
           NEW warnings \in SUBSET res.warnings, NEW found,
           Cardinality(warnings) = 1, NEW about,
           \A w \in warnings : w.of = NoFolder \/ w.of \in about
    PROVE  LET e == ReadEnvelope(res, warnings, found)
           IN e.status # "ok" /\ e.time # 0
              => \E f \in about : e.time \in times[f]
<1> DEFINE e == ReadEnvelope(res, warnings, found)
<1> SUFFICES ASSUME e.status # "ok", e.time # 0
             PROVE  \E f \in about : e.time \in times[f]
  OBVIOUS
<1>1. warnings # {}
  BY EnvelopeStatus
<1>2. e.time = (CHOOSE w \in warnings : TRUE).last
  BY <1>1 DEF ReadEnvelope, ScopedTime
<1>3. PICK w \in warnings : e.time = w.last
  BY <1>1, <1>2
<1> HIDE DEF e
<1>4. w.of \in Configured /\ w.last \in times[w.of]
  BY <1>3 DEF Dated
<1>5. w.of \in about
  BY <1>4, SomeFolder
<1>6. QED
  BY <1>3, <1>4, <1>5

LEMMA ListTime ==
    ASSUME RequestInv, TimesInv, NEW r \in Request, List(r)
    PROVE  OneFailureTime'
<1>1. PICK filter \in Filter :
        LET res   == ResultOf(r)
            about == {f \in Configured : Matches(filter, f)}
        IN \E found \in IF about = {} THEN {FALSE} ELSE BOOLEAN :
             Respond(r, ReadEnvelope(res, WarningsFor(res, {filter}), found), about)
  BY DEF List
<1> DEFINE res   == ResultOf(r)
           about == {f \in Configured : Matches(filter, f)}
           ws    == WarningsFor(res, {filter})
<1>2. PICK found : Respond(r, ReadEnvelope(res, ws, found), about)
  BY <1>1
<1> DEFINE e == ReadEnvelope(res, ws, found)
<1>3. Honest(res, job[r].refreshed) /\ Dated(res)
  BY ResultHonest, ResultDated DEF List
<1> HIDE DEF res
<1>4. ws \in SUBSET res.warnings
  BY DEF WarningsFor
<1>5. \A w \in ws : w.of = NoFolder \/ w.of \in about
  <2> SUFFICES ASSUME NEW w \in ws, w.of # NoFolder PROVE w.of \in about
    OBVIOUS
  <2>1. w.of \in Configured
    BY <1>3, <1>4 DEF Honest
  <2>2. Matches(filter, w.of)
    BY DEF WarningsFor, Affects
  <2>3. QED
    BY <2>1, <2>2
<1> HIDE DEF about, ws
<1>6. /\ answer'.status = e.status /\ answer'.time = e.time
      /\ answer'.warnings = ws /\ answer'.about = about /\ times' = times
  BY <1>2 DEF Respond, ReadEnvelope
<1>7. Cardinality(ws) = 1 /\ e.status # "ok" /\ e.time # 0
      => \E f \in about : e.time \in times[f]
  BY <1>3, <1>4, <1>5, EnvelopeTime
<1> HIDE DEF e
<1>8. QED
  BY <1>6, <1>7 DEF OneFailureTime, Caveat, TimeIsOfScope

LEMMA ShowMessagesTime ==
    ASSUME RequestInv, TimesInv, NEW r \in Request, ShowMessages(r)
    PROVE  OneFailureTime'
<1>1. PICK about \in SUBSET Configured :
        LET res == ResultOf(r)
        IN Respond(r, ReadEnvelope(res, WarningsFor(res, about), TRUE), about)
  BY DEF ShowMessages
<1>2. PICK found : found = TRUE
  OBVIOUS
<1> DEFINE res == ResultOf(r)
           ws  == WarningsFor(res, about)
           e   == ReadEnvelope(res, ws, found)
<1>3. Respond(r, e, about)
  BY <1>1, <1>2
<1>4. Honest(res, job[r].refreshed) /\ Dated(res)
  BY ResultHonest, ResultDated DEF ShowMessages
<1> HIDE DEF res
<1>5. ws \in SUBSET res.warnings
  BY DEF WarningsFor
<1>6. \A w \in ws : w.of = NoFolder \/ w.of \in about
  <2> SUFFICES ASSUME NEW w \in ws, w.of # NoFolder PROVE w.of \in about
    OBVIOUS
  <2>1. w.of \in Configured
    BY <1>4, <1>5 DEF Honest
  <2>2. PICK f \in about : Matches(f, w.of)
    BY DEF WarningsFor, Affects
  <2>3. f = w.of
    BY <2>1, <2>2, SomeFolder
  <2>4. QED
    BY <2>3
<1> HIDE DEF ws
<1>7. /\ answer'.status = e.status /\ answer'.time = e.time
      /\ answer'.warnings = ws /\ answer'.about = about /\ times' = times
  BY <1>3 DEF Respond, ReadEnvelope
<1>8. Cardinality(ws) = 1 /\ e.status # "ok" /\ e.time # 0
      => \E f \in about : e.time \in times[f]
  BY <1>4, <1>5, <1>6, EnvelopeTime
<1> HIDE DEF e
<1>9. QED
  BY <1>7, <1>8 DEF OneFailureTime, Caveat, TimeIsOfScope

\* Without the message the answer is about every folder, and so is its time.
LEMMA ShowMissTime ==
    ASSUME RequestInv, TimesInv, NEW r \in Request, ShowMiss(r)
    PROVE  OneFailureTime'
<1>1. PICK res : res = ResultOf(r)
  OBVIOUS
<1>2. Dated(res)
  BY <1>1, ResultDated DEF ShowMiss
<1>3. answer'.time = res.time /\ answer'.about = Configured /\ times' = times
  BY <1>1 DEF ShowMiss, Respond
<1>4. QED
  BY <1>2, <1>3 DEF Dated, OneFailureTime, TimeIsOfScope

LEMMA StepOneFailureTime ==
    RequestInv /\ TimesInv /\ OneFailureTime /\ [Next]_vars => OneFailureTime'
<1> SUFFICES ASSUME RequestInv, TimesInv, OneFailureTime, [Next]_vars
             PROVE  OneFailureTime'
  OBVIOUS
<1>1. ASSUME answer'.status \in {"none", "internal"} PROVE OneFailureTime'
  BY <1>1 DEF OneFailureTime, Caveat
<1>2. CASE Tick \/ \E f \in Configured : CleanupExpired(f)
  BY <1>1, <1>2 DEF Tick, CleanupExpired, NoAnswer
<1>3. ASSUME NEW r \in Request, Start(r) \/ RefreshFolder(r) \/ FailFolder(r)
      PROVE  OneFailureTime'
  BY <1>1, <1>3 DEF Start, RefreshFolder, FailFolder, NoAnswer
<1>4. ASSUME NEW r \in Request, FailLocally(r) \/ ShowHidden(r)
      PROVE  OneFailureTime'
  BY <1>4 DEF FailLocally, ShowHidden, NoAnswer, OneFailureTime, Caveat
<1>5. ASSUME NEW r \in Request, List(r) \/ ShowMessages(r) \/ ShowMiss(r)
      PROVE  OneFailureTime'
  BY <1>5, ListTime, ShowMessagesTime, ShowMissTime
<1>6. CASE UNCHANGED vars
  BY <1>6 DEF vars, OneFailureTime, Caveat, TimeIsOfScope
<1>7. QED
  BY <1>2, <1>3, <1>4, <1>5, <1>6 DEF Next

\* An answer with a caveat that warns of one folder only shows the time at which
\* a folder of the answer was refreshed, or none: scopedRefreshMeta never shows
\* the time of a folder that was not asked about.
THEOREM TheTimeIsOfTheFailure == Spec => []OneFailureTime
<1>1. Init => OneFailureTime
  BY DEF Init, NoAnswer, OneFailureTime, Caveat
<1>2. QED
  BY <1>1, StepOneFailureTime, RequestInvariant, TimesInvariant, PTL DEF Spec

=============================================================================
