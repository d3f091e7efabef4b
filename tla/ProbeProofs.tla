---------------------------- MODULE ProbeProofs ----------------------------
(***************************************************************************)
(* Theorems about Probe, for any accounts, servers and times: how long a   *)
(* probe takes at most, that nothing passes late, which bodies it reads,   *)
(* and that its verdicts are true.                                         *)
(***************************************************************************)
EXTENDS Probe, FiniteSetTheorems, WellFoundedInduction, TLAPS

-----------------------------------------------------------------------------
(* Least and greatest numbers *)

\* Initial segments of the natural numbers are ordered by inclusion, which is
\* well-founded on finite sets.
LEMMA LeastExists ==
    ASSUME NEW S \in SUBSET Nat, S # {}
    PROVE  \E u \in S : \A v \in S : u <= v
<1> DEFINE T == {0..(u - 1) : u \in S}
<1>1. T \subseteq FiniteSubsetsOf(Nat)
  <2> SUFFICES ASSUME NEW u \in S
               PROVE  0..(u - 1) \in FiniteSubsetsOf(Nat)
    OBVIOUS
  <2>1. u \in Nat
    OBVIOUS
  <2>2. IsFiniteSet(0..(u - 1)) /\ 0..(u - 1) \in SUBSET Nat
    BY <2>1, FS_Interval
  <2>3. QED
    BY <2>2 DEF FiniteSubsetsOf
<1>2. T # {}
  OBVIOUS
<1>3. IsWellFoundedOn(StrictSubsetOrdering(Nat), FiniteSubsetsOf(Nat))
  BY FS_StrictSubsetOrderingWellFounded
<1>4. PICK x \in T : \A y \in T : <<y, x>> \notin StrictSubsetOrdering(Nat)
  <2> HIDE DEF T
  <2>1. QED
    BY <1>1, <1>2, <1>3, WFMin
<1>5. PICK u \in S : x = 0..(u - 1)
  OBVIOUS
<1>6. ASSUME NEW v \in S, v < u
      PROVE  FALSE
  <2>1. 0..(v - 1) \in T /\ v \in Nat /\ u \in Nat
    OBVIOUS
  <2>2. 0..(v - 1) \in SUBSET Nat /\ 0..(u - 1) \in SUBSET Nat
    BY <2>1
  <2>3. v \in 0..(u - 1) /\ v \notin 0..(v - 1)
    BY <2>1, <1>6
  <2>4. 0..(v - 1) \subseteq 0..(u - 1)
    BY <2>1, <1>6
  <2>5. <<0..(v - 1), 0..(u - 1)>> \in StrictSubsetOrdering(Nat)
    BY <2>2, <2>3, <2>4 DEF StrictSubsetOrdering
  <2>6. QED
    BY <2>1, <2>5, <1>4, <1>5
<1>7. u \in Nat /\ \A v \in S : v \in Nat
  OBVIOUS
<1>8. QED
  BY <1>6, <1>7

LEMMA GreatestExists ==
    ASSUME NEW S \in SUBSET Nat, S # {}, NEW n \in Nat, \A u \in S : u <= n
    PROVE  \E u \in S : \A v \in S : v <= u
<1> DEFINE T == {n - u : u \in S}
<1>1. T \in SUBSET Nat /\ T # {}
  <2>1. ASSUME NEW u \in S
        PROVE  n - u \in Nat
    <3>1. u \in Nat /\ u <= n
      OBVIOUS
    <3>2. QED
      BY <3>1
  <2>2. QED
    BY <2>1
<1>2. PICK t \in T : \A v \in T : t <= v
  <2> HIDE DEF T
  <2>1. QED
    BY <1>1, LeastExists
<1>3. PICK u \in S : t = n - u
  OBVIOUS
<1>4. ASSUME NEW v \in S
      PROVE  v <= u
  <2>1. n - u <= n - v /\ u \in Nat /\ v \in Nat
    BY <1>2, <1>3
  <2>2. QED
    BY <2>1
<1>5. QED
  BY <1>4

\* The candidates that are tried are some, if there are any: the newest is.
LEMMA NewestSome ==
    ASSUME NEW S \in SUBSET Nat, S # {}, NEW n \in Nat, \A u \in S : u <= n
    PROVE  NewestOf(S) \subseteq S /\ NewestOf(S) # {}
<1>1. PICK u \in S : \A v \in S : v <= u
  BY GreatestExists
<1>2. {v \in S : v > u} = {}
  <2>1. ASSUME NEW v \in S
        PROVE  ~(v > u)
    <3>1. v <= u /\ v \in Nat /\ u \in Nat
      BY <1>1
    <3>2. QED
      BY <3>1
  <2>2. QED
    BY <2>1, Zenon
<1>3. Cardinality({v \in S : v > u}) = 0
  BY <1>2, FS_EmptySet
<1>4. 0 < ScanLimit
  BY TimeAssumption
<1>5. QED
  BY <1>3, <1>4 DEF NewestOf

-----------------------------------------------------------------------------
(* Sessions, checks and times *)

Checks == [Check -> Verdict]

\* An answer comes within the budget.
LEMMA AnsweredEarly ==
    ASSUME TypeOK, NEW phase, Answered(phase)
    PROVE  clock < Budget /\ pc = phase
BY TimeAssumption DEF TypeOK, Conn, Answered, Deadline

\* What a step does to the checks: a pass that is new needs time left.
Judged ==
    /\ checks' \in Checks
    /\ \/ clock < Budget
       \/ \A c \in Check \ {"refresh_strategy"} :
             checks'[c] = "passed" => checks[c] = "passed"

\* Where a step of the checklist goes: on with a session of its own, on within
\* the session, or to the end.
Moved ==
    /\ pc \in Remote
    /\ \/ pc' \in Remote /\ conn' = Closed
       \/ pc' = "answer" /\ conn' = NoConn
       \/ pc' \in {"body", "after"} /\ conn' = conn /\ pc \in {"before", "body"}
    /\ \/ clock < Budget
       \/ pc \in {"listAll", "listOne"} /\ pc' \in {"scan", "search"}
       \/ pc' = "answer"

LEMMA WithType ==
    ASSUME TypeOK, NEW c \in Check, NEW v \in Verdict
    PROVE  /\ With(c, v) \in Checks
           /\ \A d \in Check : With(c, v)[d] = IF d = c THEN v ELSE checks[d]
BY DEF TypeOK, With, Checks

LEMMA FinishDoes ==
    ASSUME NEW chks \in Checks, Finish(chks)
    PROVE  /\ pc' = "answer" /\ conn' = NoConn /\ job' = job
           /\ checks' \in Checks
           /\ \A c \in Check : checks'[c] = "passed" => chks[c] = "passed"
BY DEF Finish, Checks, Verdict

\* The end of the checklist, in time or with a failure.
LEMMA FinishMoves ==
    ASSUME TypeOK, pc \in Remote, NEW c \in Check, NEW v \in Verdict,
           v # "passed" \/ clock < Budget, Finish(With(c, v))
    PROVE  Moved /\ Judged /\ job' = job /\ pc' = "answer"
<1>1. PICK chks : chks = With(c, v)
  OBVIOUS
<1>2. chks \in Checks /\ Finish(chks)
  BY <1>1, WithType DEF Finish
<1>3. \A d \in Check : chks[d] = "passed" => v = "passed" \/ checks[d] = "passed"
  BY <1>1, WithType
<1>4. QED
  BY <1>2, <1>3, FinishDoes DEF Moved, Judged

\* The same without a verdict.
LEMMA FinishPlain ==
    ASSUME TypeOK, pc \in Remote, Finish(checks)
    PROVE  Moved /\ Judged /\ job' = job /\ pc' = "answer"
<1>1. PICK chks : chks = checks
  OBVIOUS
<1>2. chks \in Checks /\ Finish(chks)
  BY <1>1 DEF Finish, TypeOK, Checks
<1>3. QED
  BY <1>1, <1>2, FinishDoes DEF Moved, Judged

\* After the check of UIDs the checklist goes on, whatever the verdict.
LEMMA UIDVerdict ==
    ASSUME TypeOK, pc \in {"listAll", "listOne"}, NEW verdict \in Verdict,
           verdict = "failed" \/ clock < Budget, AfterUIDBehavior(verdict)
    PROVE  /\ Moved /\ Judged /\ pc' \in {"scan", "search"}
           /\ conn' = Closed
           /\ account.full => pc' = "scan" /\ job' = job
           /\ ~account.full =>
                /\ pc' = "search"
                /\ job' = [job EXCEPT
                      !.left = {q \in account.queries : Target[q] # "nowhere"},
                      !.missing = {q \in account.queries : Target[q] # "nowhere"}
                                    # account.queries]
<1>1. Strategy(verdict) \in Verdict
  BY DEF Strategy, Verdict
<1>2. PICK chks : chks = [checks EXCEPT !["uid_behavior"] = verdict,
                                        !["refresh_strategy"] = Strategy(verdict)]
  OBVIOUS
<1>3. /\ chks \in Checks
      /\ \A c \in Check \ {"refresh_strategy"} :
            chks[c] = "passed" => checks[c] = "passed" \/ verdict = "passed"
  BY <1>1, <1>2 DEF TypeOK, Checks, Check
<1>4. CASE account.full
  <2>1. /\ pc' = "scan" /\ job' = job /\ conn' = Closed
        /\ checks' = [chks EXCEPT !["domain_header_search"] = "not_applicable"]
    BY <1>2, <1>4 DEF AfterUIDBehavior, Go
  <2>2. /\ checks' \in Checks
        /\ \A c \in Check : checks'[c] = "passed" => chks[c] = "passed"
    BY <1>3, <2>1 DEF Checks, Verdict, Check
  <2>3. QED
    BY <1>3, <1>4, <2>1, <2>2 DEF Moved, Judged, Remote
<1>5. CASE ~account.full
  <2>1. /\ pc' = "search" /\ conn' = Closed /\ checks' = chks
        /\ job' = [job EXCEPT
                      !.left = {q \in account.queries : Target[q] # "nowhere"},
                      !.missing = {q \in account.queries : Target[q] # "nowhere"}
                                    # account.queries]
    BY <1>2, <1>5 DEF AfterUIDBehavior, Go
  <2>2. QED
    BY <1>3, <1>5, <2>1 DEF Moved, Judged, Remote
<1>6. QED
  BY <1>4, <1>5

\* The next candidate, or the end without one.
LEMMA NextFixtureDoes ==
    ASSUME TypeOK, clock < Budget, pc \in Remote, NextFixture
    PROVE  /\ Moved /\ Judged
           /\ \/ pc' = "answer" /\ job' = job
              \/ /\ pc' = "seen"
                 /\ job' = [job EXCEPT !.scan = job.scan \ {Current}]
                 /\ job.scan \ {Current} # {}
<1>1. CASE job.scan \ {Current} = {}
  BY <1>1, FinishPlain DEF NextFixture
<1>2. CASE job.scan \ {Current} # {}
  BY <1>2 DEF NextFixture, Go, Moved, Judged, Remote, TypeOK, Checks
<1>3. QED
  BY <1>1, <1>2

\* The read-state check begins with candidates, or ends the checklist.
LEMMA EnterDoes ==
    ASSUME TypeOK, clock < Budget, pc \in Remote,
           NEW j, NEW uids, NEW c \in Check, NEW v \in Verdict,
           EnterReadState(j, uids, With(c, v))
    PROVE  /\ Moved /\ Judged
           /\ \/ uids = {} /\ pc' = "answer" /\ job' = job
              \/ uids # {} /\ pc' = "seen" /\ job' = [j EXCEPT !.scan = NewestOf(uids)]
<1>1. CASE uids = {}
  <2>1. Finish(With(c, v))
    BY <1>1 DEF EnterReadState
  <2>2. QED
    BY <1>1, <2>1, FinishMoves
<1>2. CASE uids # {}
  <2>1. /\ pc' = "seen" /\ conn' = Closed /\ checks' = With(c, v)
        /\ job' = [j EXCEPT !.scan = NewestOf(uids)]
    BY <1>2 DEF EnterReadState, Go
  <2>2. QED
    BY <1>2, <2>1, WithType DEF Moved, Judged, Remote
<1>3. QED
  BY <1>1, <1>2

-----------------------------------------------------------------------------
(* The locals of the goroutine *)

\* What follows from the typing of the variables.
LEMMA TypeFacts ==
    ASSUME TypeOK
    PROVE  /\ job \in Job /\ checks \in Checks /\ conn \in Conn /\ pc \in Phase
           /\ account \in Account /\ account.full \in BOOLEAN
           /\ account.queries \subseteq Query
           /\ Uids \subseteq Uid /\ Uids \in SUBSET Nat
           /\ uidnext \in Nat /\ uidvalidity \in Nat /\ clock \in Nat
           /\ quirks.modseq \in BOOLEAN
BY AccountAssumption, QuirkAssumption DEF TypeOK, Checks, Conn, Uids, Message, Uid

\* What a session finds are UIDs.
LEMMA MatchingType ==
    ASSUME TypeOK, NEW q
    PROVE  Matching(q) \in SUBSET Uid
BY DEF TypeOK, Matching, Message, Uid

\* The candidate under way is one of them, if there are any.
LEMMA CurrentType ==
    ASSUME TypeOK, job.scan # {}
    PROVE  Current \in job.scan
<1>1. job.scan \in SUBSET Nat
  BY TypeFacts DEF Job, Uid
<1>2. \E u \in job.scan : \A v \in job.scan : u <= v
  BY <1>1, LeastExists
<1>3. QED
  BY <1>2 DEF Current

\* The probe keeps what it knows of the folder.
LEMMA EvidenceKept ==
    ASSUME ProbeInv, UNCHANGED <<folder, quirks, account>>,
           job'.uidvalidity = job.uidvalidity, job'.evidence = job.evidence,
           job'.hits = job.hits, pc' # "negative"
    PROVE  EvidenceInv'
<1>1. UNCHANGED <<mailbox, uidnext, uidvalidity>>
  BY DEF folder
<1>2. \A m \in mailbox : Matched(m) => Matched(m)'
  BY DEF Matched
<1>3. QED
  BY <1>1, <1>2 DEF ProbeInv, EvidenceInv

\* The record of a job, changed in the fields of one step.
LEMMA JobType ==
    ASSUME NEW j \in Job
    PROVE  /\ \A b \in BOOLEAN : [j EXCEPT !.modseq = b] \in Job
           /\ \A n \in Nat : /\ [j EXCEPT !.first = n] \in Job
                             /\ \A v \in Nat : [j EXCEPT !.uidnext = n,
                                                         !.uidvalidity = v] \in Job
           /\ \A Q \in SUBSET Query, b \in BOOLEAN :
                 [j EXCEPT !.left = Q, !.missing = b] \in Job
           /\ \A q \in Query, S \in SUBSET Uid :
                 [j EXCEPT !.query = q, !.hits = S] \in Job
           /\ \A Q \in SUBSET Query, S \in SUBSET Uid, b \in BOOLEAN :
                 [j EXCEPT !.left = Q, !.evidence = S, !.missing = b] \in Job
           /\ \A S \in SUBSET Uid : [j EXCEPT !.scan = S] \in Job
           /\ \A b \in BOOLEAN : [j EXCEPT !.seenBefore = b] \in Job
BY DEF Job

\* The job at the start, and the fields a reader of the invariants needs.
LEMMA NoJobType ==
    /\ NoJob \in Job /\ NoJob.evidence = {} /\ NoJob.hits = {}
    /\ NoJob.left = {} /\ NoJob.uidvalidity = 0
<1>1. (CHOOSE q \in Query : TRUE) \in Query
  BY AccountAssumption
<1>2. QED
  BY <1>1 DEF NoJob, Job

-----------------------------------------------------------------------------
(* The steps of the checklist *)

\* What every step of the checklist does.
Stepped ==
    /\ Moved /\ Judged
    /\ job' \in Job
    /\ PhaseInv' /\ EvidenceInv'

LEMMA CapabilitiesStep ==
    ASSUME ProbeInv, Capabilities
    PROVE  Stepped
<1>1. TypeOK /\ PhaseInv /\ pc = "capability" /\ clock < Budget
  BY AnsweredEarly DEF ProbeInv, Capabilities
<1>2. /\ pc' = "folders" /\ conn' = Closed /\ checks' = With("capability", "passed")
      /\ job' = [job EXCEPT !.modseq = quirks.modseq]
      /\ UNCHANGED <<folder, quirks, account>>
  BY DEF Capabilities, Go, Unchanged_but_goroutine, server
<1>3. Moved /\ Judged
  BY <1>1, <1>2, WithType DEF Moved, Judged, Remote, Check, Verdict
<1>4. job' \in Job
  BY <1>1, <1>2, TypeFacts, JobType
<1>5. /\ job'.uidvalidity = job.uidvalidity /\ job'.evidence = job.evidence
      /\ job'.hits = job.hits /\ job'.left = job.left
  BY <1>1, <1>2, TypeFacts DEF Job
<1>6. PhaseInv'
  BY <1>1, <1>2, <1>5 DEF PhaseInv
<1>7. QED
  BY <1>2, <1>3, <1>4, <1>5, <1>6, EvidenceKept DEF Stepped

LEMMA FoldersStep ==
    ASSUME ProbeInv, Folders
    PROVE  Stepped
<1>1. TypeOK /\ PhaseInv /\ pc = "folders" /\ clock < Budget
  BY AnsweredEarly DEF ProbeInv, Folders
<1>2. UNCHANGED <<folder, quirks, account>>
  BY DEF Folders, Unchanged_but_goroutine, server
<1>3. Moved /\ Judged /\ job' = job /\ pc' \in {"answer", "select"}
  <2>1. CASE \E v \in Verdict : Finish(With("folder_listing", v))
    BY <1>1, <2>1, FinishMoves DEF Remote, Check
  <2>2. CASE Go("select", job, With("folder_listing", "passed"))
    BY <1>1, <2>2, WithType DEF Go, Moved, Judged, Remote, Check, Verdict
  <2>3. QED
    BY <2>1, <2>2 DEF Folders, Verdict
<1>4. job' \in Job
  BY <1>1, <1>3, TypeFacts
<1>5. PhaseInv'
  BY <1>1, <1>2, <1>3 DEF PhaseInv
<1>6. QED
  BY <1>2, <1>3, <1>4, <1>5, EvidenceKept DEF Stepped

LEMMA SelectFolderStep ==
    ASSUME ProbeInv, SelectFolder
    PROVE  Stepped
<1>1. TypeOK /\ PhaseInv /\ pc = "select" /\ clock < Budget
  BY AnsweredEarly DEF ProbeInv, SelectFolder
<1>2. UNCHANGED <<folder, quirks, account>>
  BY DEF SelectFolder, server
<1>3. CASE Finish(With("folder_selection", "inconclusive"))
  <2>1. Moved /\ Judged /\ job' = job /\ pc' = "answer"
    BY <1>1, <1>3, FinishMoves DEF Remote, Check, Verdict
  <2>2. job' \in Job /\ PhaseInv'
    BY <1>1, <1>2, <2>1, TypeFacts DEF PhaseInv
  <2>3. QED
    BY <1>2, <2>1, <2>2, EvidenceKept DEF Stepped
<1>4. CASE Go("listAll", [job EXCEPT !.uidnext = uidnext,
                                     !.uidvalidity = uidvalidity],
              With("folder_selection", "passed"))
  <2>1. /\ pc' = "listAll" /\ conn' = Closed
        /\ checks' = With("folder_selection", "passed")
        /\ job' = [job EXCEPT !.uidnext = uidnext, !.uidvalidity = uidvalidity]
    BY <1>4 DEF Go
  <2>2. Moved /\ Judged
    BY <1>1, <2>1, WithType DEF Moved, Judged, Remote, Check, Verdict
  <2>3. /\ job' \in Job /\ job'.uidvalidity = uidvalidity
        /\ job'.evidence = {} /\ job'.hits = {} /\ job'.left = job.left
    BY <1>1, <2>1, TypeFacts, JobType DEF Job, PhaseInv
  <2>4. PhaseInv'
    BY <1>1, <1>2, <2>1, <2>3 DEF PhaseInv
  <2>5. EvidenceInv'
    <3>1. /\ \A m \in mailbox' : m.uid < uidnext'
          /\ \A m, n \in mailbox' : m.uid = n.uid => m = n
      BY <1>2 DEF ProbeInv, EvidenceInv, folder
    <3>2. job'.uidvalidity <= uidvalidity'
      BY <1>1, <1>2, <2>3, TypeFacts DEF folder
    <3>3. QED
      BY <2>1, <2>3, <3>1, <3>2 DEF EvidenceInv
  <2>6. QED
    BY <2>2, <2>3, <2>4, <2>5 DEF Stepped
<1>5. QED
  BY <1>3, <1>4 DEF SelectFolder

\* After the check of UIDs nothing is known of the folder that was not before.
LEMMA UIDStep ==
    ASSUME ProbeInv, pc \in {"listAll", "listOne"}, NEW verdict \in Verdict,
           verdict = "failed" \/ clock < Budget, AfterUIDBehavior(verdict),
           UNCHANGED <<folder, quirks, account>>
    PROVE  Stepped
<1>1. TypeOK /\ PhaseInv
  BY DEF ProbeInv
<1>2. /\ Moved /\ Judged /\ pc' \in {"scan", "search"}
      /\ account.full => pc' = "scan" /\ job' = job
      /\ ~account.full =>
           /\ pc' = "search"
           /\ job' = [job EXCEPT
                 !.left = {q \in account.queries : Target[q] # "nowhere"},
                 !.missing = {q \in account.queries : Target[q] # "nowhere"}
                               # account.queries]
  BY <1>1, UIDVerdict
<1>3. PICK Q : Q = {q \in account.queries : Target[q] # "nowhere"}
  OBVIOUS
<1>4. PICK b : b = (Q # account.queries)
  OBVIOUS
<1>5. Q \in SUBSET Query /\ b \in BOOLEAN /\ Q \subseteq account.queries
  BY <1>1, <1>3, <1>4, TypeFacts
<1>6. ~account.full => job' = [job EXCEPT !.left = Q, !.missing = b]
  BY <1>2, <1>3, <1>4
<1>7. /\ job' \in Job /\ job'.left \subseteq account.queries
      /\ job'.uidvalidity = job.uidvalidity /\ job'.evidence = job.evidence
      /\ job'.hits = job.hits
  <2>1. job \in Job /\ account.full \in BOOLEAN
    BY <1>1, TypeFacts
  <2>2. CASE account.full
    BY <1>1, <1>2, <2>1, <2>2 DEF PhaseInv
  <2>3. CASE ~account.full
    <3>1. [job EXCEPT !.left = Q, !.missing = b] \in Job
      BY <1>5, <2>1, JobType
    <3>2. QED
      BY <1>5, <1>6, <2>1, <2>3, <3>1 DEF Job
  <2>4. QED
    BY <2>1, <2>2, <2>3
<1>8. PhaseInv'
  BY <1>1, <1>2, <1>7 DEF PhaseInv
<1>9. QED
  BY <1>2, <1>7, <1>8, EvidenceKept DEF Stepped

LEMMA ListUIDsStep ==
    ASSUME ProbeInv, ListUIDs
    PROVE  Stepped
<1>1. TypeOK /\ PhaseInv /\ pc = "listAll" /\ clock < Budget
  BY AnsweredEarly DEF ProbeInv, ListUIDs
<1>2. UNCHANGED <<folder, quirks, account>>
  BY DEF ListUIDs, Unchanged_but_goroutine, server
<1>3. CASE Cardinality(Uids) < 2
  <2>1. AfterUIDBehavior("inconclusive")
    BY <1>3 DEF ListUIDs
  <2>2. QED
    BY <1>1, <1>2, <2>1, UIDStep DEF Verdict
<1>4. CASE ~(Cardinality(Uids) < 2)
  <2>1. Uids # {} /\ Uids \in SUBSET Nat
    BY <1>1, <1>4, TypeFacts, FS_EmptySet
  <2>2. (CHOOSE u \in Uids : \A v \in Uids : u <= v) \in Nat
    BY <2>1, LeastExists
  <2>3. PICK n \in Nat : n = CHOOSE u \in Uids : \A v \in Uids : u <= v
    BY <2>2
  <2>4. /\ pc' = "listOne" /\ conn' = Closed /\ checks' = checks
        /\ job' = [job EXCEPT !.first = n]
    BY <1>4, <2>3 DEF ListUIDs, Go
  <2>5. Moved /\ Judged
    BY <1>1, <2>4, TypeFacts DEF Moved, Judged, Remote
  <2>6. /\ job' \in Job /\ job'.left = job.left
        /\ job'.uidvalidity = job.uidvalidity /\ job'.evidence = job.evidence
        /\ job'.hits = job.hits
    <3>1. job \in Job
      BY <1>1, TypeFacts
    <3>2. [job EXCEPT !.first = n] \in Job
      BY <3>1 DEF Job
    <3>3. QED
      BY <2>4, <3>1, <3>2 DEF Job
  <2>7. PhaseInv'
    BY <1>1, <1>2, <2>4, <2>6 DEF PhaseInv
  <2>8. QED
    BY <1>2, <2>4, <2>5, <2>6, <2>7, EvidenceKept DEF Stepped
<1>5. QED
  BY <1>3, <1>4

LEMMA ListFirstUIDStep ==
    ASSUME ProbeInv, ListFirstUID
    PROVE  Stepped
<1>1. TypeOK /\ pc = "listOne" /\ clock < Budget
  BY AnsweredEarly DEF ProbeInv, ListFirstUID
<1>2. UNCHANGED <<folder, quirks, account>>
  BY DEF ListFirstUID, Unchanged_but_goroutine, server
<1>3. AfterUIDBehavior("passed") \/ AfterUIDBehavior("refuted")
  BY DEF ListFirstUID
<1>4. QED
  BY <1>1, <1>2, <1>3, UIDStep DEF Verdict

\* What a search finds is there, and bounded.
LEMMA SearchDomainStep ==
    ASSUME ProbeInv, SearchDomain
    PROVE  Stepped
<1>1. TypeOK /\ PhaseInv /\ EvidenceInv /\ pc = "search" /\ clock < Budget
  BY AnsweredEarly DEF ProbeInv, SearchDomain
<1>2. UNCHANGED <<folder, quirks, account>>
  BY DEF SearchDomain, Unchanged_but_goroutine, server
<1>3. PICK q \in job.left :
        Go("negative", [job EXCEPT !.query = q, !.hits = Matching(q)], checks)
  BY DEF SearchDomain
<1>4. PICK H : H = Matching(q)
  OBVIOUS
<1>5. /\ pc' = "negative" /\ conn' = Closed /\ checks' = checks
      /\ job' = [job EXCEPT !.query = q, !.hits = H]
  BY <1>3, <1>4 DEF Go
<1>6. q \in account.queries /\ q \in Query /\ H \in SUBSET Uid /\ job \in Job
  BY <1>1, <1>3, <1>4, TypeFacts, MatchingType DEF PhaseInv
<1>7. /\ job' \in Job /\ job'.left = job.left /\ job'.query = q
      /\ job'.uidvalidity = job.uidvalidity /\ job'.evidence = job.evidence
      /\ job'.hits = H
  <2>1. [job EXCEPT !.query = q, !.hits = H] \in Job
    BY <1>6, JobType
  <2>2. QED
    BY <1>5, <1>6, <2>1 DEF Job
<1>8. Moved /\ Judged
  BY <1>1, <1>5, TypeFacts DEF Moved, Judged, Remote
<1>9. PhaseInv'
  BY <1>1, <1>2, <1>5, <1>6, <1>7 DEF PhaseInv
<1>10. /\ Target[q] = "elsewhere" => H \subseteq {1}
       /\ Target[q] # "elsewhere" =>
            /\ \A u \in H : u < uidnext
            /\ \A m \in mailbox : m.uid \in H /\ ~quirks.overbroad =>
                  m.kind \in HitBy[q]
  BY <1>1, <1>4 DEF Matching, EvidenceInv
<1>11. EvidenceInv'
  <2>1. \E n \in Nat : \A u \in job.evidence \cup H : u <= n
    <3>1. uidnext \in Nat /\ H \subseteq Nat /\ job.evidence \subseteq Nat
      BY <1>1, <1>6, TypeFacts DEF Uid, Job
    <3>2. \A u \in H : u <= uidnext + 1
      BY <1>10, <3>1
    <3>3. PICK n \in Nat : \A u \in job.evidence \cup job.hits : u <= n
      BY <1>1 DEF EvidenceInv
    <3>4. ASSUME NEW u \in job.evidence \cup H
          PROVE  u <= n + uidnext + 1
      <4>1. u \in Nat /\ (u <= n \/ u <= uidnext + 1)
        BY <3>1, <3>2, <3>3
      <4>2. QED
        BY <3>1, <4>1
    <3>5. n + uidnext + 1 \in Nat
      BY <3>1
    <3>6. QED
      BY <3>4, <3>5
  <2>2. UNCHANGED <<mailbox, uidnext, uidvalidity, quirks, account>>
    BY <1>2 DEF folder
  <2>3. \A m \in mailbox : Matched(m) => Matched(m)'
    BY <2>2 DEF Matched
  <2>4. QED
    BY <1>1, <1>5, <1>7, <1>10, <2>1, <2>2, <2>3 DEF EvidenceInv
<1>12. QED
  BY <1>7, <1>8, <1>9, <1>11 DEF Stepped

\* Evidence is gathered only where the counter-check found nothing, which a
\* server that ignores the criterion manages only in an empty folder.
LEMMA EvidenceDeserved ==
    ASSUME ProbeInv, pc = "negative", MatchingNothing(job.query) = {},
           job.uidvalidity = uidvalidity, NEW m \in mailbox,
           m.uid \in Evidence(job.hits)
    PROVE  Matched(m)
<1>1. EvidenceInv /\ PhaseInv
  BY DEF ProbeInv
<1>2. CASE m.uid \in job.evidence
  BY <1>1, <1>2 DEF EvidenceInv
<1>3. CASE Target[job.query] = "folder" /\ m.uid \in job.hits
  <2>1. ~quirks.overbroad
    BY <1>3 DEF MatchingNothing, Matching
  <2>2. m.kind \in HitBy[job.query] /\ job.query \in account.queries
    BY <1>1, <1>3, <2>1 DEF EvidenceInv, PhaseInv
  <2>3. QED
    BY <1>3, <2>2 DEF Matched
<1>4. QED
  BY <1>2, <1>3 DEF Evidence

LEMMA SearchNegativeStep ==
    ASSUME ProbeInv, SearchNegative
    PROVE  Stepped
<1>1. TypeOK /\ PhaseInv /\ EvidenceInv /\ pc = "negative" /\ clock < Budget
  BY AnsweredEarly DEF ProbeInv, SearchNegative
<1>2. UNCHANGED <<folder, quirks, account>>
  BY DEF SearchNegative, Unchanged_but_goroutine, server
<1>3. PICK L : L = job.left \ {job.query}
  OBVIOUS
<1>4. PICK E : E = Evidence(job.hits)
  OBVIOUS
<1>5. PICK b : b = (job.missing \/ job.hits = {})
  OBVIOUS
<1>6. PICK j : j = [job EXCEPT !.left = L, !.evidence = E, !.missing = b]
  OBVIOUS
<1>7. /\ job \in Job /\ L \in SUBSET Query /\ L \subseteq account.queries
      /\ E \in SUBSET Uid /\ E \subseteq job.evidence \cup job.hits
      /\ b \in BOOLEAN
  BY <1>1, <1>3, <1>4, <1>5, TypeFacts DEF Job, Evidence, PhaseInv
<1>8. /\ j \in Job /\ j.left = L /\ j.evidence = E /\ j.hits = job.hits
      /\ j.uidvalidity = job.uidvalidity /\ j.uidnext = job.uidnext
  <2>1. [job EXCEPT !.left = L, !.evidence = E, !.missing = b] \in Job
    BY <1>7, JobType
  <2>2. QED
    BY <1>6, <1>7, <2>1 DEF Job
<1>9. CASE MatchingNothing(job.query) # {}
  <2>1. Finish(With("domain_header_search", "refuted"))
    BY <1>9 DEF SearchNegative
  <2>2. Moved /\ Judged /\ job' = job /\ pc' = "answer"
    BY <1>1, <2>1, FinishMoves DEF Remote, Check, Verdict
  <2>3. job' \in Job /\ PhaseInv'
    BY <1>1, <1>2, <2>2, TypeFacts DEF PhaseInv
  <2>4. QED
    BY <1>2, <2>2, <2>3, EvidenceKept DEF Stepped
<1>10. CASE MatchingNothing(job.query) = {}
  <2>1. job.uidvalidity = uidvalidity =>
          \A m \in mailbox : m.uid \in E => Matched(m)
    BY <1>1, <1>4, <1>10, EvidenceDeserved
  <2>2. job.uidvalidity = uidvalidity => \A u \in E : u < uidnext
    BY <1>1, <1>4 DEF Evidence, EvidenceInv
  <2>3. ASSUME job'.evidence = E, job'.hits = job.hits,
               job'.uidvalidity = job.uidvalidity, pc' # "negative"
        PROVE  EvidenceInv'
    <3>1. UNCHANGED <<mailbox, uidnext, uidvalidity, quirks, account>>
      BY <1>2 DEF folder
    <3>2. \A m \in mailbox : Matched(m) => Matched(m)'
      BY <3>1 DEF Matched
    <3>3. QED
      BY <1>1, <1>7, <2>1, <2>2, <2>3, <3>1, <3>2 DEF EvidenceInv
  <2>4. CASE L # {}
    <3>1. pc' = "search" /\ job' = j /\ checks' = checks /\ conn' = Closed
      BY <1>3, <1>4, <1>5, <1>6, <1>10, <2>4 DEF SearchNegative, Go
    <3>2. Moved /\ Judged
      BY <1>1, <3>1, TypeFacts DEF Moved, Judged, Remote
    <3>3. PhaseInv'
      BY <1>1, <1>2, <1>7, <1>8, <3>1 DEF PhaseInv
    <3>4. QED
      BY <1>8, <2>3, <3>1, <3>2, <3>3 DEF Stepped
  <2>5. CASE L = {}
    <3>1. PICK U : U = {u \in E : InScope(u)}
      OBVIOUS
    <3>2. \E v \in Verdict :
             EnterReadState(j, U, With("domain_header_search", v))
      BY <1>3, <1>4, <1>5, <1>6, <1>8, <1>10, <2>5, <3>1
         DEF SearchNegative, Verdict
    <3>3. /\ Moved /\ Judged
          /\ \/ pc' = "answer" /\ job' = job
             \/ U # {} /\ pc' = "seen" /\ job' = [j EXCEPT !.scan = NewestOf(U)]
      BY <1>1, <3>2, EnterDoes DEF Remote, Check
    <3>4. CASE pc' = "answer" /\ job' = job
      <4>1. job' \in Job /\ PhaseInv'
        BY <1>1, <1>2, <3>4, TypeFacts DEF PhaseInv
      <4>2. QED
        BY <1>2, <3>3, <3>4, <4>1, EvidenceKept DEF Stepped
    <3>5. CASE U # {} /\ pc' = "seen" /\ job' = [j EXCEPT !.scan = NewestOf(U)]
      <4>1. PICK S : S = NewestOf(U)
        OBVIOUS
      <4>2. S \subseteq U /\ S # {} /\ U \subseteq E
        <5>1. U \in SUBSET Nat /\ \E n \in Nat : \A u \in U : u <= n
          BY <1>1, <1>7, <3>1 DEF EvidenceInv, Uid
        <5>2. QED
          BY <3>1, <3>5, <4>1, <5>1, NewestSome
      <4>3. /\ job' \in Job /\ job'.left = L /\ job'.evidence = E
            /\ job'.hits = job.hits /\ job'.uidvalidity = job.uidvalidity
            /\ job'.scan = S
        <5>1. S \in SUBSET Uid
          BY <1>7, <4>2
        <5>2. [j EXCEPT !.scan = S] \in Job
          BY <1>8, <5>1, JobType
        <5>3. QED
          BY <1>8, <3>5, <4>1, <5>2 DEF Job
      <4>4. PhaseInv'
        BY <1>2, <1>7, <3>5, <4>2, <4>3 DEF PhaseInv
      <4>5. QED
        BY <2>3, <3>3, <3>5, <4>3, <4>4 DEF Stepped
    <3>6. QED
      BY <3>3, <3>4, <3>5
  <2>6. QED
    BY <2>4, <2>5
<1>11. QED
  BY <1>9, <1>10

LEMMA ScanFolderStep ==
    ASSUME ProbeInv, ScanFolder
    PROVE  Stepped
<1>1. TypeOK /\ PhaseInv /\ EvidenceInv /\ pc = "scan" /\ clock < Budget
  BY AnsweredEarly DEF ProbeInv, ScanFolder
<1>2. UNCHANGED <<folder, quirks, account>>
  BY DEF ScanFolder, Unchanged_but_goroutine, server
<1>3. account.full /\ job \in Job
  BY <1>1, TypeFacts DEF PhaseInv
<1>4. PICK U : U = {u \in Uids : quirks.ranges => InScope(u)}
  OBVIOUS
<1>5. EnterReadState(job, U, checks)
  BY <1>4 DEF ScanFolder
<1>6. CASE U = {}
  <2>1. Moved /\ Judged /\ job' = job /\ pc' = "answer"
    BY <1>1, <1>5, <1>6, FinishPlain DEF EnterReadState, Remote
  <2>2. job' \in Job /\ PhaseInv'
    BY <1>1, <1>2, <2>1, TypeFacts DEF PhaseInv
  <2>3. QED
    BY <1>2, <2>1, <2>2, EvidenceKept DEF Stepped
<1>7. CASE U # {}
  <2>1. PICK S : S = NewestOf(U)
    OBVIOUS
  <2>2. /\ pc' = "seen" /\ conn' = Closed /\ checks' = checks
        /\ job' = [job EXCEPT !.scan = S]
    BY <1>5, <1>7, <2>1 DEF EnterReadState, Go
  <2>3. S \subseteq U /\ S # {} /\ S \in SUBSET Uid
    <3>1. U \in SUBSET Nat /\ U \in SUBSET Uid /\ uidnext \in Nat
      BY <1>1, <1>4, TypeFacts
    <3>2. \A u \in U : u <= uidnext
      <4>1. \A u \in Uids : u < uidnext
        BY <1>1 DEF EvidenceInv, Uids
      <4>2. QED
        BY <1>4, <3>1, <4>1
    <3>3. QED
      BY <1>7, <2>1, <3>1, <3>2, NewestSome
  <2>4. /\ job' \in Job /\ job'.left = job.left /\ job'.evidence = job.evidence
        /\ job'.hits = job.hits /\ job'.uidvalidity = job.uidvalidity
        /\ job'.scan = S
    <3>1. [job EXCEPT !.scan = S] \in Job
      BY <1>3, <2>3, JobType
    <3>2. QED
      BY <1>3, <2>2, <3>1 DEF Job
  <2>5. Moved /\ Judged
    BY <1>1, <2>2, TypeFacts DEF Moved, Judged, Remote
  <2>6. PhaseInv'
    BY <1>1, <1>2, <1>3, <2>2, <2>3, <2>4 DEF PhaseInv
  <2>7. QED
    BY <1>2, <2>2, <2>4, <2>5, <2>6, EvidenceKept DEF Stepped
<1>8. QED
  BY <1>6, <1>7

\* The next candidate, in terms of the invariants.
LEMMA NextFixtureStep ==
    ASSUME ProbeInv, NextFixture, clock < Budget,
           pc \in {"seen", "before", "body", "after"},
           UNCHANGED <<folder, quirks, account>>
    PROVE  Stepped
<1>1. TypeOK /\ PhaseInv /\ job \in Job
  BY TypeFacts DEF ProbeInv
<1>2. /\ Moved /\ Judged
      /\ \/ pc' = "answer" /\ job' = job
         \/ /\ pc' = "seen"
            /\ job' = [job EXCEPT !.scan = job.scan \ {Current}]
            /\ job.scan \ {Current} # {}
  BY <1>1, NextFixtureDoes DEF Remote
<1>3. CASE pc' = "answer" /\ job' = job
  <2>1. job' \in Job /\ PhaseInv'
    BY <1>1, <1>3 DEF PhaseInv
  <2>2. QED
    BY <1>2, <1>3, <2>1, EvidenceKept DEF Stepped
<1>4. CASE pc' # "answer"
  <2>1. PICK S : S = job.scan \ {Current}
    OBVIOUS
  <2>2. /\ pc' = "seen" /\ job' = [job EXCEPT !.scan = S] /\ S # {}
        /\ S \subseteq job.scan
    BY <1>2, <1>4, <2>1
  <2>3. /\ job' \in Job /\ job'.left = job.left /\ job'.evidence = job.evidence
        /\ job'.hits = job.hits /\ job'.uidvalidity = job.uidvalidity
        /\ job'.scan = S
    <3>1. S \in SUBSET Uid
      BY <1>1, <2>2 DEF Job
    <3>2. [job EXCEPT !.scan = S] \in Job
      BY <1>1, <3>1, JobType
    <3>3. QED
      BY <1>1, <2>2, <3>2 DEF Job
  <2>4. PhaseInv'
    BY <1>1, <2>2, <2>3 DEF PhaseInv
  <2>5. QED
    BY <1>2, <2>2, <2>3, <2>4, EvidenceKept DEF Stepped
<1>5. QED
  BY <1>2, <1>3, <1>4

LEMMA FetchSeenStateStep ==
    ASSUME ProbeInv, FetchSeenState
    PROVE  Stepped
<1>1. TypeOK /\ PhaseInv /\ pc = "seen" /\ clock < Budget
  BY AnsweredEarly DEF ProbeInv, FetchSeenState
<1>2. UNCHANGED <<folder, quirks, account>>
  BY DEF FetchSeenState, Unchanged_but_goroutine, server
<1>3. CASE Go("before", job, checks)
  <2>1. pc' = "before" /\ job' = job /\ checks' = checks /\ conn' = Closed
    BY <1>3 DEF Go
  <2>2. Moved /\ Judged /\ job' \in Job
    BY <1>1, <2>1, TypeFacts DEF Moved, Judged, Remote
  <2>3. PhaseInv'
    BY <1>1, <1>2, <2>1 DEF PhaseInv
  <2>4. QED
    BY <1>2, <2>1, <2>2, <2>3, EvidenceKept DEF Stepped
<1>4. CASE NextFixture
  BY <1>1, <1>2, <1>4, NextFixtureStep
<1>5. QED
  BY <1>3, <1>4 DEF FetchSeenState

LEMMA SeenBeforeStep ==
    ASSUME ProbeInv, SeenBefore
    PROVE  Stepped
<1>1. TypeOK /\ PhaseInv /\ pc = "before" /\ clock < Budget
  BY AnsweredEarly DEF ProbeInv, SeenBefore
<1>2. UNCHANGED <<folder, quirks, account>>
  BY DEF SeenBefore, Unchanged_but_goroutine, server
<1>3. CASE Fetched = {}
  BY <1>1, <1>2, <1>3, NextFixtureStep DEF SeenBefore
<1>4. CASE Fetched # {}
  <2>1. PICK b \in BOOLEAN : b = \E m \in Fetched : m.seen
    OBVIOUS
  <2>2. /\ pc' = "body" /\ conn' = conn /\ checks' = checks
        /\ job' = [job EXCEPT !.seenBefore = b]
    BY <1>4, <2>1 DEF SeenBefore
  <2>3. /\ job' \in Job /\ job'.left = job.left /\ job'.evidence = job.evidence
        /\ job'.hits = job.hits /\ job'.uidvalidity = job.uidvalidity
        /\ job'.scan = job.scan
    <3>1. job \in Job
      BY <1>1, TypeFacts
    <3>2. [job EXCEPT !.seenBefore = b] \in Job
      BY <3>1, JobType
    <3>3. QED
      BY <2>2, <3>1, <3>2 DEF Job
  <2>4. Moved /\ Judged
    BY <1>1, <2>2, TypeFacts DEF Moved, Judged, Remote
  <2>5. PhaseInv'
    BY <1>1, <1>2, <2>2, <2>3 DEF PhaseInv
  <2>6. QED
    BY <1>2, <2>2, <2>3, <2>4, <2>5, EvidenceKept DEF Stepped
<1>5. QED
  BY <1>3, <1>4

LEMMA SeenAfterStep ==
    ASSUME ProbeInv, SeenAfter
    PROVE  Stepped
<1>1. TypeOK /\ PhaseInv /\ pc = "after" /\ clock < Budget
  BY AnsweredEarly DEF ProbeInv, SeenAfter
<1>2. UNCHANGED <<folder, quirks, account>>
  BY DEF SeenAfter, Unchanged_but_goroutine, server
<1>3. CASE NextFixture
  BY <1>1, <1>2, <1>3, NextFixtureStep
<1>4. CASE ~(Fetched = {} \/ job.seenBefore)
  <2>1. PICK v : v = IF \E m \in Fetched : m.seen THEN "refuted" ELSE "passed"
    OBVIOUS
  <2>2. v \in Verdict /\ Finish(With("read_state", v))
    BY <1>4, <2>1 DEF SeenAfter, Verdict
  <2>3. Moved /\ Judged /\ job' = job /\ pc' = "answer"
    BY <1>1, <2>2, FinishMoves DEF Remote, Check
  <2>4. job' \in Job /\ PhaseInv'
    BY <1>1, <1>2, <2>3, TypeFacts DEF PhaseInv
  <2>5. QED
    BY <1>2, <2>3, <2>4, EvidenceKept DEF Stepped
<1>5. QED
  BY <1>3, <1>4 DEF SeenAfter

LEMMA FaultStep ==
    ASSUME ProbeInv, Fault
    PROVE  Stepped
<1>1. TypeOK /\ PhaseInv /\ pc \in Remote
  BY DEF ProbeInv, Fault
<1>2. UNCHANGED <<folder, quirks, account>>
  BY DEF Fault, Unchanged_but_goroutine, server
<1>3. CASE pc \in {"listAll", "listOne"}
  BY <1>2, <1>3, UIDStep DEF Fault, Verdict
<1>4. CASE pc \notin {"listAll", "listOne"}
  <2>1. PICK c : c = CheckOf(pc)
    OBVIOUS
  <2>2. c \in Check /\ Finish(With(c, "failed"))
    BY <1>4, <2>1 DEF Fault, CheckOf, Check
  <2>3. Moved /\ Judged /\ job' = job /\ pc' = "answer"
    BY <1>1, <2>2, FinishMoves DEF Verdict
  <2>4. job' \in Job /\ PhaseInv'
    BY <1>1, <1>2, <2>3, TypeFacts DEF PhaseInv
  <2>5. QED
    BY <1>2, <2>3, <2>4, EvidenceKept DEF Stepped
<1>5. QED
  BY <1>3, <1>4

-----------------------------------------------------------------------------
(* The mailbox changes *)

\* Old messages keep UID and kind, new ones get UIDs of their own.
Grown ==
    /\ uidvalidity' = uidvalidity /\ uidnext' \in Nat /\ uidnext <= uidnext'
    /\ \A m \in mailbox' :
          \/ \E n \in mailbox : n.uid = m.uid /\ n.kind = m.kind
          \/ uidnext <= m.uid /\ m.uid < uidnext'

\* A new generation.
Renewed ==
    /\ uidvalidity' \in Nat /\ uidvalidity < uidvalidity'
    /\ \A m \in mailbox' : m.uid < uidnext'

\* What the probe knows of the folder survives both.
LEMMA MailboxChanges ==
    ASSUME TypeOK, EvidenceInv, Grown \/ Renewed, mailbox' \in SUBSET Message,
           \A m, n \in mailbox' : m.uid = n.uid => m = n,
           job' = job, account' = account, quirks' = quirks,
           pc' = "negative" => pc = "negative"
    PROVE  EvidenceInv'
<1>1. /\ uidnext \in Nat /\ uidvalidity \in Nat /\ job.uidvalidity \in Nat
      /\ job.evidence \subseteq Nat /\ job.hits \subseteq Nat
      /\ \A m \in mailbox : m.uid \in Nat
      /\ \A m \in mailbox' : m.uid \in Nat
  BY DEF TypeOK, Job, Uid, Message
<1>2. \A m \in mailbox' : m.uid < uidnext'
  <2>1. CASE Renewed
    BY <2>1 DEF Renewed
  <2>2. CASE Grown
    BY <1>1, <2>2 DEF Grown, EvidenceInv
  <2>3. QED
    BY <2>1, <2>2
<1>3. job'.uidvalidity <= uidvalidity'
  <2>1. job.uidvalidity <= uidvalidity
    BY DEF EvidenceInv
  <2>2. QED
    BY <1>1, <2>1 DEF Grown, Renewed
<1>4. \E n \in Nat : \A u \in job'.evidence \cup job'.hits : u <= n
  BY DEF EvidenceInv
<1>5. ASSUME job'.uidvalidity = uidvalidity'
      PROVE  /\ \A u \in job.evidence : u < uidnext'
             /\ \A m \in mailbox' : m.uid \in job.evidence => Matched(m)'
             /\ pc' = "negative" /\ Target[job.query] = "folder" =>
                   /\ \A u \in job.hits : u < uidnext'
                   /\ \A m \in mailbox' : m.uid \in job.hits /\ ~quirks.overbroad
                                          => m.kind \in HitBy[job.query]
  <2>1. Grown /\ job.uidvalidity = uidvalidity
    <3>1. job.uidvalidity <= uidvalidity
      BY DEF EvidenceInv
    <3>2. job.uidvalidity = uidvalidity'
      BY <1>5
    <3>3. ~Renewed
      BY <1>1, <3>1, <3>2 DEF Renewed
    <3>4. QED
      BY <3>2, <3>3 DEF Grown
  <2>2. /\ \A u \in job.evidence : u < uidnext
        /\ \A m \in mailbox : m.uid \in job.evidence => Matched(m)
        /\ pc' = "negative" /\ Target[job.query] = "folder" =>
              /\ \A u \in job.hits : u < uidnext
              /\ \A m \in mailbox : m.uid \in job.hits /\ ~quirks.overbroad
                                     => m.kind \in HitBy[job.query]
    BY <2>1 DEF EvidenceInv
  <2>3. \A m \in mailbox' : \A u \in Nat : m.uid = u /\ u < uidnext =>
           \E n \in mailbox : n.uid = m.uid /\ n.kind = m.kind
    BY <1>1, <2>1 DEF Grown
  <2>4. ASSUME NEW m \in mailbox', m.uid \in job.evidence
        PROVE  Matched(m)'
    <3>1. PICK n \in mailbox : n.uid = m.uid /\ n.kind = m.kind
      BY <1>1, <2>2, <2>3, <2>4
    <3>2. Matched(n)
      BY <2>2, <2>4, <3>1
    <3>3. QED
      BY <3>1, <3>2 DEF Matched
  <2>5. \A u \in job.evidence : u < uidnext'
    BY <1>1, <2>1, <2>2 DEF Grown
  <2>6. ASSUME pc' = "negative", Target[job.query] = "folder"
        PROVE  /\ \A u \in job.hits : u < uidnext'
               /\ \A m \in mailbox' : m.uid \in job.hits /\ ~quirks.overbroad
                                      => m.kind \in HitBy[job.query]
    <3>1. \A u \in job.hits : u < uidnext'
      BY <1>1, <2>1, <2>2, <2>6 DEF Grown
    <3>2. ASSUME NEW m \in mailbox', m.uid \in job.hits, ~quirks.overbroad
          PROVE  m.kind \in HitBy[job.query]
      <4>1. PICK n \in mailbox : n.uid = m.uid /\ n.kind = m.kind
        BY <1>1, <2>2, <2>3, <2>6, <3>2
      <4>2. QED
        BY <2>2, <2>6, <3>2, <4>1
    <3>3. QED
      BY <3>1, <3>2
  <2>7. QED
    BY <2>4, <2>5, <2>6
<1>6. QED
  BY <1>2, <1>3, <1>4, <1>5 DEF EvidenceInv

\* The last part of the read-state check may set a flag, nothing else.
LEMMA PeekBodyStep ==
    ASSUME ProbeInv, PeekBody
    PROVE  Stepped /\ mailbox' \in SUBSET Message
<1>1. TypeOK /\ PhaseInv /\ EvidenceInv /\ pc = "body" /\ clock < Budget
  BY AnsweredEarly DEF ProbeInv, PeekBody
<1>2. /\ pc' = "after" /\ job' = job /\ conn' = conn /\ checks' = checks
      /\ account' = account /\ quirks' = quirks
      /\ uidvalidity' = uidvalidity /\ uidnext' = uidnext
  BY DEF PeekBody
<1>3. PICK F : F = Fetched
  OBVIOUS
<1>4. PICK marks \in BOOLEAN : marks = quirks.marks
  BY <1>1, QuirkAssumption DEF TypeOK
<1>5. mailbox' = {IF marks /\ m \in F THEN [m EXCEPT !.seen = TRUE] ELSE m :
                     m \in mailbox}
  BY <1>3, <1>4 DEF PeekBody
<1>6. mailbox \in SUBSET Message
  BY <1>1 DEF TypeOK
<1>7. \A m \in mailbox :
         LET n == IF marks /\ m \in F THEN [m EXCEPT !.seen = TRUE] ELSE m
         IN n \in Message /\ n.uid = m.uid /\ n.kind = m.kind
  BY <1>6 DEF Message
<1>8. mailbox' \in SUBSET Message
  BY <1>5, <1>7
<1>9. \A m \in mailbox' : \E n \in mailbox : n.uid = m.uid /\ n.kind = m.kind
  BY <1>5, <1>7
<1>10. \A m, n \in mailbox' : m.uid = n.uid => m = n
  <2> SUFFICES ASSUME NEW m \in mailbox', NEW n \in mailbox', m.uid = n.uid
               PROVE  m = n
    OBVIOUS
  <2>1. PICK a \in mailbox :
          m = IF marks /\ a \in F THEN [a EXCEPT !.seen = TRUE] ELSE a
    BY <1>5
  <2>2. PICK b \in mailbox :
          n = IF marks /\ b \in F THEN [b EXCEPT !.seen = TRUE] ELSE b
    BY <1>5
  <2>3. m.uid = a.uid /\ n.uid = b.uid
    BY <1>7, <2>1, <2>2
  <2>4. a = b
    BY <1>1, <2>3 DEF EvidenceInv
  <2>5. QED
    BY <2>1, <2>2, <2>4
<1>11. Grown
  BY <1>1, <1>2, <1>9, TypeFacts DEF Grown
<1>12. EvidenceInv'
  BY <1>1, <1>2, <1>8, <1>10, <1>11, MailboxChanges
<1>13. Moved /\ Judged /\ job' \in Job
  BY <1>1, <1>2, TypeFacts DEF Moved, Judged, Remote
<1>14. PhaseInv'
  BY <1>1, <1>2 DEF PhaseInv
<1>15. QED
  BY <1>8, <1>12, <1>13, <1>14 DEF Stepped

\* What other clients do, in terms of the mailbox.
LEMMA OthersChange ==
    ASSUME TypeOK, EvidenceInv, Others
    PROVE  /\ Grown \/ Renewed
           /\ mailbox' \in SUBSET Message /\ uidnext' \in Uid
           /\ uidvalidity' \in Nat /\ sent' \in BOOLEAN
           /\ \A m, n \in mailbox' : m.uid = n.uid => m = n
           /\ Touched
<1>1. /\ mailbox \in SUBSET Message /\ uidnext \in Uid /\ uidnext \in Nat
      /\ uidvalidity \in Nat /\ sent \in BOOLEAN
      /\ \A m \in mailbox : m.uid < uidnext
      /\ \A m, n \in mailbox : m.uid = n.uid => m = n
  BY DEF TypeOK, EvidenceInv, Uid
<1>2. ASSUME NEW k \in Kind, Deliver(k)
      PROVE  /\ Grown /\ mailbox' \in SUBSET Message /\ uidnext' \in Uid
             /\ uidvalidity' \in Nat /\ sent' \in BOOLEAN /\ Touched
             /\ \A m, n \in mailbox' : m.uid = n.uid => m = n
  <2>1. PICK new : new = [uid |-> uidnext, kind |-> k, seen |-> FALSE]
    OBVIOUS
  <2>2. new \in Message /\ new.uid = uidnext
    BY <1>1, <2>1 DEF Message
  <2>3. /\ mailbox' = mailbox \cup {new} /\ uidnext' = uidnext + 1
        /\ uidvalidity' = uidvalidity /\ sent' = sent /\ Touched
    BY <1>2, <2>1 DEF Deliver
  <2>4. \A m \in mailbox : m.uid # new.uid
    BY <1>1, <2>2
  <2>5. Grown
    BY <1>1, <2>2, <2>3 DEF Grown
  <2>6. QED
    BY <1>1, <2>2, <2>3, <2>4, <2>5 DEF Uid
<1>3. ASSUME NEW d \in mailbox, Expunge(d)
      PROVE  /\ Grown /\ mailbox' \in SUBSET Message /\ uidnext' \in Uid
             /\ uidvalidity' \in Nat /\ sent' \in BOOLEAN /\ Touched
             /\ \A m, n \in mailbox' : m.uid = n.uid => m = n
  BY <1>1, <1>3 DEF Expunge, Grown
<1>4. ASSUME NEW d \in mailbox, ChangeSeen(d)
      PROVE  /\ Grown /\ mailbox' \in SUBSET Message /\ uidnext' \in Uid
             /\ uidvalidity' \in Nat /\ sent' \in BOOLEAN /\ Touched
             /\ \A m, n \in mailbox' : m.uid = n.uid => m = n
  <2>1. PICK new : new = [d EXCEPT !.seen = ~d.seen]
    OBVIOUS
  <2>2. new \in Message /\ new.uid = d.uid /\ new.kind = d.kind
    BY <1>1, <2>1 DEF Message
  <2>3. /\ mailbox' = (mailbox \ {d}) \cup {new} /\ uidnext' = uidnext
        /\ uidvalidity' = uidvalidity /\ sent' = sent /\ Touched
    BY <1>4, <2>1 DEF ChangeSeen
  <2>4. Grown
    BY <1>1, <2>2, <2>3 DEF Grown
  <2>5. QED
    BY <1>1, <2>2, <2>3, <2>4
<1>5. ASSUME Recreate
      PROVE  /\ Renewed /\ mailbox' \in SUBSET Message /\ uidnext' \in Uid
             /\ uidvalidity' \in Nat /\ sent' \in BOOLEAN /\ Touched
             /\ \A m, n \in mailbox' : m.uid = n.uid => m = n
  <2>1. PICK k \in Kind : mailbox' = {[uid |-> 1, kind |-> k, seen |-> FALSE]}
    BY <1>5 DEF Recreate
  <2>2. QED
    BY <1>1, <1>5, <2>1 DEF Recreate, Renewed, Message, Uid
<1>6. ASSUME Elsewhere
      PROVE  /\ Grown /\ mailbox' \in SUBSET Message /\ uidnext' \in Uid
             /\ uidvalidity' \in Nat /\ sent' \in BOOLEAN /\ Touched
             /\ \A m, n \in mailbox' : m.uid = n.uid => m = n
  BY <1>1, <1>6 DEF Elsewhere, Grown
<1>7. QED
  BY <1>2, <1>3, <1>4, <1>5, <1>6 DEF Others

-----------------------------------------------------------------------------
(* The invariant *)

\* Numbers for the arithmetic below.
LEMMA TimeFacts ==
    ASSUME TypeOK
    PROVE  /\ clock \in Nat /\ conn.since \in Nat
           /\ Budget \in Nat /\ DialTimeout \in Nat /\ Pause \in Nat
           /\ Budget < DialTimeout
           /\ conn.state \in {"closed", "dialing", "open"}
           /\ LastPause \in {Budget, Budget + Pause + DialTimeout}
BY TypeFacts, TimeAssumption DEF Conn, LastPause

\* A step of the checklist comes within the budget, or takes it from an early
\* phase to a later one.
LEMMA SpentOnce ==
    ASSUME TypeOK, TimeInv, pc \in Remote,
           \/ clock < Budget
           \/ pc \in {"listAll", "listOne"} /\ pc' \in {"scan", "search"}
    PROVE  clock <= LastPause'
<1>1. LastPause' \in {Budget, Budget + Pause + DialTimeout}
  BY DEF LastPause
<1>2. CASE clock < Budget
  BY <1>1, <1>2, TimeFacts
<1>3. CASE pc \in {"listAll", "listOne"} /\ pc' \in {"scan", "search"}
  <2>1. LastPause = Budget /\ LastPause' = Budget + Pause + DialTimeout
    BY <1>3 DEF LastPause, Early
  <2>2. \/ conn.since <= Budget /\ clock <= conn.since + Pause
        \/ clock <= Budget
        \/ conn.since <= Budget + Pause /\ clock <= conn.since + DialTimeout
    BY <2>1 DEF TimeInv
  <2>3. QED
    BY <2>1, <2>2, TimeFacts
<1>4. QED
  BY <1>2, <1>3

\* The steps of the checklist take no time and leave the rest alone.
LEMMA ChecklistQuick ==
    ASSUME TypeOK,
           \/ Capabilities \/ Folders \/ SelectFolder \/ ListUIDs \/ ListFirstUID
           \/ SearchDomain \/ SearchNegative \/ ScanFolder \/ FetchSeenState
           \/ SeenBefore \/ SeenAfter \/ Fault \/ PeekBody
    PROVE  /\ UNCHANGED <<clock, client, account, quirks, changes, sent,
                          uidvalidity, uidnext>>
           /\ disturbed' \in BOOLEAN
           /\ PeekBody \/ mailbox' = mailbox
BY DEF TypeOK, server, folder, Unchanged_but_goroutine, Capabilities, Folders,
       SelectFolder, ListUIDs, ListFirstUID, SearchDomain, SearchNegative,
       ScanFolder, FetchSeenState, SeenBefore, SeenAfter, Fault, PeekBody

LEMMA ChecklistStep ==
    ASSUME ProbeInv,
           \/ Capabilities \/ Folders \/ SelectFolder \/ ListUIDs \/ ListFirstUID
           \/ SearchDomain \/ SearchNegative \/ ScanFolder \/ FetchSeenState
           \/ SeenBefore \/ SeenAfter \/ Fault \/ PeekBody
    PROVE  Stepped /\ ProbeInv'
<1>1. TypeOK /\ TimeInv
  BY DEF ProbeInv
<1>2. Stepped
  BY CapabilitiesStep, FoldersStep, SelectFolderStep, ListUIDsStep,
     ListFirstUIDStep, SearchDomainStep, SearchNegativeStep, ScanFolderStep,
     FetchSeenStateStep, SeenBeforeStep, SeenAfterStep, FaultStep, PeekBodyStep
<1>3. /\ UNCHANGED <<clock, client, account, quirks, changes, sent,
                     uidvalidity, uidnext>>
      /\ disturbed' \in BOOLEAN
      /\ mailbox' \in SUBSET Message
  BY <1>1, ChecklistQuick, PeekBodyStep DEF TypeOK
<1>4. Moved /\ Judged /\ job' \in Job /\ PhaseInv' /\ EvidenceInv'
  BY <1>2 DEF Stepped
<1>5. conn' \in Conn /\ pc' \in Phase
  <2>1. conn \in Conn /\ clock \in Nat
    BY <1>1, TypeFacts
  <2>2. Closed \in Conn /\ NoConn \in Conn
    BY <2>1 DEF Closed, NoConn, Conn
  <2>3. conn' \in Conn
    BY <1>4, <2>1, <2>2 DEF Moved
  <2>4. pc' \in Phase
    BY <1>4 DEF Moved, Phase, Remote
  <2>5. QED
    BY <2>3, <2>4
<1>6. TypeOK'
  BY <1>1, <1>3, <1>4, <1>5 DEF TypeOK, Judged, Checks, Conn
<1>7. TimeInv'
  <2>1. OverrunBounded'
    BY <1>1, <1>3 DEF TimeInv, OverrunBounded
  <2>2. CASE pc' = "answer"
    BY <2>1, <2>2 DEF TimeInv, Remote
  <2>3. CASE pc' \in {"body", "after"} /\ conn' = conn /\ pc \in {"before", "body"}
    BY <1>1, <1>3, <2>1, <2>3 DEF TimeInv, LastPause, Early, Remote
  <2>4. CASE pc' # "answer" /\ conn' = Closed
    <3>1. conn'.state = "closed" /\ conn'.since = clock
      BY <2>4 DEF Closed
    <3>2. clock <= LastPause'
      BY <1>4, <2>4, SpentOnce DEF ProbeInv, Moved
    <3>3. clock <= clock + Pause /\ clock' = clock
      BY <1>1, <1>3, TypeFacts, TimeAssumption
    <3>4. QED
      BY <2>1, <3>1, <3>2, <3>3 DEF TimeInv
  <2>5. QED
    BY <1>4, <2>2, <2>3, <2>4 DEF Moved
<1>8. QED
  BY <1>2, <1>4, <1>6, <1>7 DEF ProbeInv

\* Where nothing of the folder and of the checklist changes, what is known stays.
LEMMA KnowledgeKept ==
    ASSUME ProbeInv, UNCHANGED <<folder, quirks, account, pc, job>>
    PROVE  PhaseInv' /\ EvidenceInv'
<1>1. UNCHANGED <<mailbox, uidnext, uidvalidity>>
  BY DEF folder
<1>2. PhaseInv'
  BY DEF ProbeInv, PhaseInv
<1>3. \A m \in mailbox : Matched(m) => Matched(m)'
  BY DEF Matched
<1>4. EvidenceInv'
  BY <1>1, <1>3 DEF ProbeInv, EvidenceInv
<1>5. QED
  BY <1>2, <1>4

LEMMA ConnectStep ==
    ASSUME ProbeInv, Connect
    PROVE  ProbeInv'
<1>1. TypeOK /\ TimeInv /\ conn \in Conn
  BY TypeFacts DEF ProbeInv
<1>2. /\ conn' \in Conn /\ conn'.since = conn.since
      /\ conn.state = "dialing" /\ conn'.state = "open"
      /\ UNCHANGED <<server, account, clock, pc, job, checks, client, disturbed>>
  BY <1>1 DEF Connect, Conn
<1>3. TypeOK'
  BY <1>1, <1>2 DEF TypeOK, server, folder
<1>4. TimeInv'
  BY <1>1, <1>2 DEF TimeInv, OverrunBounded, LastPause
<1>5. QED
  BY <1>2, <1>3, <1>4, KnowledgeKept DEF ProbeInv, server

\* A session begins to dial after its pause at the latest.
LEMMA DialStep ==
    ASSUME ProbeInv, Dial
    PROVE  ProbeInv'
<1>1. TypeOK /\ TimeInv
  BY DEF ProbeInv
<1>2. /\ conn' = [state |-> "dialing", since |-> clock]
      /\ pc \in Remote /\ conn.state = "closed"
      /\ UNCHANGED <<server, account, clock, pc, job, checks, client, disturbed>>
  BY DEF Dial
<1>3. conn' \in Conn /\ conn'.state = "dialing" /\ conn'.since = clock
  BY <1>1, <1>2, TimeFacts DEF Conn
<1>4. TypeOK'
  BY <1>1, <1>2, <1>3 DEF TypeOK, server, folder
<1>5. clock <= LastPause + Pause /\ clock <= clock + DialTimeout
  <2>1. conn.since <= LastPause /\ clock <= conn.since + Pause
    BY <1>1, <1>2 DEF TimeInv
  <2>2. QED
    BY <1>1, <2>1, TimeFacts
<1>6. OverrunBounded' /\ LastPause' = LastPause /\ clock' = clock
  BY <1>1, <1>2 DEF TimeInv, OverrunBounded, LastPause
<1>7. TimeInv'
  BY <1>3, <1>5, <1>6 DEF TimeInv
<1>8. QED
  BY <1>2, <1>4, <1>7, KnowledgeKept DEF ProbeInv, server

\* A dial that begins within the budget ends within it, one that begins later
\* takes the whole time of a session; on what it opens no time passes.
LEMMA TickStep ==
    ASSUME ProbeInv, Tick
    PROVE  ProbeInv'
<1>1. TypeOK /\ TimeInv
  BY DEF ProbeInv
<1>2. /\ clock' = clock + 1 /\ pc \in Remote /\ clock < WaitLimit
      /\ UNCHANGED <<server, account, conn, pc, job, checks, client, disturbed>>
  BY DEF Tick
<1>3. TypeOK'
  BY <1>1, <1>2 DEF TypeOK, server, folder
<1>4. LastPause' = LastPause
  BY <1>2 DEF LastPause
<1>5. CASE conn.state = "closed"
  <2>1. conn.since <= LastPause /\ clock < conn.since + Pause
    BY <1>1, <1>2, <1>5 DEF TimeInv, WaitLimit
  <2>2. clock + 1 <= conn.since + Pause
    BY <1>1, <2>1, TimeFacts
  <2>3. clock + 1 <= Budget + 2 * (Pause + DialTimeout)
    BY <1>1, <2>1, <2>2, TimeFacts
  <2>4. OverrunBounded'
    BY <1>2, <2>3 DEF OverrunBounded
  <2>5. conn' = conn /\ clock' <= conn.since + Pause
    BY <1>2, <2>2
  <2>6. TimeInv'
    BY <1>4, <1>5, <2>1, <2>4, <2>5 DEF TimeInv
  <2>7. QED
    BY <1>2, <1>3, <2>6, KnowledgeKept DEF ProbeInv, server
<1>6. CASE conn.state # "closed"
  <2>1. /\ conn.since <= LastPause + Pause
        /\ clock < Budget \/ clock < conn.since + DialTimeout
    <3>1. CASE conn.state = "dialing"
      <4>1. clock < DialLimit(conn.since)
        BY <1>2, <3>1 DEF WaitLimit
      <4>2. clock < Budget \/ clock < conn.since + DialTimeout
        BY <1>1, <4>1, TimeFacts DEF DialLimit
      <4>3. QED
        BY <1>1, <1>2, <1>6, <4>2 DEF TimeInv
    <3>2. CASE conn.state = "open"
      <4>1. clock < Deadline(conn.since)
        BY <1>2, <3>2 DEF WaitLimit
      <4>2. clock < Budget \/ clock < conn.since + DialTimeout
        BY <1>1, <4>1, TimeFacts DEF Deadline
      <4>3. QED
        BY <1>1, <1>2, <1>6, <4>2 DEF TimeInv
    <3>3. QED
      BY <1>1, <1>6, <3>1, <3>2, TimeFacts
  <2>2. clock + 1 <= Budget \/ clock + 1 <= conn.since + DialTimeout
    BY <1>1, <2>1, TimeFacts
  <2>3. clock + 1 <= Budget + 2 * (Pause + DialTimeout)
    BY <1>1, <2>1, <2>2, TimeFacts
  <2>4. OverrunBounded'
    BY <1>2, <2>3 DEF OverrunBounded
  <2>5. /\ conn' = conn
        /\ clock' <= Budget \/ clock' <= conn.since + DialTimeout
    BY <1>2, <2>2
  <2>6. TimeInv'
    BY <1>4, <1>6, <2>1, <2>4, <2>5 DEF TimeInv
  <2>7. QED
    BY <1>2, <1>3, <2>6, KnowledgeKept DEF ProbeInv, server
<1>7. QED
  BY <1>5, <1>6

LEMMA AskStep ==
    ASSUME ProbeInv, Ask
    PROVE  ProbeInv'
<1>1. TypeOK /\ EvidenceInv
  BY DEF ProbeInv
<1>2. /\ account' \in Account /\ clock' = 0 /\ client' = "waiting"
      /\ disturbed' = FALSE /\ job' = NoJob /\ UNCHANGED server
      /\ \/ pc' = "capability" /\ conn' = NoConn
         \/ pc' = "answer" /\ conn' = NoConn
  BY DEF Ask
<1>3. checks' \in Checks
  BY DEF Ask, NoChecks, Checks, Verdict
<1>4. TypeOK'
  <2>1. conn' = NoConn /\ pc' \in Phase
    BY <1>2 DEF NoConn, Phase, Remote
  <2>2. NoConn \in Conn
    BY DEF NoConn, Conn
  <2>3. QED
    BY <1>1, <1>2, <1>3, <2>1, <2>2, NoJobType DEF TypeOK, Checks, server, folder
<1>5. TimeInv'
  <2>1. OverrunBounded'
    BY <1>2, TimeAssumption DEF OverrunBounded
  <2>2. conn'.state = "closed" /\ conn'.since = 0
    BY <1>2 DEF NoConn
  <2>3. 0 <= LastPause' /\ 0 <= 0 + Pause
    BY TimeAssumption DEF LastPause
  <2>4. QED
    BY <1>2, <2>1, <2>2, <2>3 DEF TimeInv
<1>6. PhaseInv'
  BY <1>2, NoJobType DEF PhaseInv
<1>7. EvidenceInv'
  BY <1>1, <1>2, NoJobType DEF TypeOK, EvidenceInv, server, folder
<1>8. QED
  BY <1>4, <1>5, <1>6, <1>7 DEF ProbeInv

LEMMA RespondStep ==
    ASSUME ProbeInv, Respond
    PROVE  ProbeInv'
<1>1. TypeOK /\ EvidenceInv
  BY DEF ProbeInv
<1>2. /\ clock' = 0 /\ disturbed' = FALSE /\ job' = NoJob /\ pc' = "idle"
      /\ checks' = NoChecks /\ UNCHANGED <<server, account, conn>>
      /\ client' \in {client, "passed", "failed", "inconclusive"}
  BY DEF Respond, Status
<1>3. checks' \in Checks
  BY <1>2 DEF NoChecks, Checks, Verdict
<1>4. TypeOK'
  BY <1>1, <1>2, <1>3, NoJobType DEF TypeOK, Checks, Phase, server, folder
<1>5. TimeInv'
  BY <1>2, TimeAssumption DEF TimeInv, OverrunBounded, Remote, Early
<1>6. PhaseInv'
  BY <1>2, NoJobType DEF PhaseInv
<1>7. EvidenceInv'
  BY <1>1, <1>2, NoJobType DEF TypeOK, EvidenceInv, server, folder
<1>8. QED
  BY <1>4, <1>5, <1>6, <1>7 DEF ProbeInv

LEMMA OthersStep ==
    ASSUME ProbeInv, Others
    PROVE  ProbeInv'
<1>1. TypeOK /\ TimeInv /\ PhaseInv /\ EvidenceInv
  BY DEF ProbeInv
<1>2. /\ Grown \/ Renewed
      /\ mailbox' \in SUBSET Message /\ uidnext' \in Uid
      /\ uidvalidity' \in Nat /\ sent' \in BOOLEAN
      /\ \A m, n \in mailbox' : m.uid = n.uid => m = n
      /\ Touched
  BY <1>1, OthersChange
<1>3. /\ UNCHANGED <<quirks, account, clock, conn, pc, job, checks, client>>
      /\ disturbed' = TRUE /\ changes' = changes + 1
  BY <1>2 DEF Touched
<1>4. TypeOK'
  BY <1>1, <1>2, <1>3 DEF TypeOK
<1>5. TimeInv'
  BY <1>1, <1>3 DEF TimeInv, OverrunBounded, LastPause
<1>6. PhaseInv'
  BY <1>1, <1>3 DEF PhaseInv
<1>7. EvidenceInv'
  BY <1>1, <1>2, <1>3, MailboxChanges
<1>8. QED
  BY <1>4, <1>5, <1>6, <1>7 DEF ProbeInv

\* A step that concerns only the client.
LEMMA ClientStep ==
    ASSUME ProbeInv, Refuse \/ ClientTimesOut \/ UNCHANGED vars
    PROVE  ProbeInv'
<1>1. /\ UNCHANGED <<server, account, clock, conn, pc, job, checks, disturbed>>
      /\ client' \in {client, "refused", "gone"}
  BY DEF Refuse, ClientTimesOut, vars
<1>2. TypeOK'
  BY <1>1 DEF ProbeInv, TypeOK, server, folder
<1>3. TimeInv'
  BY <1>1 DEF ProbeInv, TimeInv, OverrunBounded, LastPause
<1>4. QED
  BY <1>1, <1>2, <1>3, KnowledgeKept DEF ProbeInv, server

LEMMA InitProbeInv ==
    ASSUME Init
    PROVE  ProbeInv
<1>1. /\ account \in Account
      /\ pc = "idle" /\ job = NoJob /\ checks = NoChecks /\ conn = NoConn
      /\ clock = 0 /\ uidvalidity = 1
  BY AccountAssumption DEF Init
<1>2. PICK n \in 0..(MaxUid - 1) : \E kinds \in [1..n -> Kind] :
         /\ mailbox = {[uid |-> u, kind |-> kinds[u], seen |-> FALSE] : u \in 1..n}
         /\ uidnext = n + 1
  BY DEF Init
<1>3. PICK kinds \in [1..n -> Kind] :
         mailbox = {[uid |-> u, kind |-> kinds[u], seen |-> FALSE] : u \in 1..n}
  BY <1>2
<1>4. uidnext = n + 1 /\ n \in Nat
  BY <1>2, TimeAssumption
<1>5. mailbox \in SUBSET Message
  <2> SUFFICES ASSUME NEW u \in 1..n
               PROVE  [uid |-> u, kind |-> kinds[u], seen |-> FALSE] \in Message
    BY <1>3
  <2>1. QED
    BY <1>4 DEF Message, Uid
<1>6. /\ \A m \in mailbox : m.uid < uidnext
      /\ \A m, k \in mailbox : m.uid = k.uid => m = k
  <2>1. ASSUME NEW m \in mailbox
        PROVE  /\ m.uid \in 1..n
               /\ m = [uid |-> m.uid, kind |-> kinds[m.uid], seen |-> FALSE]
    BY <1>3
  <2>2. \A u \in 1..n : u < n + 1
    BY <1>4
  <2>3. QED
    BY <1>4, <2>1, <2>2
<1>7. TypeOK
  <2>1. /\ conn \in Conn /\ pc \in Phase
        /\ checks \in [Check -> Verdict]
    BY <1>1 DEF NoConn, Conn, Phase, NoChecks, Verdict
  <2>2. uidnext \in Uid /\ clock \in Nat /\ uidvalidity \in Nat
    BY <1>1, <1>4 DEF Uid
  <2>3. /\ quirks \in Quirks /\ sent \in BOOLEAN /\ disturbed \in BOOLEAN
        /\ changes \in Nat /\ client = "none"
    BY DEF Init
  <2>4. QED
    BY <1>1, <1>5, <2>1, <2>2, <2>3, NoJobType DEF TypeOK
<1>8. TimeInv
  BY <1>1, TimeAssumption DEF TimeInv, OverrunBounded, Remote, Early
<1>9. PhaseInv
  BY <1>1, NoJobType DEF PhaseInv
<1>10. EvidenceInv
  BY <1>1, <1>6, NoJobType DEF EvidenceInv
<1>11. QED
  BY <1>7, <1>8, <1>9, <1>10 DEF ProbeInv

LEMMA NextProbeInv ==
    ASSUME ProbeInv, [Next]_vars
    PROVE  ProbeInv'
BY AskStep, RespondStep, DialStep, ConnectStep, TickStep, OthersStep, ClientStep,
   ChecklistStep DEF Next, Progress

LEMMA ProbeInvAlways == Spec => []ProbeInv
<1>1. Init => ProbeInv
  BY InitProbeInv
<1>2. ProbeInv /\ [Next]_vars => ProbeInv'
  BY NextProbeInv
<1>3. QED
  BY <1>1, <1>2, PTL DEF Spec

-----------------------------------------------------------------------------
(* The theorems *)

\* Every variable of the probe keeps its type.
THEOREM ProbeTypes == Spec => []TypeOK
<1>1. ProbeInv => TypeOK
  BY DEF ProbeInv
<1>2. QED
  BY <1>1, ProbeInvAlways, PTL

\* However sessions stall, a probe (RunIMAP under the handler's budget) ends
\* within the budget and two dials more, each after one pause of the daemon.
THEOREM ProbeIsBounded == Spec => []OverrunBounded
<1>1. ProbeInv => OverrunBounded
  BY DEF ProbeInv, TimeInv
<1>2. QED
  BY <1>1, ProbeInvAlways, PTL

\* No call to the server (the sessions of imapadapter) passes a check once the
\* budget is spent.
THEOREM NothingPassesLate == Spec => NoLatePass
<1>1. ASSUME ProbeInv, [Next]_vars
      PROVE  \A c \in Check \ {"refresh_strategy"} :
                checks[c] # "passed" /\ checks'[c] = "passed" => clock < Budget
  <2>1. CASE \/ Capabilities \/ Folders \/ SelectFolder \/ ListUIDs
             \/ ListFirstUID \/ SearchDomain \/ SearchNegative \/ ScanFolder
             \/ FetchSeenState \/ SeenBefore \/ SeenAfter \/ Fault \/ PeekBody
    BY <1>1, <2>1, ChecklistStep DEF Stepped, Judged
  <2>2. CASE Ask
    BY <2>2 DEF Ask, NoChecks
  <2>3. CASE Respond
    BY <2>3 DEF Respond, NoChecks
  <2>4. CASE Refuse \/ Dial \/ Connect \/ Tick \/ ClientTimesOut \/ UNCHANGED vars
    BY <2>4 DEF Refuse, Dial, Connect, Tick, ClientTimesOut, vars
  <2>5. CASE Others
    <3>1. checks' = checks
      BY <1>1, <2>5, OthersChange DEF ProbeInv, Touched
    <3>2. QED
      BY <3>1
  <2>6. QED
    BY <1>1, <2>1, <2>2, <2>3, <2>4, <2>5 DEF Next, Progress
<1>2. QED
  BY <1>1, ProbeInvAlways, PTL DEF Spec, NoLatePass

\* Under the domain policy the read-state check (FetchBodyPreviewAndSeenState)
\* reads only bodies of messages of the probed folder that a search of the
\* account returns - not only of messages its policy approves, see the run
\* PeekFake - as long as the folder keeps its UIDVALIDITY.
THEOREM PeeksWereFound == Spec => PeekOnlyMatching
<1>1. ASSUME ProbeInv, PeekBody, ~account.full, uidvalidity = job.uidvalidity,
             NEW m \in Fetched
      PROVE  \E q \in account.queries :
                Target[q] = "folder" /\ m.kind \in HitBy[q]
  <2>1. TypeOK /\ PhaseInv /\ EvidenceInv /\ pc = "body"
    BY <1>1 DEF ProbeInv, PeekBody, Answered
  <2>2. Current \in job.scan /\ job.scan \subseteq job.evidence
    BY <1>1, <2>1, CurrentType DEF PhaseInv
  <2>3. m \in mailbox /\ m.uid \in job.evidence
    BY <2>2 DEF Fetched
  <2>4. QED
    BY <1>1, <2>1, <2>3 DEF EvidenceInv, Matched
<1>2. ProbeInv =>
        [PeekBody /\ ~account.full /\ uidvalidity = job.uidvalidity =>
            \A m \in Fetched : \E q \in account.queries :
                Target[q] = "folder" /\ m.kind \in HitBy[q]]_vars
  BY <1>1
<1>3. QED
  BY <1>2, ProbeInvAlways, PTL DEF PeekOnlyMatching

-----------------------------------------------------------------------------
(* What the verdicts say *)

\* The only verdict of a step that says something of the server is v, on c.
Judges(c, v) ==
    \A d \in Concluded : checks'[d] \in {"passed", "refuted"} =>
        checks'[d] = checks[d] \/ (d = c /\ checks'[d] = v)

\* The step gives no verdict, or one that says nothing of the server.
JudgesNone ==
    \A d \in Concluded : checks'[d] \in {"passed", "refuted"} =>
        checks'[d] = checks[d]

\* Old verdicts stay true of the server, whose quirks do not change.
LEMMA VerdictsStayTrue ==
    ASSUME \A d \in Concluded : VerdictTrue(d), quirks' = quirks,
           NEW c, NEW v, Judges(c, v),
           c \in Concluded => /\ v = "passed"  => Good(c)
                              /\ v = "refuted" => ~Good(c)
    PROVE  \A d \in Concluded : VerdictTrue(d)'
BY DEF Judges, VerdictTrue, Good

LEMMA NoVerdictStaysTrue ==
    ASSUME \A d \in Concluded : VerdictTrue(d), quirks' = quirks, JudgesNone
    PROVE  \A d \in Concluded : VerdictTrue(d)'
BY DEF JudgesNone, VerdictTrue, Good

\* The end of the checklist adds nothing to its last verdict.
LEMMA FinishJudges ==
    ASSUME TypeOK, NEW c \in Check, NEW v \in Verdict, Finish(With(c, v))
    PROVE  pc' = "answer" /\ Judges(c, v)
<1>1. \A d \in Check : checks'[d] \in {"passed", "refuted"}
                          => checks'[d] = With(c, v)[d]
  BY DEF Finish
<1>2. Concluded \subseteq Check
  BY DEF Concluded, Check
<1>3. QED
  BY <1>1, <1>2, WithType DEF Finish, Judges

LEMMA FinishJudgesNone ==
    ASSUME Finish(checks)
    PROVE  pc' = "answer" /\ JudgesNone
BY DEF Finish, JudgesNone, Concluded, Check

LEMMA NextFixtureJudges ==
    ASSUME NextFixture
    PROVE  JudgesNone /\ pc' \in {"answer", "seen"}
BY FinishJudgesNone DEF NextFixture, Go, JudgesNone

LEMMA EnterEither ==
    ASSUME NEW j, NEW uids, NEW chks, EnterReadState(j, uids, chks)
    PROVE  Finish(chks) \/ (pc' = "seen" /\ checks' = chks)
<1>1. CASE uids = {}
  BY <1>1 DEF EnterReadState
<1>2. CASE uids # {}
  BY <1>2 DEF EnterReadState, Go
<1>3. QED
  BY <1>1, <1>2

\* A step that leaves nothing to the next session.
LEMMA NothingFound ==
    ASSUME QuietInv, disturbed' = disturbed, quirks' = quirks,
           pc' \in {"answer", "scan", "search", "seen", "listAll", "before"},
           NEW c, NEW v, Judges(c, v),
           ~disturbed /\ c \in Concluded => /\ v = "passed"  => Good(c)
                                            /\ v = "refuted" => ~Good(c)
    PROVE  QuietInv'
BY VerdictsStayTrue DEF QuietInv

LEMMA NothingFoundOrSaid ==
    ASSUME QuietInv, disturbed' = disturbed, quirks' = quirks, JudgesNone,
           pc' \in {"answer", "scan", "search", "seen", "listAll", "before"}
    PROVE  QuietInv'
BY NoVerdictStaysTrue DEF QuietInv

\* The first three checks: nothing is said yet of the server.
LEMMA EarlyQuiet ==
    ASSUME ProbeInv, QuietInv, Capabilities \/ Folders \/ SelectFolder
    PROVE  QuietInv'
<1>1. TypeOK /\ pc \in {"capability", "folders", "select"}
  BY DEF ProbeInv, Capabilities, Folders, SelectFolder, Answered
<1>2. \A d \in Concluded : checks[d] = "none"
  BY <1>1 DEF QuietInv
<1>3. PICK c \in {"capability", "folder_listing", "folder_selection"},
           v \in {"passed", "inconclusive"} :
        \/ Finish(With(c, v))
        \/ /\ pc' \in {"folders", "select", "listAll"}
           /\ checks' = With(c, v)
  BY DEF Capabilities, Folders, SelectFolder, Go
<1>4. /\ c \in Check /\ v \in Verdict /\ c \notin Concluded
      /\ Concluded \subseteq Check
  BY DEF Check, Verdict, Concluded
<1>5. CASE Finish(With(c, v))
  <2>1. pc' = "answer" /\ Judges(c, v)
    BY <1>1, <1>4, <1>5, FinishJudges
  <2>2. \A d \in Concluded : VerdictTrue(d)'
    BY <1>2, <1>4, <2>1 DEF Judges, VerdictTrue
  <2>3. QED
    BY <2>1, <2>2 DEF QuietInv
<1>6. CASE checks' = With(c, v) /\ pc' \in {"folders", "select", "listAll"}
  <2>1. \A d \in Concluded : checks'[d] = "none"
    BY <1>1, <1>2, <1>4, <1>6, WithType
  <2>2. QED
    BY <1>6, <2>1 DEF QuietInv, VerdictTrue
<1>7. QED
  BY <1>3, <1>5, <1>6

LEMMA AfterUIDJudges ==
    ASSUME TypeOK, NEW v \in Verdict, AfterUIDBehavior(v)
    PROVE  pc' \in {"scan", "search"} /\ Judges("uid_behavior", v)
BY DEF TypeOK, AfterUIDBehavior, Go, Judges, Concluded, Check

\* Two UIDs or more are listed; the lowest is there, and is not all.
LEMMA ListUIDsQuiet ==
    ASSUME ProbeInv, QuietInv, ListUIDs
    PROVE  QuietInv'
<1>1. TypeOK /\ pc = "listAll" /\ disturbed' = disturbed /\ quirks' = quirks
  BY DEF ProbeInv, ListUIDs, Answered, Unchanged_but_goroutine, server
<1>2. CASE Cardinality(Uids) < 2
  <2>1. pc' \in {"scan", "search"} /\ Judges("uid_behavior", "inconclusive")
    BY <1>1, <1>2, AfterUIDJudges DEF ListUIDs, Verdict
  <2>2. QED
    BY <1>1, <2>1, NothingFound
<1>3. CASE ~(Cardinality(Uids) < 2)
  <2>1. Uids # {} /\ Uids \in SUBSET Nat
    BY <1>1, <1>3, TypeFacts, FS_EmptySet
  <2>2. PICK n : n = CHOOSE u \in Uids : \A v \in Uids : u <= v
    OBVIOUS
  <2>3. n \in Uids
    BY <2>1, <2>2, LeastExists
  <2>4. Uids # {n}
    <3>1. Cardinality({n}) = 1
      BY FS_Singleton
    <3>2. QED
      BY <1>3, <3>1
  <2>5. /\ pc' = "listOne" /\ checks' = checks /\ mailbox' = mailbox
        /\ job' = [job EXCEPT !.first = n]
    BY <1>3, <2>2 DEF ListUIDs, Go, Unchanged_but_goroutine, server, folder
  <2>6. job'.first = n /\ Uids' = Uids
    BY <1>1, <2>5, TypeFacts DEF Job, Uids
  <2>7. JudgesNone
    BY <2>5 DEF JudgesNone
  <2>8. QED
    BY <1>1, <2>3, <2>4, <2>5, <2>6, <2>7, NoVerdictStaysTrue DEF QuietInv
<1>4. QED
  BY <1>2, <1>3

\* A server that obeys the range finds the lowest UID alone, another one all.
LEMMA ListFirstUIDQuiet ==
    ASSUME ProbeInv, QuietInv, ListFirstUID
    PROVE  QuietInv'
<1>1. TypeOK /\ pc = "listOne" /\ disturbed' = disturbed /\ quirks' = quirks
  BY DEF ProbeInv, ListFirstUID, Answered, Unchanged_but_goroutine, server
<1> DEFINE ranged == IF quirks.ranges THEN Uids \cap {job.first} ELSE Uids
           v      == IF ranged = {job.first} THEN "passed" ELSE "refuted"
<1>2. AfterUIDBehavior(v) /\ v \in Verdict
  BY DEF ListFirstUID, Verdict
<1>3. ~disturbed => (v = "passed" <=> Good("uid_behavior"))
  <2>1. ~disturbed => job.first \in Uids /\ Uids # {job.first}
    BY <1>1 DEF QuietInv
  <2>2. QED
    BY <2>1 DEF Good
<1>4. v = "passed" \/ v = "refuted"
  OBVIOUS
<1> HIDE DEF v
<1>5. pc' \in {"scan", "search"} /\ Judges("uid_behavior", v)
  BY <1>1, <1>2, AfterUIDJudges
<1>6. QED
  BY <1>1, <1>3, <1>4, <1>5, NothingFound

LEMMA SearchDomainQuiet ==
    ASSUME ProbeInv, QuietInv, SearchDomain
    PROVE  QuietInv'
<1>1. /\ UNCHANGED <<disturbed, quirks, sent, mailbox>> /\ job \in Job
  BY TypeFacts
  DEF ProbeInv, SearchDomain, Unchanged_but_goroutine, server, folder
<1>2. PICK q \in job.left :
        Go("negative", [job EXCEPT !.query = q, !.hits = Matching(q)], checks)
  BY DEF SearchDomain
<1>3. PICK found : found = Matching(q)
  OBVIOUS
<1>4. /\ pc' = "negative" /\ checks' = checks
      /\ job' = [job EXCEPT !.query = q, !.hits = found]
  BY <1>2, <1>3 DEF Go
<1>5. job'.query = q /\ job'.hits = found
  BY <1>1, <1>4 DEF Job
<1>6. (job.hits = Matching(job.query))'
  BY <1>1, <1>3, <1>5 DEF Matching
<1>7. JudgesNone
  BY <1>4 DEF JudgesNone
<1>8. QED
  BY <1>1, <1>4, <1>6, <1>7, NoVerdictStaysTrue DEF QuietInv

\* A server that ignores the criterion finds the same for a value no message
\* has: where that is nothing, the search has found nothing either.
LEMMA SearchNegativeQuiet ==
    ASSUME ProbeInv, QuietInv, SearchNegative
    PROVE  QuietInv'
<1>1. /\ TypeOK /\ pc = "negative" /\ disturbed' = disturbed /\ quirks' = quirks
      /\ job \in Job
  BY TypeFacts
  DEF ProbeInv, SearchNegative, Answered, Unchanged_but_goroutine, server
<1> DEFINE left    == job.left \ {job.query}
           missing == job.missing \/ job.hits = {}
           j == [job EXCEPT !.left = left, !.evidence = Evidence(job.hits),
                            !.missing = @ \/ job.hits = {}]
           verdict == IF missing THEN "inconclusive" ELSE "passed"
           c == "domain_header_search"
<1>2. j.missing = missing
  BY <1>1 DEF Job
<1>3. ~disturbed => job.hits = Matching(job.query)
  BY <1>1 DEF QuietInv
<1>4. c \in Check /\ "refuted" \in Verdict /\ verdict \in Verdict
  BY DEF Check, Verdict
<1>5. CASE MatchingNothing(job.query) # {}
  <2>1. Finish(With(c, "refuted"))
    BY <1>5 DEF SearchNegative
  <2>2. pc' = "answer" /\ Judges(c, "refuted")
    BY <1>1, <1>4, <2>1, FinishJudges
  <2>3. ~Good(c)
    BY <1>5 DEF MatchingNothing, Good
  <2>4. QED
    BY <1>1, <2>2, <2>3, NothingFound
<1>6. CASE MatchingNothing(job.query) = {} /\ left # {}
  <2>1. pc' = "search" /\ checks' = checks
    BY <1>6 DEF SearchNegative, Go
  <2>2. QED
    BY <1>1, <2>1, NothingFoundOrSaid DEF JudgesNone
<1>7. CASE MatchingNothing(job.query) = {} /\ left = {}
  <2>1. EnterReadState(j, {u \in j.evidence : InScope(u)}, With(c, verdict))
    BY <1>2, <1>7 DEF SearchNegative
  <2>2. ~disturbed /\ verdict = "passed" => Good(c)
    BY <1>3, <1>7 DEF MatchingNothing, Good
  <2> HIDE DEF j, verdict
  <2>3. \/ Finish(With(c, verdict))
        \/ pc' = "seen" /\ checks' = With(c, verdict)
    BY <2>1, EnterEither
  <2>4. pc' \in {"answer", "seen"} /\ Judges(c, verdict)
    <3>1. CASE Finish(With(c, verdict))
      BY <1>1, <1>4, <3>1, FinishJudges
    <3>2. CASE pc' = "seen" /\ checks' = With(c, verdict)
      BY <1>1, <1>4, <3>2, WithType DEF Judges, Concluded, Check
    <3>3. QED
      BY <2>3, <3>1, <3>2
  <2>5. verdict # "refuted"
    BY DEF verdict
  <2>6. QED
    BY <1>1, <2>2, <2>4, <2>5, NothingFound
<1>8. QED
  BY <1>5, <1>6, <1>7

LEMMA FixtureQuiet ==
    ASSUME ProbeInv, QuietInv, ScanFolder \/ FetchSeenState
    PROVE  QuietInv'
<1>1. disturbed' = disturbed /\ quirks' = quirks
  BY DEF ScanFolder, FetchSeenState, Unchanged_but_goroutine, server
<1>2. JudgesNone /\ pc' \in {"answer", "seen", "before"}
  BY FinishJudgesNone, NextFixtureJudges
  DEF ScanFolder, FetchSeenState, EnterReadState, Go, JudgesNone
<1>3. QED
  BY <1>1, <1>2, NothingFoundOrSaid

LEMMA SeenBeforeQuiet ==
    ASSUME ProbeInv, QuietInv, SeenBefore
    PROVE  QuietInv'
<1>1. /\ UNCHANGED <<disturbed, quirks, mailbox>> /\ TypeOK /\ job \in Job
  BY TypeFacts DEF ProbeInv, SeenBefore, Unchanged_but_goroutine, server, folder
<1>2. CASE Fetched = {}
  BY <1>1, <1>2, NextFixtureJudges, NothingFoundOrSaid DEF SeenBefore
<1>3. CASE Fetched # {}
  <2>1. PICK s \in BOOLEAN : s = \E m \in Fetched : m.seen
    OBVIOUS
  <2>2. /\ pc' = "body" /\ checks' = checks
        /\ job' = [job EXCEPT !.seenBefore = s]
    BY <1>3, <2>1 DEF SeenBefore
  <2>3. job'.seenBefore = s /\ job'.scan = job.scan
    BY <1>1, <2>2 DEF Job
  <2>4. Fetched' = Fetched
    BY <1>1, <2>3 DEF Fetched, Current
  <2>5. QED
    BY <1>1, <2>1, <2>2, <2>3, <2>4, NoVerdictStaysTrue DEF QuietInv, JudgesNone
<1>4. QED
  BY <1>2, <1>3

\* BODY.PEEK marks the unread message if the server gets it wrong.
LEMMA PeekBodyQuiet ==
    ASSUME ProbeInv, QuietInv, PeekBody
    PROVE  QuietInv'
<1>1. /\ UNCHANGED <<disturbed, quirks, job, checks>> /\ TypeOK
      /\ pc = "body" /\ pc' = "after"
      /\ mailbox' = {IF quirks.marks /\ m \in Fetched
                     THEN [m EXCEPT !.seen = TRUE] ELSE m : m \in mailbox}
      /\ quirks.marks \in BOOLEAN
  BY QuirkAssumption DEF ProbeInv, TypeOK, PeekBody, Answered
<1>2. Current' = Current
  BY <1>1 DEF Current
<1>3. ASSUME ~disturbed, ~job.seenBefore, NEW n \in Fetched'
      PROVE  n.seen = quirks.marks
  <2>1. n \in mailbox' /\ n.uid = Current
    BY <1>2 DEF Fetched
  <2>2. PICK m \in mailbox : n = IF quirks.marks /\ m \in Fetched
                                 THEN [m EXCEPT !.seen = TRUE] ELSE m
    BY <1>1, <2>1
  <2>3. m \in Message
    BY <1>1 DEF TypeOK
  <2>4. m.uid = n.uid
    BY <2>2, <2>3 DEF Message
  <2>5. m \in Fetched
    BY <2>1, <2>4 DEF Fetched
  <2>6. ~m.seen /\ m.seen \in BOOLEAN
    BY <1>1, <1>3, <2>3, <2>5 DEF QuietInv, Message
  <2>7. CASE quirks.marks
    BY <2>2, <2>3, <2>5, <2>7 DEF Message
  <2>8. CASE ~quirks.marks
    <3>1. n = m
      BY <2>2, <2>8
    <3>2. QED
      BY <1>1, <2>6, <2>8, <3>1
  <2>9. QED
    BY <2>7, <2>8
<1>4. QED
  BY <1>1, <1>3, NoVerdictStaysTrue DEF QuietInv, JudgesNone

LEMMA SeenAfterQuiet ==
    ASSUME ProbeInv, QuietInv, SeenAfter
    PROVE  QuietInv'
<1>1. /\ TypeOK /\ pc = "after" /\ disturbed' = disturbed /\ quirks' = quirks
      /\ quirks.marks \in BOOLEAN
  BY QuirkAssumption
  DEF ProbeInv, TypeOK, SeenAfter, Answered, Unchanged_but_goroutine, server
<1>2. CASE Fetched = {} \/ job.seenBefore
  BY <1>1, <1>2, NextFixtureJudges, NothingFoundOrSaid DEF SeenAfter
<1>3. CASE Fetched # {} /\ ~job.seenBefore
  <2> DEFINE v == IF \E m \in Fetched : m.seen THEN "refuted" ELSE "passed"
  <2>1. Finish(With("read_state", v)) /\ "read_state" \in Check /\ v \in Verdict
    BY <1>3 DEF SeenAfter, Check, Verdict
  <2>2. ~disturbed => \A m \in Fetched : m.seen = quirks.marks
    BY <1>1, <1>3 DEF QuietInv
  <2>3. ~disturbed => /\ v = "passed"  => Good("read_state")
                      /\ v = "refuted" => ~Good("read_state")
    BY <1>1, <1>3, <2>2 DEF Good
  <2> HIDE DEF v
  <2>4. pc' = "answer" /\ Judges("read_state", v)
    BY <1>1, <2>1, FinishJudges
  <2>5. QED
    BY <1>1, <2>3, <2>4, NothingFound
<1>4. QED
  BY <1>2, <1>3

\* A failure is no verdict on the server.
LEMMA FaultQuiet ==
    ASSUME ProbeInv, QuietInv, Fault
    PROVE  QuietInv'
<1>1. TypeOK /\ disturbed' = disturbed /\ quirks' = quirks
  BY DEF ProbeInv, Fault, Unchanged_but_goroutine, server
<1>2. CASE pc \in {"listAll", "listOne"}
  <2>1. pc' \in {"scan", "search"} /\ Judges("uid_behavior", "failed")
    BY <1>1, <1>2, AfterUIDJudges DEF Fault, Verdict
  <2>2. QED
    BY <1>1, <2>1, NothingFound
<1>3. CASE pc \notin {"listAll", "listOne"}
  <2>1. PICK c \in Check : Finish(With(c, "failed"))
    BY <1>3 DEF Fault, CheckOf, Check
  <2>2. pc' = "answer" /\ Judges(c, "failed")
    BY <1>1, <2>1, FinishJudges DEF Verdict
  <2>3. QED
    BY <1>1, <2>2, NothingFound
<1>4. QED
  BY <1>2, <1>3

\* Ask and Respond begin a new checklist; the rest changes no verdict.
LEMMA OtherQuiet ==
    ASSUME ProbeInv, QuietInv,
           \/ Ask \/ Respond \/ Refuse \/ Dial \/ Connect \/ Tick
           \/ ClientTimesOut \/ Others \/ UNCHANGED vars
    PROVE  QuietInv'
<1>1. CASE Ask
  <2>1. pc' \in {"capability", "answer"} /\ disturbed' = FALSE
    BY <1>1 DEF Ask
  <2>2. \A d \in Concluded : checks'[d] \notin {"passed", "refuted"}
    BY <1>1 DEF Ask, NoChecks, Concluded, Check
  <2>3. pc' = "capability" => \A d \in Concluded : checks'[d] = "none"
    BY <1>1 DEF Ask, NoChecks, Concluded, Check
  <2>4. QED
    BY <2>1, <2>2, <2>3 DEF QuietInv, VerdictTrue
<1>2. CASE Respond
  <2>1. \A d \in Concluded : checks'[d] = "none"
    BY <1>2 DEF Respond, NoChecks, Concluded, Check
  <2>2. QED
    BY <1>2, <2>1 DEF Respond, QuietInv, VerdictTrue
<1>3. CASE Others
  <2>1. disturbed' = TRUE /\ pc' = pc /\ checks' = checks
    BY <1>3, OthersChange DEF ProbeInv, Touched
  <2>2. QED
    BY <2>1 DEF QuietInv
<1>4. CASE Refuse \/ Dial \/ Connect \/ Tick \/ ClientTimesOut \/ UNCHANGED vars
  <2>1. UNCHANGED <<quirks, mailbox, sent, pc, job, checks, disturbed>>
    BY <1>4 DEF Refuse, Dial, Connect, Tick, ClientTimesOut, vars, server, folder
  <2>2. UNCHANGED <<Uids, Matching(job.query), Fetched>>
    BY <2>1 DEF Uids, Matching, Fetched, Current
  <2>3. JudgesNone
    BY <2>1 DEF JudgesNone
  <2>4. QED
    BY <2>1, <2>2, <2>3, NoVerdictStaysTrue DEF QuietInv
<1>5. QED
  BY <1>1, <1>2, <1>3, <1>4

LEMMA QuietInvAlways == Spec => []QuietInv
<1>1. Init => QuietInv
  BY DEF Init, QuietInv, VerdictTrue, NoChecks, Concluded, Check
<1>2. ProbeInv /\ QuietInv /\ [Next]_vars => QuietInv'
  BY EarlyQuiet, ListUIDsQuiet, ListFirstUIDQuiet, SearchDomainQuiet,
     SearchNegativeQuiet, FixtureQuiet, SeenBeforeQuiet, PeekBodyQuiet,
     SeenAfterQuiet, FaultQuiet, OtherQuiet DEF Next, Progress
<1>3. QED
  BY <1>1, <1>2, ProbeInvAlways, PTL DEF Spec

\* Undisturbed, the probe says of a server only what is true of it: the UID
\* check, the header searches and the read-state check (RunIMAP) neither pass a
\* server that gets it wrong nor blame one that does not, whichever messages are
\* there and whatever fails in between.
THEOREM VerdictsAreTrue == Spec => []QuietVerdictsTrue
<1>1. QuietInv => QuietVerdictsTrue
  BY DEF QuietInv, QuietVerdictsTrue
<1>2. QED
  BY <1>1, QuietInvAlways, PTL

=============================================================================
