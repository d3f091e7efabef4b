------------------------------ MODULE ReadPage ------------------------------
(***************************************************************************)
(* How a handler reads its answer from the cache (visibleMessagePage,      *)
(* visibleThreadMessages, includeSeedMessage and boundedThreadContext,     *)
(* internal/daemon/daemon.go): in batches, by LIMIT and OFFSET, outside    *)
(* every lock, dropping what the policy hides, and never further down than *)
(* maxReadWindow.  Other requests insert and delete rows meanwhile.        *)
(***************************************************************************)
EXTENDS Integers, Sequences, SequencesExt, FiniteSets

CONSTANTS
    Row,            \* rows; a greater one is newer
    Visible,        \* the rows cachedMessageAllowed lets through
    Size,           \* Size[x]: the length of the snippet of x
    Budget,         \* the budgets of a context
    BodySize,       \* BodySize[x]: the length of its text without replies
    contextMax,     \* the most text a context shows (defaultContextMax)
    defaultLimit,   \* the least batch
    maxReadWindow,  \* the raw rows a read looks at
    MaxChanges      \* bound on the changes of the table during a read

ASSUME ReadPageAssumption ==
    /\ Row \subseteq Int /\ IsFiniteSet(Row) /\ Visible \subseteq Row
    /\ Size \in [Row -> Nat] /\ BodySize \in [Row -> Nat]
    /\ Budget \subseteq Nat /\ contextMax \in Nat
    /\ defaultLimit \in Nat \ {0} /\ maxReadWindow \in Nat
    /\ MaxChanges \in Nat

VARIABLES
    table,      \* the rows of the filter, or of the thread
    pc, job,    \* the handler
    before,     \* history: the table when the read began
    changes     \* history: inserts and deletes since

vars == <<table, pc, job, before, changes>>

-----------------------------------------------------------------------------
(* Data *)

Kind == {"page", "thread", "context"}

\* seed is the message a thread or context was asked for, alone says that it
\* has no thread key; raw counts the rows loaded, skipped the visible ones before
\* the page, used the bytes of a context's snippets, body those of its text.
Job == [kind: Kind, limit: Nat, offset: Nat, budget: Nat, seed: Row,
        alone: BOOLEAN, raw: Nat, skipped: Nat, used: Nat, body: Nat,
        results: Seq(Row)]

Least(a, b) == IF a < b THEN a ELSE b
Greatest(a, b) == IF a < b THEN b ELSE a

\* ORDER BY date DESC, with ties broken: the place of x in S, and S in order.
Rank(S, x) == Cardinality({y \in S : y >= x})
Newest(S) == [i \in 1..Cardinality(S) |-> CHOOSE x \in S : Rank(S, x) = i]

\* LIMIT n OFFSET k, of a table and of a sequence.
Query(S, n, k) == {x \in S : Rank(S, x) \in k + 1..k + n}
Slice(s, n, k) == SubSeq(s, k + 1, Least(k + n, Len(s)))

Allowed(x) == x \in Visible

SizeOf(s) ==
    LET sum[i \in 0..Len(s)] == IF i = 0 THEN 0 ELSE sum[i - 1] + Size[s[i]]
    IN sum[Len(s)]

\* The rows at the front of s that fit in what is left of the budget.
Fitting(s, left) ==
    LET n == CHOOSE n \in 0..Len(s) :
                /\ SizeOf(SubSeq(s, 1, n)) <= left
                /\ n < Len(s) => SizeOf(SubSeq(s, 1, n + 1)) > left
    IN SubSeq(s, 1, n)

-----------------------------------------------------------------------------
(* Other requests: their refreshes and purges *)

Insert(x) ==
    /\ x \notin table
    /\ table' = table \cup {x}
    /\ changes' = [changes EXCEPT !.inserted = @ + 1]

Delete(x) ==
    /\ x \in table
    /\ table' = table \ {x}
    /\ changes' = [changes EXCEPT !.deleted = @ + 1]

Others ==
    /\ pc = "load"
    /\ changes.inserted + changes.deleted < MaxChanges
    /\ \E x \in Row : Insert(x) \/ Delete(x)
    /\ UNCHANGED <<pc, job, before>>

-----------------------------------------------------------------------------
(* The handler *)

NewJob(kind, limit, offset, budget, seed, alone) ==
    [kind |-> kind, limit |-> limit, offset |-> offset, budget |-> budget,
     seed |-> seed, alone |-> alone,
     raw |-> 0, skipped |-> 0, used |-> 0, body |-> 0, results |-> <<>>]

\* normalizeReadPage bounds limit and offset by the window; the seed of a
\* thread or a context has been found, and is visible.
Start ==
    /\ pc = "idle"
    /\ \/ \E limit \in 1..maxReadWindow, offset \in 0..maxReadWindow :
            /\ limit + offset <= maxReadWindow
            /\ job' = [job EXCEPT !.kind = "page", !.limit = limit, !.offset = offset]
       \/ \E seed \in table \cap Visible, alone \in BOOLEAN :
            \/ \E limit \in 1..maxReadWindow :
                 job' = NewJob("thread", limit, 0, 0, seed, alone)
            \/ \E budget \in Budget :
                 job' = NewJob("context", 0, 0, budget, seed, alone)
    /\ pc' = "load"
    /\ before' = table
    /\ UNCHANGED <<table, changes>>

BatchSize(j) == IF j.kind = "context"
                THEN defaultLimit
                ELSE Greatest(defaultLimit, j.limit + j.offset)

ReadLimit(j) == Least(BatchSize(j), maxReadWindow - j.raw)

\* The next batch: a seed without a thread key is a thread of its own.
Batch(j) == IF j.alone
            THEN IF j.raw = 0 THEN {j.seed} ELSE {}
            ELSE Query(table, ReadLimit(j), j.raw)

\* Mutant: a batch with a hidden row counts as short.
More_Visible(j, batch) == /\ Cardinality({x \in batch : Allowed(x)}) = ReadLimit(j)
                          /\ j.raw + Cardinality(batch) < maxReadWindow

\* The read goes on unless the batch was short or the window is used up.
More(j, batch) == /\ Cardinality(batch) = ReadLimit(j)
                  /\ j.raw + Cardinality(batch) < maxReadWindow

\* Mutant: every batch skips the offset again.
LoadPage_SkipAgain ==
    /\ pc = "load" /\ job.kind # "context"
    /\ LET batch   == Batch(job)
           visible == Newest({x \in batch : Allowed(x)})
           skip    == Least(job.offset, Len(visible))
           take    == Slice(visible, job.limit - Len(job.results), skip)
           j == [job EXCEPT !.raw = @ + Cardinality(batch),
                            !.skipped = skip,
                            !.results = @ \o take]
       IN /\ job' = j
          /\ pc' = IF Len(j.results) >= j.limit \/ ~More(job, batch)
                   THEN "loaded" ELSE "load"
    /\ UNCHANGED <<table, before, changes>>

\* Mutant: the next batch begins after the visible rows of this one.
LoadPage_CountVisible ==
    /\ pc = "load" /\ job.kind # "context"
    /\ LET batch   == Batch(job)
           visible == Newest({x \in batch : Allowed(x)})
           skip    == Least(job.offset - job.skipped, Len(visible))
           take    == Slice(visible, job.limit - Len(job.results), skip)
           j == [job EXCEPT !.raw = @ + Len(visible),
                            !.skipped = @ + skip,
                            !.results = @ \o take]
       IN /\ job' = j
          /\ pc' = IF Len(j.results) >= j.limit \/ ~More(job, batch)
                   THEN "loaded" ELSE "load"
    /\ UNCHANGED <<table, before, changes>>

\* visibleMessagePage, and visibleThreadMessages with no offset.
LoadPage ==
    /\ pc = "load" /\ job.kind # "context"
    /\ LET batch   == Batch(job)
           visible == Newest({x \in batch : Allowed(x)})
           skip    == Least(job.offset - job.skipped, Len(visible))
           take    == Slice(visible, job.limit - Len(job.results), skip)
           j == [job EXCEPT !.raw = @ + Cardinality(batch),
                            !.skipped = @ + skip,
                            !.results = @ \o take]
       IN /\ job' = j
          /\ pc' = IF Len(j.results) >= j.limit \/ ~More(job, batch)
                   THEN "loaded" ELSE "load"
    /\ UNCHANGED <<table, before, changes>>

\* Mutant: every batch has the whole budget.
LoadContext_FreshBudget ==
    /\ pc = "load" /\ job.kind = "context"
    /\ LET batch   == Batch(job)
           visible == Newest({x \in batch : Allowed(x) /\ x # job.seed})
           fitting == Fitting(visible, job.budget)
       IN /\ job' = [job EXCEPT !.raw = @ + Cardinality(batch),
                                !.used = @ + SizeOf(fitting),
                                !.results = @ \o fitting]
          /\ pc' = IF fitting # visible \/ ~More(job, batch) THEN "loaded" ELSE "load"
    /\ UNCHANGED <<table, before, changes>>

\* boundedThreadContext: it stops at the first message that does not fit.
LoadContext ==
    /\ pc = "load" /\ job.kind = "context"
    /\ LET batch   == Batch(job)
           visible == Newest({x \in batch : Allowed(x) /\ x # job.seed})
           fitting == Fitting(visible, job.budget - job.used)
       IN /\ job' = [job EXCEPT !.raw = @ + Cardinality(batch),
                                !.used = @ + SizeOf(fitting),
                                !.results = @ \o fitting]
          /\ pc' = IF fitting # visible \/ ~More(job, batch) THEN "loaded" ELSE "load"
    /\ UNCHANGED <<table, before, changes>>

\* Mutant: the seed comes on top of a full thread.
IncludeSeed_OnTop ==
    /\ pc = "loaded" /\ job.kind # "context"
    /\ job' = [job EXCEPT !.results =
                 IF job.kind = "page" \/ Contains(@, job.seed)
                 THEN @ ELSE <<job.seed>> \o @]
    /\ pc' = "done"
    /\ UNCHANGED <<table, before, changes>>

\* includeSeedMessage: a thread has its seed, at the cost of its last message.
IncludeSeed ==
    /\ pc = "loaded" /\ job.kind # "context"
    /\ job' = [job EXCEPT !.results =
                 IF job.kind = "page" \/ Contains(@, job.seed)
                 THEN @ ELSE <<job.seed>> \o Slice(@, job.limit - 1, 0)]
    /\ pc' = "done"
    /\ UNCHANGED <<table, before, changes>>

\* The text of a context's seed gets what the snippets left of the budget.
TruncateBody ==
    /\ pc = "loaded" /\ job.kind = "context"
    /\ job' = [job EXCEPT !.body = Least(BodySize[job.seed],
                                       Least(contextMax, job.budget - job.used))]
    /\ pc' = "done"
    /\ UNCHANGED <<table, before, changes>>

\* A query fails: the answer is an error.
LoadFails ==
    /\ pc = "load"
    /\ pc' = "failed"
    /\ UNCHANGED <<table, job, before, changes>>

-----------------------------------------------------------------------------
(* The specification *)

Init ==
    /\ table \in SUBSET Row
    /\ table # {}
    /\ pc = "idle"
    /\ job = NewJob("page", 0, 0, 0, CHOOSE x \in Row : TRUE, FALSE)
    /\ before = table
    /\ changes = [inserted |-> 0, deleted |-> 0]

\* The answer is sent.
Done == pc \in {"done", "failed"} /\ UNCHANGED vars

Next == \/ Others
        \/ Start \/ LoadPage \/ LoadContext \/ LoadFails
        \/ IncludeSeed \/ TruncateBody
        \/ Done

Spec == Init /\ [][Next]_vars

-----------------------------------------------------------------------------
(* Correctness *)

\* The visible rows that the read j of the table S can reach.
Shown(j, S) ==
    {x \in IF j.alone THEN {j.seed} ELSE Query(S, maxReadWindow, 0) : Allowed(x)}

Undisturbed == changes.inserted = 0 /\ changes.deleted = 0

\* Without other requests nobody sees the batches (daemon.go:584-718): a page
\* holds the visible rows from its offset on, a thread the newest ones and its
\* seed, a context the newest ones that fit, without its seed.
ExactAnswer ==
    pc = "done" /\ Undisturbed =>
        LET shown == Shown(job, before)
            first == Slice(Newest(shown), job.limit, 0)
        IN job.results =
             CASE job.kind = "page" -> Slice(Newest(shown), job.limit, job.offset)
               [] job.kind = "thread" ->
                    IF Contains(first, job.seed) THEN first
                    ELSE <<job.seed>> \o Slice(Newest(shown), job.limit - 1, 0)
               [] job.kind = "context" ->
                    Fitting(Newest(shown \ {job.seed}), job.budget)

\* Rows that vanish under a read never make it show a message twice: only rows
\* inserted between two batches can (the OFFSET of daemon.go:604 counts rows).
NoRepeat == changes.inserted = 0 => IsInjective(job.results)

\* Rows that arrive under a read hide nothing (daemon.go:622): a page from the
\* top that is not full has every visible row that stayed, unless one was
\* deleted or the window was too small for them all.
NoneOverlooked ==
    /\ pc = "done" /\ job.kind = "page" /\ job.offset = 0
    /\ Len(job.results) < job.limit
    /\ changes.deleted = 0 /\ Cardinality(table) <= maxReadWindow
    => \A x \in before : Allowed(x) => Contains(job.results, x)

\* A thread is within its limit and has the message it was asked for, even when
\* that was deleted after it was found (includeSeedMessage, daemon.go:663).
SeedShown ==
    pc = "done" /\ job.kind = "thread" =>
        Len(job.results) <= job.limit /\ Contains(job.results, job.seed)

\* What is charged to the budget of a context, the snippets of its timeline over
\* all batches and then the text of its seed, is within it (daemon.go:683-718 and
\* 536-552).  The answer exceeds the budget by the seed's own snippet, which
\* toMessageDetail adds (daemon.go:559) and nothing charges.
BudgetKept ==
    job.kind = "context" => SizeOf(job.results) + job.body <= job.budget

-----------------------------------------------------------------------------
(* The invariant of the proofs *)

\* The visible rows of the first batches of the read j, if the table was S.
Seen(j, S) ==
    {x \in IF j.alone THEN IF j.raw = 0 THEN {} ELSE {j.seed}
                      ELSE Query(S, j.raw, 0) : Allowed(x)}

StateOK ==
    /\ table \subseteq Row /\ before \subseteq Row
    /\ pc \in {"idle", "load", "loaded", "done", "failed"}
    /\ job \in Job
    /\ changes \in [inserted: Nat, deleted: Nat]

\* What is asked for, and the bounds of a read.
ReadInv ==
    /\ pc = "idle" => /\ job = NewJob("page", 0, 0, 0, job.seed, FALSE)
                      /\ before = table /\ Undisturbed
    /\ job.kind = "page" => ~job.alone
    /\ job.kind # "page" => job.offset = 0 /\ Allowed(job.seed)
    /\ pc # "idle" /\ job.kind # "context" =>
          /\ job.limit >= 1 /\ job.limit + job.offset <= maxReadWindow
          /\ Len(job.results) <= job.limit
          /\ pc = "load" => Len(job.results) < job.limit
    /\ IF job.alone THEN job.raw <= 1 ELSE job.raw <= maxReadWindow
    /\ pc = "load" /\ job.raw = 0 => job.results = <<>>
    /\ job.skipped <= job.offset

SpentInv ==
    job.kind = "context" =>
        /\ job.used = SizeOf(job.results) /\ job.used + job.body <= job.budget
        /\ pc # "done" => job.body = 0

\* Every row of the results that is still in the table is behind the read.
RepeatInv ==
    changes.inserted = 0 =>
        /\ IsInjective(job.results)
        /\ pc = "load" /\ ~job.alone =>
              \A i \in 1..Len(job.results) :
                 job.results[i] \in table => Rank(table, job.results[i]) <= job.raw

\* Every visible row that was there and is behind the read is in the results.
OverlookInv ==
    pc # "idle" /\ job.kind = "page" /\ job.offset = 0 /\ changes.deleted = 0 =>
        /\ before \subseteq table /\ job.skipped = 0
        /\ pc = "load" => \A x \in before : Allowed(x) /\ Rank(table, x) <= job.raw =>
                             Contains(job.results, x)
        /\ /\ pc \in {"loaded", "done"} /\ Len(job.results) < job.limit
           /\ Cardinality(table) <= maxReadWindow
           => \A x \in before : Allowed(x) => Contains(job.results, x)

\* Alone, a read has what its batches had to show, and at the end all there is.
ExactInv ==
    Undisturbed =>
        /\ before = table
        /\ pc = "load" =>
              IF job.kind = "context"
              THEN job.results = Newest(Seen(job, before) \ {job.seed})
              ELSE LET seen == Newest(Seen(job, before))
                   IN /\ job.skipped = Least(job.offset, Len(seen))
                      /\ job.results = Slice(seen, job.limit, job.offset)
        /\ pc = "loaded" =>
              job.results =
                 IF job.kind = "context"
                 THEN Fitting(Newest(Shown(job, before) \ {job.seed}), job.budget)
                 ELSE Slice(Newest(Shown(job, before)), job.limit, job.offset)

PageInv == /\ StateOK /\ ReadInv /\ SpentInv /\ RepeatInv /\ OverlookInv
           /\ ExactInv /\ ExactAnswer /\ SeedShown

=============================================================================
