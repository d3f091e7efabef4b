----------------------------- MODULE Bootstrap -----------------------------
(***************************************************************************)
(* `ksuite-mail init` (internal/bootstrap/bootstrap.go): it prepares the   *)
(* service user, the directories, the configuration and the secrets file,  *)
(* and may add one account with its credential.                            *)
(*                                                                         *)
(* A run reads both files, asks for the password, and replaces the files   *)
(* one after the other, each by a rename and then a chown.  It may end at  *)
(* any step, by an error, an interrupt or a crash, and be started again;   *)
(* two operators may run it at the same time.                              *)
(***************************************************************************)
EXTENDS Naturals, FiniteSets

CONSTANTS
    Operator,       \* who may run init at the same time
    Account,        \* the accounts they add
    NoAccount,      \* a run without --account
    MaxFailures     \* bound on the runs that fail

ASSUME BootstrapAssumption == NoAccount \notin Account /\ MaxFailures \in Nat

VARIABLES
    user,           \* who has the name of the service user
    dirs,           \* are the directories there, with mode and owner?
    config,         \* config.toml
    secrets,        \* secrets.json
    pc, job,        \* the runs
    outcome,        \* how the last run of an operator ended
    failures        \* the runs that have failed

files == <<config, secrets>>
vars == <<user, dirs, files, pc, job, outcome, failures>>

-----------------------------------------------------------------------------
(* Data *)

\* A file of the boundary: the accounts it has an entry for, and whether its
\* owner is the one of its FileSpec.  Its mode is right from the start.
File == [exists: BOOLEAN, owned: BOOLEAN, entries: SUBSET Account]

NoFile == [exists |-> FALSE, owned |-> FALSE, entries |-> {}]

\* CreateTemp and Rename: the new file belongs to root.
Written(entries) == [exists |-> TRUE, owned |-> FALSE, entries |-> entries]

\* What a run was asked for and has read; seed is a file that did not exist.
Job == [account: Account \cup {NoAccount}, config: File, secrets: File]

NoJob == [account |-> NoAccount, config |-> NoFile, secrets |-> NoFile]

Phase == {"idle", "user", "dirs", "loadConfig", "loadSecrets", "prompt",
          "writeSecrets", "ownSecrets", "writeConfig", "ownConfig", "units"}

\* Mutant: the configuration entry first, then its credential.
Then_ConfigFirst(account, phase) ==
    CASE phase = "prompt"       -> "writeConfig"
      [] phase = "ownConfig"    -> "writeSecrets"
      [] phase = "ownSecrets"   -> "units"
      [] phase = "loadConfig"   -> "loadSecrets"
      [] phase = "loadSecrets"  -> "prompt"

\* What follows a step: ensureAccount writes the secret before the account it
\* belongs to, ensureBoundaryConfig and ensureBoundarySecrets take one file
\* after the other.
Then(account, phase) ==
    IF account = NoAccount
    THEN CASE phase = "loadConfig"  -> "writeConfig"
           [] phase = "ownConfig"   -> "loadSecrets"
           [] phase = "loadSecrets" -> "writeSecrets"
           [] phase = "ownSecrets"  -> "units"
    ELSE CASE phase = "loadConfig"  -> "loadSecrets"
           [] phase = "loadSecrets" -> "prompt"
           [] phase = "prompt"      -> "writeSecrets"
           [] phase = "ownSecrets"  -> "writeConfig"
           [] phase = "ownConfig"   -> "units"

Go(o, j, phase) ==
    /\ job' = [job EXCEPT ![o] = j]
    /\ pc' = [pc EXCEPT ![o] = phase]

Continue(o, j) == Go(o, j, Then(j.account, pc[o]))

End(o, how) ==
    /\ Go(o, NoJob, "idle")
    /\ outcome' = [outcome EXCEPT ![o] = [how |-> how, account |-> job[o].account]]

-----------------------------------------------------------------------------
(* Run *)

Start(o, a) ==
    /\ pc[o] = "idle"
    /\ Go(o, [NoJob EXCEPT !.account = a], "user")
    /\ outcome' = [outcome EXCEPT ![o] = [how |-> "running", account |-> a]]
    /\ UNCHANGED <<user, dirs, files, failures>>

\* ensureServiceUser: created if missing, and never somebody's own account.
EnsureServiceUser(o) ==
    /\ pc[o] = "user"
    /\ \/ /\ user \in {"absent", "service"}
          /\ user' = "service"
          /\ Go(o, job[o], "dirs")
          /\ UNCHANGED outcome
       \/ /\ user = "person"
          /\ End(o, "refused")
          /\ UNCHANGED user
    /\ UNCHANGED <<dirs, files, failures>>

CreateDirectories(o) ==
    /\ pc[o] = "dirs"
    /\ dirs' = TRUE
    /\ Go(o, job[o], "loadConfig")
    /\ UNCHANGED <<user, files, outcome, failures>>

\* loadOrSeedConfig: the starter configuration if there is no file.
LoadConfig(o) ==
    /\ pc[o] = "loadConfig"
    /\ Continue(o, [job[o] EXCEPT !.config = config])
    /\ UNCHANGED <<user, dirs, files, outcome, failures>>

\* Mutant: an account with a secret passes for present.
Present_Secret(j, store) == j.account \in store.entries

\* ensureAccount refuses an account only if both halves are there.
Present(j, store) ==
    j.account \in j.config.entries /\ j.account \in store.entries

\* Mutant: the store starts empty every time.
LoadSecrets_Fresh(o) ==
    /\ pc[o] = "loadSecrets"
    /\ IF Present(job[o], secrets)
       THEN End(o, "present")
       ELSE /\ Continue(o, [job[o] EXCEPT !.secrets = NoFile])
            /\ UNCHANGED outcome
    /\ UNCHANGED <<user, dirs, files, failures>>

\* loadOrInitSecrets, and the check of what the two files hold.
LoadSecrets(o) ==
    /\ pc[o] = "loadSecrets"
    /\ IF Present(job[o], secrets)
       THEN End(o, "present")
       ELSE /\ Continue(o, [job[o] EXCEPT !.secrets = secrets])
            /\ UNCHANGED outcome
    /\ UNCHANGED <<user, dirs, files, failures>>

\* The operator types the password; a cancelled or empty one is a Fail.
PromptSecret(o) ==
    /\ pc[o] = "prompt"
    /\ Continue(o, job[o])
    /\ UNCHANGED <<user, dirs, files, outcome, failures>>

\* What a run writes back: what it read, with its account.  Without an account
\* it writes a file only if there was none.
Updated(j, read, now) ==
    IF j.account = NoAccount
    THEN IF read.exists THEN now ELSE Written({})
    ELSE Written(read.entries \cup {j.account})

WriteSecrets(o) ==
    /\ pc[o] = "writeSecrets"
    /\ secrets' = Updated(job[o], job[o].secrets, secrets)
    /\ Go(o, job[o], "ownSecrets")
    /\ UNCHANGED <<user, dirs, config, outcome, failures>>

WriteConfig(o) ==
    /\ pc[o] = "writeConfig"
    /\ config' = Updated(job[o], job[o].config, config)
    /\ Go(o, job[o], "ownConfig")
    /\ UNCHANGED <<user, dirs, secrets, outcome, failures>>

\* Mutant: only a new file is given to the service user.
OwnSecrets_NewOnly(o) ==
    /\ pc[o] = "ownSecrets"
    /\ secrets' = [secrets EXCEPT !.owned = @ \/ ~job[o].secrets.exists]
    /\ Continue(o, job[o])
    /\ UNCHANGED <<user, dirs, config, outcome, failures>>

\* normalizePerms of the secrets file.
OwnSecrets(o) ==
    /\ pc[o] = "ownSecrets"
    /\ secrets' = [secrets EXCEPT !.owned = TRUE]
    /\ Continue(o, job[o])
    /\ UNCHANGED <<user, dirs, config, outcome, failures>>

\* normalizePerms of the configuration.
OwnConfig(o) ==
    /\ pc[o] = "ownConfig"
    /\ config' = [config EXCEPT !.owned = TRUE]
    /\ Continue(o, job[o])
    /\ UNCHANGED <<user, dirs, secrets, outcome, failures>>

\* handleUnits writes or shows the units; nothing here depends on them.
HandleUnits(o) ==
    /\ pc[o] = "units"
    /\ End(o, "done")
    /\ UNCHANGED <<user, dirs, files, failures>>

\* A step fails or the run is killed: what was renamed stays.
Fail(o) ==
    /\ pc[o] # "idle"
    /\ failures < MaxFailures
    /\ failures' = failures + 1
    /\ End(o, "failed")
    /\ UNCHANGED <<user, dirs, files>>

-----------------------------------------------------------------------------
(* The specification *)

Init ==
    /\ user \in {"absent", "person", "service"}
    /\ dirs = FALSE
    /\ config = NoFile
    /\ secrets = NoFile
    /\ pc = [o \in Operator |-> "idle"]
    /\ job = [o \in Operator |-> NoJob]
    /\ outcome = [o \in Operator |-> [how |-> "none", account |-> NoAccount]]
    /\ failures = 0

Step(o) ==
    \/ EnsureServiceUser(o) \/ CreateDirectories(o)
    \/ LoadConfig(o) \/ LoadSecrets(o) \/ PromptSecret(o)
    \/ WriteSecrets(o) \/ OwnSecrets(o) \/ WriteConfig(o) \/ OwnConfig(o)
    \/ HandleUnits(o)

Next ==
    \E o \in Operator :
        \/ \E a \in Account \cup {NoAccount} : Start(o, a)
        \/ Step(o)
        \/ Fail(o)

\* An operator who wants an account runs init for it again and again, every
\* run goes on until it ends, and only so many fail.
Fairness ==
    \A o \in Operator : /\ WF_vars(Step(o))
                        /\ \A a \in Account : SF_vars(Start(o, a))

Spec == Init /\ [][Next]_vars
FairSpec == Spec /\ Fairness

-----------------------------------------------------------------------------
(* Correctness *)

Outcome == [how: {"none", "running", "refused", "present", "done", "failed"},
            account: Account \cup {NoAccount}]

\* The types of the files and of the runs: a file has entries of accounts only.
TypeOK ==
    /\ user \in {"absent", "person", "service"}
    /\ dirs \in BOOLEAN
    /\ config \in File /\ secrets \in File
    /\ pc \in [Operator -> Phase]
    /\ job \in [Operator -> Job]
    /\ outcome \in [Operator -> Outcome]
    /\ failures \in Nat

\* No account is configured without its credential, wherever a run stops and
\* whatever the next one does.
ConfiguredHasSecret == config.entries \subseteq secrets.entries

\* No run takes an account or a credential away that another one has added.
NothingLost ==
    [][/\ config.entries \subseteq config'.entries
       /\ secrets.entries \subseteq secrets'.entries]_vars

\* The daemon can read the boundary: the files are there and are its own.
Readable == \A f \in {config, secrets} : f.exists /\ f.owned

\* A run that reports success leaves the boundary readable and its account in
\* both files, whatever earlier runs left behind.  One that finds its account
\* present (bootstrap.go:334) returns before ownership is put right, and leaves a
\* file unreadable that an earlier run has renamed and not handed over.
DoneMeansReady ==
    \A o \in Operator : outcome[o].how = "done" =>
        /\ Readable
        /\ outcome[o].account \in
             (config.entries \cap secrets.entries) \cup {NoAccount}

\* Both entries of an account are there in the end if its operator keeps trying:
\* no partial run keeps a later one from adding the half that is missing.  That
\* the daemon may read the files is not part of it: see DoneMeansReady.
RetryRecovers ==
    user # "person" =>
        \A a \in Account : <>[](a \in config.entries \cap secrets.entries)

-----------------------------------------------------------------------------
(* The inductive invariant behind the safety properties, for one operator *)

Alone == \A o, p \in Operator : o = p

\* A file that is not there has no entries, and every entry its credential.
FilesInv ==
    /\ ~config.exists => config.entries = {}
    /\ ~secrets.exists => secrets.entries = {}
    /\ ConfiguredHasSecret

\* A run for an account: what it read is still so when it writes, and what it
\* wrote stays.
AccountRun(j, phase) ==
    /\ phase \in {"loadSecrets", "prompt", "writeSecrets", "ownSecrets",
                  "writeConfig"} => j.config = config
    /\ phase \in {"prompt", "writeSecrets"} => j.secrets = secrets
    /\ phase \in {"ownSecrets", "writeConfig", "ownConfig", "units"} =>
          secrets.exists /\ j.account \in secrets.entries
    /\ phase \in {"writeConfig", "ownConfig", "units"} => secrets.owned
    /\ phase \in {"ownConfig", "units"} =>
          config.exists /\ j.account \in config.entries
    /\ phase = "units" => config.owned

\* A run without one takes the files in the other order.
PlainRun(j, phase) ==
    /\ phase # "prompt"
    /\ phase = "writeConfig" => j.config = config
    /\ phase = "writeSecrets" => j.secrets = secrets
    /\ phase \in {"ownConfig", "loadSecrets", "writeSecrets", "ownSecrets",
                  "units"} => config.exists
    /\ phase \in {"loadSecrets", "writeSecrets", "ownSecrets", "units"} =>
          config.owned
    /\ phase \in {"ownSecrets", "units"} => secrets.exists
    /\ phase = "units" => secrets.owned

RunsInv ==
    \A o \in Operator :
        /\ pc[o] # "idle" => outcome[o].how = "running"
        /\ IF job[o].account = NoAccount THEN PlainRun(job[o], pc[o])
                                         ELSE AccountRun(job[o], pc[o])

BootstrapInv == TypeOK /\ FilesInv /\ RunsInv /\ DoneMeansReady

=============================================================================
