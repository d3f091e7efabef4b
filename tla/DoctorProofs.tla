---------------------------- MODULE DoctorProofs ----------------------------
(***************************************************************************)
(* Theorems about Bootstrap and Doctor, for any accounts and any number of *)
(* runs that fail, while init has one operator: two of them do lose each   *)
(* other's entries.                                                        *)
(***************************************************************************)
EXTENDS Doctor, TLAPS

-----------------------------------------------------------------------------
(* A run of init *)

\* Where a run goes on, and with what.
LEMMA GoDoes ==
    ASSUME TypeOK, NEW o \in Operator, NEW j \in Job, NEW phase \in Phase,
           Go(o, j, phase)
    PROVE  /\ pc' \in [Operator -> Phase] /\ pc'[o] = phase
           /\ job' \in [Operator -> Job] /\ job'[o] = j
           /\ \A p \in Operator : p # o => pc'[p] = pc[p] /\ job'[p] = job[p]
BY DEF TypeOK, Go

LEMMA EndDoes ==
    ASSUME TypeOK, NEW o \in Operator, Alone, FilesInv, RunsInv,
           NEW how \in {"refused", "present", "done", "failed"}, End(o, how),
           UNCHANGED files,
           how = "done" =>
              /\ Readable
              /\ job[o].account \in
                   (config.entries \cap secrets.entries) \cup {NoAccount}
    PROVE  /\ pc' \in [Operator -> Phase] /\ job' \in [Operator -> Job]
           /\ outcome' \in [Operator -> Outcome]
           /\ FilesInv' /\ RunsInv' /\ DoneMeansReady'
<1>1. NoJob \in Job /\ NoJob.account = NoAccount /\ job[o] \in Job
  BY DEF NoJob, Job, NoFile, File, TypeOK
<1>2. /\ pc' \in [Operator -> Phase] /\ pc'[o] = "idle"
      /\ job' \in [Operator -> Job] /\ job'[o] = NoJob
  BY <1>1, GoDoes DEF End, Phase
<1>3. /\ outcome' \in [Operator -> Outcome]
      /\ outcome'[o] = [how |-> how, account |-> job[o].account]
  BY <1>1 DEF End, TypeOK, Outcome, Job
<1>4. config' = config /\ secrets' = secrets
  BY DEF files
<1>5. FilesInv'
  BY <1>4 DEF FilesInv, ConfiguredHasSecret
<1>6. RunsInv'
  BY <1>1, <1>2 DEF RunsInv, PlainRun, Alone
<1>7. DoneMeansReady'
  BY <1>3, <1>4 DEF DoneMeansReady, Readable, Alone
<1>8. QED
  BY <1>2, <1>3, <1>5, <1>6, <1>7

\* A step of a run that goes on, from what it does to the files.
LEMMA OnwardDoes ==
    ASSUME TypeOK, NEW o \in Operator, Alone,
           NEW j \in Job, NEW phase \in Phase, Go(o, j, phase),
           outcome' \in [Operator -> Outcome], outcome'[o].how = "running",
           IF j.account = NoAccount THEN PlainRun(j, phase)'
                                    ELSE AccountRun(j, phase)'
    PROVE  /\ pc' \in [Operator -> Phase] /\ job' \in [Operator -> Job]
           /\ RunsInv' /\ DoneMeansReady'
<1>1. /\ pc' \in [Operator -> Phase] /\ pc'[o] = phase
      /\ job' \in [Operator -> Job] /\ job'[o] = j
  BY GoDoes
<1>2. RunsInv'
  BY <1>1 DEF RunsInv, PlainRun, AccountRun, Alone
<1>3. DoneMeansReady'
  BY DEF DoneMeansReady, Alone
<1>4. QED
  BY <1>1, <1>2, <1>3

\* What the invariant says of the run under way.
LEMMA RunFacts ==
    ASSUME BootstrapInv, NEW o \in Operator, NEW j, j = job[o],
           NEW phase, phase = pc[o], phase # "idle"
    PROVE  /\ TypeOK /\ FilesInv /\ RunsInv
           /\ j \in Job /\ j.account \in Account \cup {NoAccount}
           /\ j.config \in File /\ j.secrets \in File
           /\ config \in File /\ secrets \in File
           /\ config.entries \subseteq Account /\ secrets.entries \subseteq Account
           /\ outcome \in [Operator -> Outcome] /\ outcome[o].how = "running"
           /\ j.account = NoAccount => PlainRun(j, phase)
           /\ j.account # NoAccount => AccountRun(j, phase)
BY DEF BootstrapInv, RunsInv, TypeOK, Job, File

LEMMA StartStep ==
    ASSUME BootstrapInv, Alone, NEW o \in Operator,
           NEW a \in Account \cup {NoAccount}, Start(o, a)
    PROVE  BootstrapInv'
<1>1. TypeOK /\ FilesInv
  BY DEF BootstrapInv
<1>2. PICK j : j = [NoJob EXCEPT !.account = a]
  OBVIOUS
<1>3. j \in Job /\ j.account = a
  BY <1>2 DEF NoJob, Job, NoFile, File
<1>4. /\ outcome' \in [Operator -> Outcome] /\ outcome'[o].how = "running"
      /\ Go(o, j, "user")
      /\ UNCHANGED <<user, dirs, config, secrets, failures>>
  BY <1>1, <1>2 DEF Start, TypeOK, Outcome, files
<1>5. IF j.account = NoAccount THEN PlainRun(j, "user")' ELSE AccountRun(j, "user")'
  BY DEF PlainRun, AccountRun
<1>6. /\ pc' \in [Operator -> Phase] /\ job' \in [Operator -> Job]
      /\ RunsInv' /\ DoneMeansReady'
  BY <1>1, <1>3, <1>4, <1>5, OnwardDoes DEF Phase
<1>7. TypeOK' /\ FilesInv'
  BY <1>1, <1>4, <1>6 DEF TypeOK, FilesInv, ConfiguredHasSecret
<1>8. QED
  BY <1>6, <1>7 DEF BootstrapInv

\* The steps before the files are read.
LEMMA PrepareStep ==
    ASSUME BootstrapInv, Alone, NEW o \in Operator,
           EnsureServiceUser(o) \/ CreateDirectories(o)
    PROVE  BootstrapInv'
<1>1. PICK j : j = job[o]
  OBVIOUS
<1>2. /\ TypeOK /\ FilesInv /\ RunsInv /\ j \in Job
      /\ outcome \in [Operator -> Outcome] /\ outcome[o].how = "running"
  BY <1>1, RunFacts DEF EnsureServiceUser, CreateDirectories
<1>3. /\ UNCHANGED <<files, failures>> /\ dirs' \in BOOLEAN
      /\ user' \in {"absent", "person", "service"}
  BY <1>2 DEF EnsureServiceUser, CreateDirectories, TypeOK
<1>4. CASE End(o, "refused")
  BY <1>2, <1>3, <1>4, EndDoes DEF BootstrapInv, TypeOK, files
<1>5. ASSUME NEW phase \in {"dirs", "loadConfig"}, Go(o, j, phase),
             UNCHANGED outcome
      PROVE  BootstrapInv'
  <2>1. IF j.account = NoAccount THEN PlainRun(j, phase)'
                                 ELSE AccountRun(j, phase)'
    BY <1>5 DEF PlainRun, AccountRun
  <2>2. /\ pc' \in [Operator -> Phase] /\ job' \in [Operator -> Job]
        /\ RunsInv' /\ DoneMeansReady'
    BY <1>2, <1>5, <2>1, OnwardDoes DEF Phase
  <2>3. TypeOK' /\ FilesInv'
    BY <1>2, <1>3, <1>5, <2>2 DEF TypeOK, files, FilesInv, ConfiguredHasSecret
  <2>4. QED
    BY <2>2, <2>3 DEF BootstrapInv
<1>6. QED
  BY <1>1, <1>4, <1>5 DEF EnsureServiceUser, CreateDirectories

\* A step that leaves the files alone and goes on.
LEMMA ReadStep ==
    ASSUME BootstrapInv, Alone, NEW o \in Operator,
           NEW j \in Job, NEW phase \in Phase, Go(o, j, phase), pc[o] # "idle",
           UNCHANGED <<user, dirs, files, outcome, failures>>,
           IF j.account = NoAccount THEN PlainRun(j, phase) ELSE AccountRun(j, phase)
    PROVE  BootstrapInv'
<1>1. /\ TypeOK /\ FilesInv
      /\ outcome \in [Operator -> Outcome] /\ outcome[o].how = "running"
  BY RunFacts
<1>2. config' = config /\ secrets' = secrets
  BY DEF files
<1>3. IF j.account = NoAccount THEN PlainRun(j, phase)' ELSE AccountRun(j, phase)'
  BY <1>2 DEF PlainRun, AccountRun
<1>4. /\ pc' \in [Operator -> Phase] /\ job' \in [Operator -> Job]
      /\ RunsInv' /\ DoneMeansReady'
  BY <1>1, <1>3, OnwardDoes
<1>5. TypeOK' /\ FilesInv'
  BY <1>1, <1>2, <1>4 DEF TypeOK, FilesInv, ConfiguredHasSecret
<1>6. QED
  BY <1>4, <1>5 DEF BootstrapInv

LEMMA LoadConfigStep ==
    ASSUME BootstrapInv, Alone, NEW o \in Operator, LoadConfig(o)
    PROVE  BootstrapInv'
<1>1. PICK i : i = job[o]
  OBVIOUS
<1>2. PICK j : j = [i EXCEPT !.config = config]
  OBVIOUS
<1>3. i \in Job /\ config \in File /\ pc[o] = "loadConfig"
  BY <1>1, RunFacts DEF LoadConfig
<1>4. j \in Job /\ j.account = i.account /\ j.config = config
  BY <1>2, <1>3 DEF Job
<1>5. PICK phase : phase = Then(j.account, "loadConfig")
  OBVIOUS
<1>6. phase = IF j.account = NoAccount THEN "writeConfig" ELSE "loadSecrets"
  BY <1>5 DEF Then
<1>7. Go(o, j, phase) /\ UNCHANGED <<user, dirs, files, outcome, failures>>
  BY <1>1, <1>2, <1>3, <1>5 DEF LoadConfig, Continue
<1>8. IF j.account = NoAccount THEN PlainRun(j, phase) ELSE AccountRun(j, phase)
  BY <1>4, <1>6 DEF PlainRun, AccountRun
<1>9. QED
  BY <1>3, <1>4, <1>6, <1>7, <1>8, ReadStep DEF Phase

LEMMA LoadSecretsStep ==
    ASSUME BootstrapInv, Alone, NEW o \in Operator, LoadSecrets(o)
    PROVE  BootstrapInv'
<1>1. PICK i : i = job[o]
  OBVIOUS
<1>2. PICK j : j = [i EXCEPT !.secrets = secrets]
  OBVIOUS
<1>3. /\ i \in Job /\ secrets \in File /\ pc[o] = "loadSecrets"
      /\ TypeOK /\ FilesInv /\ RunsInv
      /\ i.account = NoAccount => PlainRun(i, "loadSecrets")
      /\ i.account # NoAccount => AccountRun(i, "loadSecrets")
  BY <1>1, RunFacts DEF LoadSecrets
<1>4. UNCHANGED <<user, dirs, files, failures>>
  BY DEF LoadSecrets
<1>5. CASE End(o, "present")
  BY <1>3, <1>4, <1>5, EndDoes DEF BootstrapInv, TypeOK, files
<1>6. CASE ~Present(i, secrets)
  <2>1. j \in Job /\ j.account = i.account /\ j.secrets = secrets
        /\ j.config = i.config
    BY <1>2, <1>3 DEF Job
  <2>2. PICK phase : phase = Then(j.account, "loadSecrets")
    OBVIOUS
  <2>3. phase = IF j.account = NoAccount THEN "writeSecrets" ELSE "prompt"
    BY <2>2 DEF Then
  <2>4. Go(o, j, phase) /\ UNCHANGED outcome
    BY <1>1, <1>2, <1>3, <1>6, <2>2 DEF LoadSecrets, Continue
  <2>5. IF j.account = NoAccount THEN PlainRun(j, phase) ELSE AccountRun(j, phase)
    BY <1>3, <2>1, <2>3 DEF PlainRun, AccountRun
  <2>6. QED
    BY <1>3, <1>4, <2>1, <2>3, <2>4, <2>5, ReadStep DEF Phase
<1>7. QED
  BY <1>1, <1>5, <1>6 DEF LoadSecrets

LEMMA PromptSecretStep ==
    ASSUME BootstrapInv, Alone, NEW o \in Operator, PromptSecret(o)
    PROVE  BootstrapInv'
<1>1. PICK j : j = job[o]
  OBVIOUS
<1>2. /\ j \in Job /\ pc[o] = "prompt"
      /\ j.account = NoAccount => PlainRun(j, "prompt")
      /\ j.account # NoAccount => AccountRun(j, "prompt")
  BY <1>1, RunFacts DEF PromptSecret
<1>3. j.account # NoAccount
  BY <1>2 DEF PlainRun
<1>4. Go(o, j, "writeSecrets") /\ UNCHANGED <<user, dirs, files, outcome, failures>>
  BY <1>1, <1>2, <1>3 DEF PromptSecret, Continue, Then
<1>5. AccountRun(j, "writeSecrets")
  BY <1>2, <1>3 DEF AccountRun
<1>6. QED
  BY <1>2, <1>3, <1>4, <1>5, ReadStep DEF Phase

\* What a run writes keeps what the file had.
LEMMA UpdatedDoes ==
    ASSUME NEW j \in Job, NEW now \in File, ~now.exists => now.entries = {},
           NEW new, new = Updated(j, now, now)
    PROVE  /\ new \in File /\ new.exists
           /\ now.entries \subseteq new.entries
           /\ new.entries \subseteq now.entries \cup {j.account}
           /\ j.account = NoAccount => new.entries = now.entries
           /\ j.account # NoAccount => j.account \in new.entries
<1>1. CASE j.account = NoAccount
  <2>1. new = IF now.exists THEN now ELSE Written({})
    BY <1>1 DEF Updated
  <2>2. QED
    BY <1>1, <2>1 DEF Written, File
<1>2. CASE j.account # NoAccount
  <2>1. new = Written(now.entries \cup {j.account}) /\ j.account \in Account
    BY <1>2 DEF Updated, Job
  <2>2. QED
    BY <1>2, <2>1 DEF Written, File
<1>3. QED
  BY <1>1, <1>2

LEMMA WriteSecretsStep ==
    ASSUME BootstrapInv, Alone, NEW o \in Operator, WriteSecrets(o)
    PROVE  BootstrapInv' /\ secrets.entries \subseteq secrets'.entries
<1>1. PICK j : j = job[o]
  OBVIOUS
<1>2. PICK new : new = secrets'
  OBVIOUS
<1>3. /\ TypeOK /\ FilesInv /\ j \in Job /\ secrets \in File
      /\ outcome \in [Operator -> Outcome] /\ outcome[o].how = "running"
      /\ j.account = NoAccount => PlainRun(j, "writeSecrets")
      /\ j.account # NoAccount => AccountRun(j, "writeSecrets")
  BY <1>1, RunFacts DEF WriteSecrets
<1>4. /\ new = Updated(j, secrets, secrets) /\ Go(o, j, "ownSecrets")
      /\ UNCHANGED <<user, dirs, config, outcome, failures>>
  BY <1>1, <1>2, <1>3 DEF WriteSecrets, PlainRun, AccountRun
<1>5. /\ new \in File /\ new.exists /\ secrets.entries \subseteq new.entries
      /\ j.account # NoAccount => j.account \in new.entries
  BY <1>3, <1>4, UpdatedDoes DEF FilesInv
<1>6. IF j.account = NoAccount THEN PlainRun(j, "ownSecrets")'
                               ELSE AccountRun(j, "ownSecrets")'
  BY <1>2, <1>3, <1>4, <1>5 DEF PlainRun, AccountRun
<1>7. /\ pc' \in [Operator -> Phase] /\ job' \in [Operator -> Job]
      /\ RunsInv' /\ DoneMeansReady'
  BY <1>3, <1>4, <1>6, OnwardDoes DEF Phase
<1>8. TypeOK'
  BY <1>2, <1>3, <1>4, <1>5, <1>7 DEF TypeOK
<1>9. FilesInv'
  BY <1>2, <1>3, <1>4, <1>5 DEF FilesInv, ConfiguredHasSecret
<1>10. QED
  BY <1>2, <1>5, <1>7, <1>8, <1>9 DEF BootstrapInv

LEMMA WriteConfigStep ==
    ASSUME BootstrapInv, Alone, NEW o \in Operator, WriteConfig(o)
    PROVE  BootstrapInv' /\ config.entries \subseteq config'.entries
<1>1. PICK j : j = job[o]
  OBVIOUS
<1>2. PICK new : new = config'
  OBVIOUS
<1>3. /\ TypeOK /\ FilesInv /\ j \in Job /\ config \in File
      /\ outcome \in [Operator -> Outcome] /\ outcome[o].how = "running"
      /\ j.account = NoAccount => PlainRun(j, "writeConfig")
      /\ j.account # NoAccount => AccountRun(j, "writeConfig")
  BY <1>1, RunFacts DEF WriteConfig
<1>4. /\ new = Updated(j, config, config) /\ Go(o, j, "ownConfig")
      /\ UNCHANGED <<user, dirs, secrets, outcome, failures>>
  BY <1>1, <1>2, <1>3 DEF WriteConfig, PlainRun, AccountRun
<1>5. /\ new \in File /\ new.exists /\ config.entries \subseteq new.entries
      /\ new.entries \subseteq config.entries \cup {j.account}
      /\ j.account = NoAccount => new.entries = config.entries
      /\ j.account # NoAccount => j.account \in new.entries
  BY <1>3, <1>4, UpdatedDoes DEF FilesInv
<1>6. IF j.account = NoAccount THEN PlainRun(j, "ownConfig")'
                               ELSE AccountRun(j, "ownConfig")'
  BY <1>2, <1>3, <1>4, <1>5 DEF PlainRun, AccountRun
<1>7. /\ pc' \in [Operator -> Phase] /\ job' \in [Operator -> Job]
      /\ RunsInv' /\ DoneMeansReady'
  BY <1>3, <1>4, <1>6, OnwardDoes DEF Phase
<1>8. TypeOK'
  BY <1>2, <1>3, <1>4, <1>5, <1>7 DEF TypeOK
<1>9. FilesInv'
  <2>1. j.account # NoAccount => j.account \in secrets.entries
    BY <1>3 DEF AccountRun
  <2>2. QED
    BY <1>2, <1>3, <1>4, <1>5, <2>1 DEF FilesInv, ConfiguredHasSecret
<1>10. QED
  BY <1>2, <1>5, <1>7, <1>8, <1>9 DEF BootstrapInv

LEMMA OwnSecretsStep ==
    ASSUME BootstrapInv, Alone, NEW o \in Operator, OwnSecrets(o)
    PROVE  BootstrapInv' /\ secrets'.entries = secrets.entries
<1>1. PICK j : j = job[o]
  OBVIOUS
<1>2. PICK phase : phase = Then(j.account, "ownSecrets")
  OBVIOUS
<1>3. /\ TypeOK /\ FilesInv /\ j \in Job /\ secrets \in File
      /\ pc[o] = "ownSecrets"
      /\ outcome \in [Operator -> Outcome] /\ outcome[o].how = "running"
      /\ j.account = NoAccount => PlainRun(j, "ownSecrets")
      /\ j.account # NoAccount => AccountRun(j, "ownSecrets")
  BY <1>1, RunFacts DEF OwnSecrets
<1>4. phase = IF j.account = NoAccount THEN "units" ELSE "writeConfig"
  BY <1>2 DEF Then
<1>5. /\ Go(o, j, phase) /\ secrets' = [secrets EXCEPT !.owned = TRUE]
      /\ UNCHANGED <<user, dirs, config, outcome, failures>>
  BY <1>1, <1>2, <1>3 DEF OwnSecrets, Continue
<1>6. /\ secrets' \in File /\ secrets'.owned
      /\ secrets'.entries = secrets.entries /\ secrets'.exists = secrets.exists
  BY <1>3, <1>5 DEF File
<1>7. IF j.account = NoAccount THEN PlainRun(j, phase)' ELSE AccountRun(j, phase)'
  BY <1>3, <1>4, <1>5, <1>6 DEF PlainRun, AccountRun
<1>8. /\ pc' \in [Operator -> Phase] /\ job' \in [Operator -> Job]
      /\ RunsInv' /\ DoneMeansReady'
  BY <1>3, <1>4, <1>5, <1>7, OnwardDoes DEF Phase
<1>9. TypeOK' /\ FilesInv'
  BY <1>3, <1>5, <1>6, <1>8 DEF TypeOK, FilesInv, ConfiguredHasSecret
<1>10. QED
  BY <1>6, <1>8, <1>9 DEF BootstrapInv

LEMMA OwnConfigStep ==
    ASSUME BootstrapInv, Alone, NEW o \in Operator, OwnConfig(o)
    PROVE  BootstrapInv' /\ config'.entries = config.entries
<1>1. PICK j : j = job[o]
  OBVIOUS
<1>2. PICK phase : phase = Then(j.account, "ownConfig")
  OBVIOUS
<1>3. /\ TypeOK /\ FilesInv /\ j \in Job /\ config \in File
      /\ pc[o] = "ownConfig"
      /\ outcome \in [Operator -> Outcome] /\ outcome[o].how = "running"
      /\ j.account = NoAccount => PlainRun(j, "ownConfig")
      /\ j.account # NoAccount => AccountRun(j, "ownConfig")
  BY <1>1, RunFacts DEF OwnConfig
<1>4. phase = IF j.account = NoAccount THEN "loadSecrets" ELSE "units"
  BY <1>2 DEF Then
<1>5. /\ Go(o, j, phase) /\ config' = [config EXCEPT !.owned = TRUE]
      /\ UNCHANGED <<user, dirs, secrets, outcome, failures>>
  BY <1>1, <1>2, <1>3 DEF OwnConfig, Continue
<1>6. /\ config' \in File /\ config'.owned
      /\ config'.entries = config.entries /\ config'.exists = config.exists
  BY <1>3, <1>5 DEF File
<1>7. IF j.account = NoAccount THEN PlainRun(j, phase)' ELSE AccountRun(j, phase)'
  BY <1>3, <1>4, <1>5, <1>6 DEF PlainRun, AccountRun
<1>8. /\ pc' \in [Operator -> Phase] /\ job' \in [Operator -> Job]
      /\ RunsInv' /\ DoneMeansReady'
  BY <1>3, <1>4, <1>5, <1>7, OnwardDoes DEF Phase
<1>9. TypeOK' /\ FilesInv'
  BY <1>3, <1>5, <1>6, <1>8 DEF TypeOK, FilesInv, ConfiguredHasSecret
<1>10. QED
  BY <1>6, <1>8, <1>9 DEF BootstrapInv

\* A run ends well only with everything in place.
LEMMA HandleUnitsStep ==
    ASSUME BootstrapInv, Alone, NEW o \in Operator, HandleUnits(o)
    PROVE  BootstrapInv'
<1>1. PICK j : j = job[o]
  OBVIOUS
<1>2. /\ TypeOK /\ FilesInv /\ RunsInv /\ j \in Job
      /\ j.account = NoAccount => PlainRun(j, "units")
      /\ j.account # NoAccount => AccountRun(j, "units")
  BY <1>1, RunFacts DEF HandleUnits
<1>3. End(o, "done") /\ UNCHANGED <<user, dirs, files, failures>>
  BY DEF HandleUnits
<1>4. /\ Readable
      /\ j.account \in (config.entries \cap secrets.entries) \cup {NoAccount}
  <2>1. config.exists /\ config.owned /\ secrets.exists /\ secrets.owned
    BY <1>2 DEF PlainRun, AccountRun
  <2>2. j.account # NoAccount =>
          j.account \in config.entries /\ j.account \in secrets.entries
    BY <1>2 DEF AccountRun
  <2>3. QED
    BY <2>1, <2>2 DEF Readable
<1>5. QED
  BY <1>1, <1>2, <1>3, <1>4, EndDoes DEF BootstrapInv, TypeOK, files

LEMMA FailStep ==
    ASSUME BootstrapInv, Alone, NEW o \in Operator, Fail(o)
    PROVE  BootstrapInv'
<1>1. TypeOK /\ FilesInv /\ RunsInv
  BY DEF BootstrapInv
<1>2. /\ End(o, "failed") /\ failures' = failures + 1
      /\ UNCHANGED <<user, dirs, files>>
  BY DEF Fail
<1>3. QED
  BY <1>1, <1>2, EndDoes DEF BootstrapInv, TypeOK, files

\* Nothing but the two writes touches entries, and neither takes one away.
LEMMA BootstrapStep ==
    ASSUME BootstrapInv, Alone, [Next]_vars
    PROVE  /\ BootstrapInv'
           /\ config.entries \subseteq config'.entries
           /\ secrets.entries \subseteq secrets'.entries
<1>1. ASSUME NEW o \in Operator, NEW a \in Account \cup {NoAccount}, Start(o, a)
      PROVE  BootstrapInv' /\ UNCHANGED files
  BY <1>1, StartStep DEF Start
<1>2. ASSUME NEW o \in Operator,
             \/ EnsureServiceUser(o) \/ CreateDirectories(o)
             \/ LoadConfig(o) \/ LoadSecrets(o) \/ PromptSecret(o)
             \/ HandleUnits(o) \/ Fail(o)
      PROVE  BootstrapInv' /\ UNCHANGED files
  <2>1. BootstrapInv'
    BY <1>2, PrepareStep, LoadConfigStep, LoadSecretsStep, PromptSecretStep,
       HandleUnitsStep, FailStep
  <2>2. QED
    BY <1>2, <2>1 DEF EnsureServiceUser, CreateDirectories, LoadConfig,
                      LoadSecrets, PromptSecret, HandleUnits, Fail
<1>3. ASSUME NEW o \in Operator, WriteSecrets(o) \/ OwnSecrets(o)
      PROVE  /\ BootstrapInv' /\ config' = config
             /\ secrets.entries \subseteq secrets'.entries
  BY <1>3, WriteSecretsStep, OwnSecretsStep DEF WriteSecrets, OwnSecrets
<1>4. ASSUME NEW o \in Operator, WriteConfig(o) \/ OwnConfig(o)
      PROVE  /\ BootstrapInv' /\ secrets' = secrets
             /\ config.entries \subseteq config'.entries
  BY <1>4, WriteConfigStep, OwnConfigStep DEF WriteConfig, OwnConfig
<1>5. CASE UNCHANGED vars
  <2>1. UNCHANGED <<user, dirs, config, secrets, pc, job, outcome, failures>>
    BY <1>5 DEF vars, files
  <2>2. FilesInv' /\ DoneMeansReady'
    BY <2>1 DEF BootstrapInv, FilesInv, ConfiguredHasSecret, DoneMeansReady,
                Readable
  <2>3. RunsInv'
    BY <2>1 DEF BootstrapInv, RunsInv, PlainRun, AccountRun
  <2>4. TypeOK'
    BY <2>1 DEF BootstrapInv, TypeOK
  <2>5. QED
    BY <2>1, <2>2, <2>3, <2>4 DEF BootstrapInv
<1>6. QED
  BY <1>1, <1>2, <1>3, <1>4, <1>5 DEF Next, Step, files

LEMMA BootstrapInit ==
    ASSUME Init
    PROVE  BootstrapInv
<1>1. NoJob \in Job /\ NoJob.account = NoAccount /\ NoFile \in File
      /\ NoFile.entries = {}
  BY DEF NoJob, Job, NoFile, File
<1>2. TypeOK
  BY <1>1, BootstrapAssumption DEF Init, TypeOK, Phase, Outcome
<1>3. FilesInv
  BY <1>1 DEF Init, FilesInv, ConfiguredHasSecret
<1>4. RunsInv
  BY <1>1 DEF Init, RunsInv, PlainRun
<1>5. DoneMeansReady
  BY DEF Init, DoneMeansReady
<1>6. QED
  BY <1>2, <1>3, <1>4, <1>5 DEF BootstrapInv

-----------------------------------------------------------------------------
(* The daemon's requests *)

\* Only a write replaces a file, and a file that is there stays.
LEMMA FilesStay ==
    ASSUME TypeOK, [Next]_vars
    PROVE  /\ config.exists => config'.exists
           /\ config.owned => config'.owned \/ "config" \in Renamed
           /\ secrets.exists => secrets'.exists
           /\ secrets.owned => secrets'.owned \/ "secrets" \in Renamed
<1>1. config \in File /\ secrets \in File
  BY DEF TypeOK
<1>2. CASE UNCHANGED files
  BY <1>2 DEF files
<1>3. ASSUME NEW o \in Operator, WriteSecrets(o)
      PROVE  /\ config' = config /\ (secrets.exists => secrets'.exists)
             /\ secrets' = secrets \/ "secrets" \in Renamed
  BY <1>3 DEF WriteSecrets, Updated, Written, Renamed
<1>4. ASSUME NEW o \in Operator, WriteConfig(o)
      PROVE  /\ secrets' = secrets /\ (config.exists => config'.exists)
             /\ config' = config \/ "config" \in Renamed
  BY <1>4 DEF WriteConfig, Updated, Written, Renamed
<1>5. ASSUME NEW o \in Operator, OwnSecrets(o)
      PROVE  config' = config /\ secrets'.exists = secrets.exists /\ secrets'.owned
  BY <1>1, <1>5 DEF OwnSecrets, File
<1>6. ASSUME NEW o \in Operator, OwnConfig(o)
      PROVE  secrets' = secrets /\ config'.exists = config.exists /\ config'.owned
  BY <1>1, <1>6 DEF OwnConfig, File
<1>7. QED
  BY <1>2, <1>3, <1>4, <1>5, <1>6
     DEF Next, Step, Start, EnsureServiceUser, CreateDirectories, LoadConfig,
         LoadSecrets, PromptSecret, HandleUnits, Fail, files, vars

LEMMA InitStepInv ==
    ASSUME DoctorInv, Alone, [Next]_vars, Beside \/ UNCHANGED allVars
    PROVE  DoctorInv'
<1>1. /\ BootstrapInv' /\ config.entries \subseteq config'.entries
      /\ secrets.entries \subseteq secrets'.entries
  BY BootstrapStep DEF DoctorInv
<1>2. /\ UNCHANGED <<dpc, asked, found>>
      /\ renewed' \subseteq {"config", "secrets"}
  BY DEF DoctorInv, DoctorTypeOK, Beside, Renamed, allVars, doctorVars
<1>3. dpc # "idle" =>
        /\ config.exists /\ (config.owned \/ "config" \in renewed)
             => config'.exists /\ (config'.owned \/ "config" \in renewed')
        /\ secrets.exists /\ (secrets.owned \/ "secrets" \in renewed)
             => secrets'.exists /\ (secrets'.owned \/ "secrets" \in renewed')
  <2>1. TypeOK
    BY DEF DoctorInv, DoctorTypeOK
  <2>2. CASE Beside
    BY <2>1, <2>2, FilesStay DEF Beside
  <2>3. CASE UNCHANGED allVars
    BY <2>3 DEF allVars, vars, files, doctorVars
  <2>4. QED
    BY <2>2, <2>3
<1>4. ReportInv'
  BY <1>1, <1>2, <1>3 DEF DoctorInv, ReportInv, Nothing
<1>5. DoctorTypeOK'
  BY <1>1, <1>2 DEF DoctorInv, DoctorTypeOK, BootstrapInv
<1>6. QED
  BY <1>1, <1>4, <1>5 DEF DoctorInv

\* A step of the daemon leaves init's part as it is.
LEMMA BoundaryKept ==
    ASSUME BootstrapInv, Alone, UNCHANGED vars
    PROVE  BootstrapInv' /\ TypeOK' /\ UNCHANGED <<config, secrets>>
BY BootstrapStep DEF BootstrapInv, vars, files

LEMMA AskDaemonStep ==
    ASSUME DoctorInv, Alone, NEW what \in Account \cup {"doctor"}, AskDaemon(what)
    PROVE  DoctorInv'
<1>1. /\ dpc' = "config" /\ asked' = what /\ found' = Nothing /\ renewed' = {}
      /\ UNCHANGED vars
  BY DEF AskDaemon
<1>2. BootstrapInv' /\ TypeOK'
  BY <1>1, BoundaryKept DEF DoctorInv
<1>3. /\ Nothing \in Found /\ Nothing.listed = {} /\ Nothing.secrets = "none"
      /\ Nothing.config = "none"
  BY DEF Nothing, Found
<1>4. QED
  BY <1>1, <1>2, <1>3 DEF DoctorInv, DoctorTypeOK, ReportInv

LEMMA CheckConfigStep ==
    ASSUME DoctorInv, Alone, CheckConfig
    PROVE  DoctorInv'
<1>1. /\ BootstrapInv' /\ TypeOK' /\ UNCHANGED <<config, secrets, asked>>
  BY BoundaryKept DEF DoctorInv, CheckConfig
<1>2. PICK code : code = Opened(config, "config_missing", "config_unreadable")
  OBVIOUS
<1>3. PICK L : L = IF code = "pass" THEN config.entries ELSE {}
  OBVIOUS
<1>4. /\ code \in {"config_missing", "config_unreadable", "pass"}
      /\ L \subseteq config.entries /\ L \in SUBSET Account
      /\ code = "pass" => config.exists /\ config.owned
      /\ found \in Found /\ found.secrets = "none" /\ asked \in Account \cup {"doctor"}
  BY <1>2, <1>3 DEF Opened, DoctorInv, DoctorTypeOK, ReportInv, CheckConfig,
                    TypeOK, File
<1>5. /\ found' = [found EXCEPT !.config = code, !.listed = L]
      /\ dpc' = IF asked = "doctor" \/ asked \in L THEN "secrets" ELSE "answer"
      /\ renewed' \subseteq {"config", "secrets"}
  BY <1>2, <1>3 DEF CheckConfig, DoctorInv, DoctorTypeOK
<1>6. /\ found' \in Found /\ found'.listed = L /\ found'.secrets = "none"
      /\ found'.config = code
  BY <1>4, <1>5 DEF Found
<1>7. DoctorTypeOK'
  BY <1>1, <1>4, <1>5, <1>6 DEF DoctorTypeOK
<1>8. ReportInv'
  BY <1>1, <1>4, <1>5, <1>6 DEF ReportInv
<1>9. QED
  BY <1>1, <1>7, <1>8 DEF DoctorInv

\* Every account seen listed had its credential when the secrets were read.
LEMMA CheckSecretsStep ==
    ASSUME DoctorInv, Alone, CheckSecrets
    PROVE  DoctorInv'
<1>1. /\ BootstrapInv' /\ TypeOK' /\ UNCHANGED <<config, secrets, asked>>
  BY BoundaryKept DEF DoctorInv, CheckSecrets
<1>2. PICK code : code = Opened(secrets, "secrets_missing", "secrets_unreadable")
  OBVIOUS
<1>3. PICK S : S = IF code = "pass" THEN secrets.entries ELSE {}
  OBVIOUS
<1>4. /\ code \in {"secrets_missing", "secrets_unreadable", "pass"}
      /\ code = "pass" => /\ secrets.exists /\ secrets.owned
                          /\ S = secrets.entries
      /\ S \in SUBSET Account
      /\ found \in Found /\ asked \in Account \cup {"doctor"}
      /\ found.listed \subseteq config.entries
      /\ asked # "doctor" => asked \in found.listed
      /\ config.entries \subseteq secrets.entries
      /\ found.config = "pass" =>
            config.exists /\ (config.owned \/ "config" \in renewed)
  BY <1>2, <1>3 DEF Opened, DoctorInv, DoctorTypeOK, ReportInv, CheckSecrets,
                    TypeOK, File, BootstrapInv, FilesInv, ConfiguredHasSecret
<1>5. /\ found' = [found EXCEPT !.secrets = code, !.stored = S]
      /\ dpc' = IF asked = "doctor" THEN "cache" ELSE "answer"
      /\ renewed' \subseteq {"config", "secrets"}
      /\ "config" \in renewed => "config" \in renewed'
  BY <1>2, <1>3 DEF CheckSecrets, DoctorInv, DoctorTypeOK
<1>6. /\ found' \in Found /\ found'.listed = found.listed
      /\ found'.secrets = code /\ found'.stored = S
      /\ found'.config = found.config
  BY <1>4, <1>5 DEF Found
<1>7. DoctorTypeOK'
  BY <1>1, <1>4, <1>5, <1>6 DEF DoctorTypeOK
<1>8. ReportInv'
  BY <1>1, <1>4, <1>5, <1>6 DEF ReportInv
<1>9. QED
  BY <1>1, <1>7, <1>8 DEF DoctorInv

LEMMA CheckCacheStep ==
    ASSUME DoctorInv, Alone, CheckCache
    PROVE  DoctorInv'
<1>1. /\ BootstrapInv' /\ TypeOK' /\ UNCHANGED <<config, secrets, asked>>
  BY BoundaryKept DEF DoctorInv, CheckCache
<1>2. PICK code \in {"pass", "cache_not_writable", "cache_dir_missing"} :
         found' = [found EXCEPT !.cache = code]
  BY DEF CheckCache
<1>3. /\ found \in Found /\ dpc = "cache" /\ dpc' = "answer"
      /\ asked \in Account \cup {"doctor"} /\ renewed' = renewed
      /\ renewed \subseteq {"config", "secrets"}
  BY DEF DoctorInv, DoctorTypeOK, CheckCache
<1>4. /\ found' \in Found /\ found'.listed = found.listed
      /\ found'.secrets = found.secrets /\ found'.stored = found.stored
      /\ found'.config = found.config
  BY <1>2, <1>3 DEF Found
<1>5. DoctorTypeOK'
  BY <1>1, <1>3, <1>4 DEF DoctorTypeOK
<1>6. ReportInv'
  BY <1>1, <1>3, <1>4 DEF DoctorInv, ReportInv
<1>7. QED
  BY <1>1, <1>5, <1>6 DEF DoctorInv

LEMMA AnswerStep ==
    ASSUME DoctorInv, Alone, Answer
    PROVE  DoctorInv'
<1>1. /\ dpc' = "idle" /\ asked' = "doctor" /\ found' = Nothing /\ renewed' = {}
      /\ UNCHANGED vars
  BY DEF Answer
<1>2. BootstrapInv' /\ TypeOK'
  BY <1>1, BoundaryKept DEF DoctorInv
<1>3. /\ Nothing \in Found /\ Nothing.listed = {} /\ Nothing.secrets = "none"
      /\ Nothing.config = "none"
  BY DEF Nothing, Found
<1>4. QED
  BY <1>1, <1>2, <1>3 DEF DoctorInv, DoctorTypeOK, ReportInv

LEMMA DoctorStep ==
    ASSUME DoctorInv, Alone, [DoctorNext]_allVars
    PROVE  DoctorInv' /\ [Next]_vars
<1>1. CASE InitStep \/ UNCHANGED allVars
  BY <1>1, InitStepInv DEF InitStep, allVars
<1>2. ASSUME NEW what \in Account \cup {"doctor"}, AskDaemon(what)
      PROVE  DoctorInv' /\ UNCHANGED vars
  BY <1>2, AskDaemonStep DEF AskDaemon
<1>3. CASE Handler
  BY <1>3, CheckConfigStep, CheckSecretsStep, CheckCacheStep, AnswerStep
     DEF Handler, CheckConfig, CheckSecrets, CheckCache, Answer
<1>4. QED
  BY <1>1, <1>2, <1>3 DEF DoctorNext

LEMMA DoctorInvAlways ==
    ASSUME Alone
    PROVE  DoctorSpec => []DoctorInv /\ [][Next]_vars
<1>1. DoctorInit => DoctorInv
  <2> SUFFICES ASSUME DoctorInit PROVE DoctorInv
    OBVIOUS
  <2>1. BootstrapInv
    BY BootstrapInit DEF DoctorInit
  <2>2. Nothing \in Found /\ Nothing.listed = {} /\ Nothing.secrets = "none"
        /\ Nothing.config = "none"
    BY DEF Nothing, Found
  <2>3. QED
    BY <2>1, <2>2 DEF DoctorInit, DoctorInv, DoctorTypeOK, ReportInv, BootstrapInv
<1>2. DoctorInv /\ [DoctorNext]_allVars => DoctorInv' /\ [Next]_vars
  BY DoctorStep
<1>3. QED
  BY <1>1, <1>2, PTL DEF DoctorSpec

-----------------------------------------------------------------------------
(* The theorems *)

\* One operator's runs of init never configure an account without its
\* credential, whatever fails in between (the order of writes of ensureAccount).
THEOREM AccountsHaveCredentials ==
    ASSUME Alone
    PROVE  DoctorSpec => []ConfiguredHasSecret
<1>1. DoctorInv => ConfiguredHasSecret
  BY DEF DoctorInv, BootstrapInv, FilesInv
<1>2. QED
  BY <1>1, DoctorInvAlways, PTL

\* A run that reports success has left both files readable and both halves of
\* its account in them, however many runs failed before.
THEOREM SuccessIsReady ==
    ASSUME Alone
    PROVE  DoctorSpec => []DoneMeansReady
<1>1. DoctorInv => DoneMeansReady
  BY DEF DoctorInv, BootstrapInv
<1>2. QED
  BY <1>1, DoctorInvAlways, PTL

\* No run takes away what an earlier one added.
THEOREM EntriesOnlyGrow ==
    ASSUME Alone
    PROVE  DoctorSpec => NothingLost
<1>1. DoctorInv /\ [Next]_vars =>
        [/\ config.entries \subseteq config'.entries
         /\ secrets.entries \subseteq secrets'.entries]_vars
  BY BootstrapStep DEF DoctorInv
<1>2. QED
  BY <1>1, DoctorInvAlways, PTL DEF NothingLost

\* The doctor and the probe (verifyProbeCredential), which read the configuration
\* first and the secrets last, never miss the credential of an account that init
\* is adding meanwhile.
THEOREM NobodyIsBlamed ==
    ASSUME Alone
    PROVE  DoctorSpec => []NoFalseAlarm
<1>1. DoctorInv => NoFalseAlarm
  BY DEF DoctorInv, DoctorTypeOK, ReportInv, NoFalseAlarm, Blamed
<1>2. QED
  BY <1>1, DoctorInvAlways, PTL

\* When the doctor gives a healthy report, the entries it saw are still in both
\* files, and the files are still there and readable, except that init may have
\* replaced one since and not given it to the service user yet.
THEOREM HealthyReportsStand ==
    ASSUME Alone
    PROVE  DoctorSpec => []HealthyReportStands
<1>1. DoctorInv => HealthyReportStands
  BY DEF DoctorInv, BootstrapInv, FilesInv, ConfiguredHasSecret, ReportInv,
         HealthyReportStands, Healthy
<1>2. QED
  BY <1>1, DoctorInvAlways, PTL

=============================================================================
