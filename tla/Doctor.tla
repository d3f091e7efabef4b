------------------------------- MODULE Doctor -------------------------------
(***************************************************************************)
(* What the daemon makes of the boundary `ksuite-mail init` prepares, while *)
(* init may be at work: `ksuite-mail doctor` (internal/doctor/doctor.go),   *)
(* and the credential check before a probe (internal/daemon/daemon.go,      *)
(* handleProbeIMAP and verifyProbeCredential).                              *)
(*                                                                         *)
(* Both read two files one after the other, the configuration and then the *)
(* secrets (internal/secrets/secrets.go), as the service user: a file that *)
(* has been renamed into place and not yet been given to that user is      *)
(* unreadable.                                                             *)
(***************************************************************************)
EXTENDS Bootstrap

VARIABLES
    dpc,            \* where the handler is
    asked,          \* what it does: the doctor, or the probe of an account
    found,          \* what its checks found
    renewed         \* history: the files init has replaced since it read them

doctorVars == <<dpc, asked, found, renewed>>
allVars == <<vars, doctorVars>>

ASSUME DoctorAssumption == "doctor" \notin Account

-----------------------------------------------------------------------------
(* Data *)

\* The codes of the checks; listed and stored are what the files had.
Found == [config: {"none", "config_missing", "config_unreadable", "pass"},
          listed: SUBSET Account,
          secrets: {"none", "secrets_missing", "secrets_unreadable", "pass"},
          stored: SUBSET Account,
          cache: {"none", "cache_dir_missing", "cache_not_writable", "pass"}]

Nothing == [config |-> "none", listed |-> {}, secrets |-> "none",
            stored |-> {}, cache |-> "none"]

\* os.Open and os.ReadFile, for the service user.
Opened(file, missing, unreadable) ==
    IF ~file.exists THEN missing ELSE IF ~file.owned THEN unreadable ELSE "pass"

-----------------------------------------------------------------------------
(* The handlers *)

\* A request; the unit runs the daemon as the service user.
AskDaemon(what) ==
    /\ dpc = "idle"
    /\ user = "service"
    /\ dpc' = "config"
    /\ asked' = what
    /\ found' = Nothing
    /\ renewed' = {}
    /\ UNCHANGED vars

\* Mutant: the two files in the order init writes them.
CheckConfig_AfterSecrets ==
    \/ /\ dpc = "config" /\ found.secrets = "none"
       /\ found' = [found EXCEPT !.secrets = Opened(secrets, "secrets_missing",
                                                    "secrets_unreadable"),
                                 !.stored = secrets.entries]
       /\ UNCHANGED <<vars, dpc, asked, renewed>>
    \/ /\ dpc = "config" /\ found.secrets # "none"
       /\ found' = [found EXCEPT !.config = Opened(config, "config_missing",
                                                   "config_unreadable"),
                                 !.listed = config.entries]
       /\ dpc' = IF asked = "doctor" THEN "cache" ELSE "answer"
       /\ UNCHANGED <<vars, asked, renewed>>

\* checkConfig, or loadConfig and accountByID: a probe ends at once without its
\* account.  init validates what it writes.
CheckConfig ==
    /\ dpc = "config"
    /\ LET code == Opened(config, "config_missing", "config_unreadable")
           listed == IF code = "pass" THEN config.entries ELSE {}
       IN /\ found' = [found EXCEPT !.config = code, !.listed = listed]
          /\ dpc' = IF asked = "doctor" \/ asked \in listed THEN "secrets"
                                                           ELSE "answer"
    /\ renewed' = renewed \ {"config"}
    /\ UNCHANGED <<vars, asked>>

\* checkSecrets and verifyProbeCredential: secrets.Load.
CheckSecrets ==
    /\ dpc = "secrets"
    /\ LET code == Opened(secrets, "secrets_missing", "secrets_unreadable")
       IN found' = [found EXCEPT !.secrets = code,
                                 !.stored = IF code = "pass" THEN secrets.entries
                                                             ELSE {}]
    /\ dpc' = IF asked = "doctor" THEN "cache" ELSE "answer"
    /\ renewed' = renewed \ {"secrets"}
    /\ UNCHANGED <<vars, asked>>

\* checkCache: a file is written to the state directory and removed.
CheckCache ==
    /\ dpc = "cache"
    /\ \E code \in IF dirs THEN {"pass", "cache_not_writable"}
                           ELSE {"cache_dir_missing"} :
          found' = [found EXCEPT !.cache = code]
    /\ dpc' = "answer"
    /\ UNCHANGED <<vars, asked, renewed>>

Answer ==
    /\ dpc = "answer"
    /\ dpc' = "idle"
    /\ asked' = "doctor"
    /\ found' = Nothing
    /\ renewed' = {}
    /\ UNCHANGED vars

\* checkCredentials: the accounts reported as credential_missing.
Blamed ==
    IF found.config # "pass" \/ found.secrets # "pass" THEN {}
    ELSE (IF asked = "doctor" THEN found.listed ELSE {asked}) \ found.stored

\* Mutant: a secrets file that cannot be used is no failure.
Healthy_NoSecretsNeeded ==
    found.config = "pass" /\ found.cache = "pass" /\ Blamed = {}

\* The ok of the report: no check failed.
Healthy ==
    /\ found.config = "pass" /\ found.secrets = "pass" /\ found.cache = "pass"
    /\ Blamed = {}

-----------------------------------------------------------------------------
(* The specification *)

DoctorInit ==
    /\ Init
    /\ dpc = "idle"
    /\ asked = "doctor"
    /\ found = Nothing
    /\ renewed = {}

Handler == CheckConfig \/ CheckSecrets \/ CheckCache \/ Answer

\* A step of init: a rename is noted if a request is under way.
Renamed == (IF config' # config /\ (\E o \in Operator : WriteConfig(o))
            THEN {"config"} ELSE {})
           \cup (IF secrets' # secrets /\ (\E o \in Operator : WriteSecrets(o))
                 THEN {"secrets"} ELSE {})

Beside == /\ renewed' = IF dpc = "idle" THEN {} ELSE renewed \cup Renamed
          /\ UNCHANGED <<dpc, asked, found>>

InitStep == Next /\ Beside

DoctorNext ==
    \/ InitStep
    \/ \E what \in Account \cup {"doctor"} : AskDaemon(what)
    \/ Handler

DoctorSpec == DoctorInit /\ [][DoctorNext]_allVars

\* Every request is answered, and operators do as in Bootstrap.
DoctorFairness ==
    /\ WF_allVars(Handler)
    /\ \A o \in Operator :
          /\ WF_allVars(Step(o) /\ Beside)
          /\ \A a \in Account : SF_allVars(Start(o, a) /\ Beside)

FairDoctorSpec == DoctorSpec /\ DoctorFairness

-----------------------------------------------------------------------------
(* Correctness *)

\* The types of both parts.
DoctorTypeOK ==
    /\ TypeOK
    /\ dpc \in {"idle", "config", "secrets", "cache", "answer"}
    /\ asked \in Account \cup {"doctor"}
    /\ found \in Found
    /\ renewed \subseteq {"config", "secrets"}

\* No request blames an account for a missing credential while init is adding
\* it: init writes the secret first and the daemon reads it last.
NoFalseAlarm == dpc = "answer" => Blamed = {}

\* When a healthy report is given, whatever it has seen listed still has both
\* halves, and the daemon can still read every file that init has not replaced
\* since the doctor read it.  A file that it has replaced is there, but may not
\* have been given to the service user yet.
HealthyReportStands ==
    dpc = "answer" /\ asked = "doctor" /\ Healthy =>
        /\ found.listed \subseteq config.entries \cap secrets.entries
        /\ config.exists /\ (config.owned \/ "config" \in renewed)
        /\ secrets.exists /\ (secrets.owned \/ "secrets" \in renewed)

-----------------------------------------------------------------------------
(* The inductive invariant behind both, for one operator *)

\* What was seen listed is listed still, and was stored when the secrets were
\* read; a file that was readable is so until it is replaced.
ReportInv ==
    /\ found.listed \subseteq config.entries
    /\ dpc = "config" => found.config = "none"
    /\ dpc \in {"config", "secrets"} => found.secrets = "none"
    /\ dpc = "idle" => found = Nothing
    /\ found.config = "pass" =>
          config.exists /\ (config.owned \/ "config" \in renewed)
    /\ dpc \in {"secrets", "cache"} /\ asked # "doctor" => asked \in found.listed
    /\ found.secrets = "pass" =>
          /\ secrets.exists /\ (secrets.owned \/ "secrets" \in renewed)
          /\ found.listed \subseteq found.stored
          /\ asked # "doctor" => asked \in found.listed

DoctorInv == DoctorTypeOK /\ BootstrapInv /\ ReportInv

=============================================================================
