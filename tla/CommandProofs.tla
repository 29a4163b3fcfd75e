---------------------------- MODULE CommandProofs ----------------------------
(***************************************************************************)
(* Proofs about Configuration, for any keys, URLs and environments: the    *)
(* file onboarding writes resolves to what was asked for, and what passed  *)
(* onboarding or doctor starts.  And about ServiceManager, for any paths:  *)
(* what a service command reports is so.                                   *)
(***************************************************************************)
EXTENDS MCCommands, TLAPS

----------------------------------------------------------------------------
(* Configuration *)

(* What is known of the file: it names the provider it was written for     *)
(* with a key of its own, onboarding and doctor saw it valid in some       *)
(* environment, and a refused start saw what it failed.                    *)
AsAsked ==
  asked # None =>
    /\ \A e \in Environments : resolve_provider_selection(config, e) = asked
    /\ config.backend = "in_memory" /\ config.enable_artifacts = FALSE

Reported ==
  onboarded => \E e \in Environments : Valid(config, e, TRUE)

Passed ==
  doctored # None =>
    doctored \in Environments /\ config # None /\ Valid(config, doctored, TRUE)

RefusedStart ==
  refused # None =>
    /\ refused.env \in Environments
    /\ refused.at \in Resources \cup {"config"}
    /\ refused.at = "config" => config = None \/ ~Valid(config, refused.env, TRUE)
    /\ refused.at = "memory" => config.backend # "in_memory"
    /\ refused.at = "artifacts" => config.enable_artifacts

FileInv ==
  /\ onboarding \in Environments \cup {None}
  /\ AsAsked /\ Reported /\ Passed /\ RefusedStart

----------------------------------------------------------------------------
(* Resolving what onboarding builds gives what was asked, in whatever      *)
(* environment it is resolved.                                             *)
LEMMA BuiltResolves ==
  ASSUME NEW a \in Answers, NEW e \in Environments, NEW other \in Environments,
         Answered(a, e)
  PROVE  resolve_provider_selection(build_onboard_config(a, e), other) =
           Wanted(a, e)
<1> DEFINE profile == normalize_provider_profile(a.profile)
           key == Or(a.key, effective_api_key(Blank, e))
           c == build_onboard_config(a, e)
<1>1. key # Blank /\ profile # "other"
  BY DEF Answered
<1>2. profile \in Sections \cup {"legacy"}
  BY <1>1 DEF normalize_provider_profile, Answers, Or, Sections
<1>3. /\ c.profile = profile /\ c.key = key
      /\ c.provider = IF profile # "legacy" THEN profile
                      ELSE IF a.url = Blank THEN "openai" ELSE "openai_compatible"
      /\ c.url = IF profile = "legacy" THEN a.url ELSE Blank
      /\ profile \in Sections => c.section[profile] = [key |-> key, url |-> a.url]
  BY DEF build_onboard_config, DefaultConfig, Sections
<1>4. key # Blank /\ Or(key, effective_api_key(key, other)) = key
      /\ effective_api_key(key, other) = key
  BY <1>1 DEF Or, effective_api_key
<1>5. Profile(c) = profile
  BY <1>2, <1>3, ConfigurationAssumption DEF Profile, Or, Sections
<1>6. CASE profile = "legacy"
  <2>1. Provider(c) = IF a.url = Blank THEN "openai" ELSE "openai_compatible"
    BY <1>3, <1>6, ConfigurationAssumption DEF Provider, Or
  <2>2. /\ c.key = key /\ c.url = a.url /\ Profile(c) = "legacy"
        /\ Profile(c) \notin Sections
    BY <1>3, <1>5, <1>6 DEF Sections
  <2> HIDE DEF c, key
  <2>3. resolve_provider_selection(c, other) =
          [profile |-> "legacy",
           kind |-> IF a.url = Blank THEN "openai" ELSE "openai_compatible",
           key |-> key, url |-> a.url]
    BY <2>1, <2>2, <1>4 DEF resolve_provider_selection
  <2> USE DEF c, key
  <2> QED BY <2>3, <1>6 DEF Wanted
<1>7. CASE profile \in Sections
  <2>1. c.section[profile] = [key |-> key, url |-> a.url]
    BY <1>3, <1>7
  <2>2. c.url = Blank /\ c.key = key /\ profile # "legacy"
    BY <1>3, <1>7 DEF Sections
  <2>3. Or(a.url, Blank) = a.url
    BY DEF Or
  <2> HIDE DEF c, key, profile
  <2>4. resolve_provider_selection(c, other) =
          [profile |-> profile, kind |-> profile, key |-> key, url |-> a.url]
    BY <1>4, <1>5, <1>7, <2>1, <2>2, <2>3 DEF resolve_provider_selection
  <2> USE DEF c, key, profile
  <2> QED BY <2>2, <2>4 DEF Wanted
<1> QED BY <1>2, <1>6, <1>7

(* Whether the file is valid does not depend on the environment once the   *)
(* provider does not.                                                      *)
LEMMA ValidEverywhere ==
  ASSUME NEW c, NEW seen \in Environments, NEW e \in Environments,
         resolve_provider_selection(c, seen) = resolve_provider_selection(c, e),
         Valid(c, seen, TRUE)
  PROVE  Valid(c, e, TRUE)
BY DEF Valid

(* A report of doctor without a warning is what a start asks for. *)
LEMMA PassedIsValid ==
  ASSUME NEW c, NEW e, Valid(c, e, FALSE),
         resolve_provider_selection(c, e).key # Blank
  PROVE  Valid(c, e, TRUE)
BY DEF Valid

----------------------------------------------------------------------------
(* Nothing is known at first. *)
LEMMA FileInit == Init => FileInv
BY DEF Init, FileInv, AsAsked, Reported, Passed, RefusedStart

(* Every step keeps what is known of the file. *)
LEMMA FileNext == FileInv /\ [Next]_vars => FileInv'
<1> SUFFICES ASSUME FileInv, [Next]_vars PROVE FileInv'
  OBVIOUS
<1> USE DEF FileInv
<1>1. ASSUME NEW a \in Answers, NEW e \in Environments, NEW force \in BOOLEAN,
             WriteOnboardConfig(a, e, force)
      PROVE  FileInv'
  <2>1. CASE /\ Answered(a, e) /\ config' = build_onboard_config(a, e)
             /\ asked' = Wanted(a, e) /\ onboarding' = e /\ onboarded' = FALSE
             /\ doctored' = None /\ refused' = None
    <3>1. \A o \in Environments :
            resolve_provider_selection(build_onboard_config(a, e), o) = Wanted(a, e)
      BY <2>1, BuiltResolves
    <3>2. /\ build_onboard_config(a, e).backend = "in_memory"
          /\ build_onboard_config(a, e).enable_artifacts = FALSE
      BY DEF build_onboard_config, DefaultConfig
    <3>3. \A o \in Environments : resolve_provider_selection(config', o) = asked'
      BY <2>1, <3>1
    <3>4. AsAsked'
      BY <2>1, <3>2, <3>3 DEF AsAsked
    <3> QED BY <2>1, <3>4 DEF Reported, Passed, RefusedStart
  <2>2. CASE UNCHANGED vars
    BY <2>2 DEF vars, AsAsked, Reported, Passed, RefusedStart
  <2> QED BY <1>1, <2>1, <2>2 DEF WriteOnboardConfig, vars
<1>2. CASE CheckOnboarding
  <2>1. Reported'
    BY <1>2 DEF CheckOnboarding, Reported
  <2> QED BY <1>2, <2>1 DEF CheckOnboarding, AsAsked, Passed, RefusedStart
<1>3. CASE Interrupt
  BY <1>3 DEF Interrupt, AsAsked, Reported, Passed, RefusedStart
<1>4. CASE Edit
  BY <1>4 DEF Edit, AsAsked, Reported, Passed, RefusedStart
<1>5. CASE Stop
  BY <1>5 DEF Stop, AsAsked, Reported, Passed, RefusedStart
<1>6. ASSUME NEW e \in Environments, Doctor(e) PROVE FileInv'
  <2>1. Valid(config, e, TRUE)
    BY <1>6, PassedIsValid DEF Doctor
  <2> QED BY <1>6, <2>1 DEF Doctor, AsAsked, Reported, Passed, RefusedStart
<1>7. ASSUME NEW e \in Environments, NEW unusable \in SUBSET Resources,
             Run(e, unusable)
      PROVE  FileInv'
  <2>1. CASE Refusal(config, e, unusable) = None
    BY <1>7, <2>1 DEF Run, AsAsked, Reported, Passed, RefusedStart
  <2>2. CASE Refusal(config, e, unusable) # None
    <3>1. refused' = [env |-> e, at |-> Refusal(config, e, unusable)]
      BY <1>7, <2>2 DEF Run
    <3>2. config' = config
      BY <1>7 DEF Run
    <3>3. RefusedStart'
      BY <2>2, <3>1, <3>2
         DEF Refusal, OpensMemory, OpensArtifacts, Resources, RefusedStart
    <3> QED BY <1>7, <3>3 DEF Run, AsAsked, Reported, Passed
  <2> QED BY <2>1, <2>2
<1>8. CASE UNCHANGED vars
  BY <1>8 DEF vars, AsAsked, Reported, Passed, RefusedStart
<1> QED BY <1>1, <1>2, <1>3, <1>4, <1>5, <1>6, <1>7, <1>8 DEF Next

(* What is known holds in every reachable state. *)
LEMMA FileInvariant == Spec => []FileInv
<1> QED BY FileInit, FileNext, PTL DEF Spec

----------------------------------------------------------------------------
(* Until it is edited the file names the provider, key and URL onboarding  *)
(* was asked for, in every environment.                                    *)
THEOREM AskedIsResolved == Spec => []OnboardedAsAsked
<1>1. FileInv => OnboardedAsAsked
  BY DEF FileInv, AsAsked, OnboardedAsAsked
<1> QED BY FileInvariant, <1>1, PTL

(* A file that onboarding wrote and reported starts in every environment.  *)
THEOREM ReportedStarts == Spec => []OnboardedStarts
<1>1. FileInv => OnboardedStarts
  <2> SUFFICES ASSUME FileInv, onboarded, asked # None, NEW e \in Environments,
                      NEW unusable \in SUBSET Resources
               PROVE  Starts(config, e, unusable)
    BY DEF OnboardedStarts
  <2>1. PICK seen \in Environments : Valid(config, seen, TRUE)
    BY DEF FileInv, Reported
  <2>2. /\ config.backend = "in_memory" /\ config.enable_artifacts = FALSE
        /\ resolve_provider_selection(config, seen) =
             resolve_provider_selection(config, e)
    BY DEF FileInv, AsAsked
  <2>3. Valid(config, e, TRUE)
    BY <2>1, <2>2, ValidEverywhere
  <2> QED BY <2>2, <2>3 DEF Starts, OpensMemory, OpensArtifacts
<1> QED BY FileInvariant, <1>1, PTL

(* What doctor passed is refused only for a memory backend, an artifact    *)
(* storage or a port that the start could not open.                        *)
THEOREM DoctorIsRight == Spec => []DoctorForesees
<1>1. FileInv => DoctorForesees
  BY DEF FileInv, Passed, RefusedStart, Resources, DoctorForesees
<1> QED BY FileInvariant, <1>1, PTL

----------------------------------------------------------------------------
(* ServiceManager *)

(* What has been installed is what systemd has, and a command that has     *)
(* reported is over.                                                       *)
UnitInv ==
  /\ {manifest, loaded, service, installed} \subseteq Paths \cup {None}
  /\ command \in [name : {"none", "install", "force_install", "start", "stop",
                          "restart", "status", "uninstall"},
                  pc : {"idle", "check", "write", "reload", "remove", "forget"},
                  path : Paths \cup {None}]
  /\ installed # None => manifest = installed /\ loaded = installed
  /\ command.pc = "reload" => manifest = command.path
  /\ command.pc = "forget" => manifest = None /\ installed = None
  /\ said # "nothing" => command.pc = "idle"

(* What the last command reported. *)
ReportInv ==
  /\ said = "restarted" /\ installed # None => service = installed
  /\ said = "uninstalled" => manifest = None
  /\ said = "active" => service # None

(* Each step of a command, of systemd and of the machine keeps both. *)
LEMMA ServiceNext ==
  UnitInv /\ ReportInv /\ [Service!Next]_(Service!vars) => UnitInv' /\ ReportInv'
<1> SUFFICES ASSUME UnitInv, ReportInv, [Service!Next]_(Service!vars)
             PROVE  UnitInv' /\ ReportInv'
  OBVIOUS
<1> USE DEF UnitInv, ReportInv, Service!At, Service!Goes, Service!Says,
        Service!Failed, Service!Idle
<1>1. CASE \E p \in Paths, n \in {"install", "force_install"} : Service!Enter(n, p)
  BY <1>1 DEF Service!Enter
<1>2. CASE \E n \in {"start", "stop", "restart", "status", "uninstall"} :
             Service!Enter(n, None)
  BY <1>2 DEF Service!Enter
<1>3. CASE Service!InstallCheck
  BY <1>3 DEF Service!InstallCheck
<1>4. CASE Service!InstallWrite
  BY <1>4 DEF Service!InstallWrite
<1>5. CASE Service!InstallReload
  BY <1>5 DEF Service!InstallReload
<1>6. CASE Service!Start
  BY <1>6 DEF Service!Start, Service!RunsUnit
<1>7. CASE Service!Stop
  BY <1>7 DEF Service!Stop
<1>8. CASE Service!Restart
  BY <1>8 DEF Service!Restart, Service!RunsUnit
<1>9. CASE Service!Status
  <2>1. PICK what \in {"not installed", "active", "inactive"} :
          /\ command' = Service!Idle /\ said' = what
          /\ what = "active" => service # None
    BY <1>9 DEF Service!Status
  <2>2. UNCHANGED <<manifest, loaded, service, installed>>
    BY <1>9 DEF Service!Status
  <2> QED
    BY <2>1, <2>2
<1>10. CASE Service!UninstallStop
  <2>1. /\ command.pc = "check" /\ said = "nothing"
        /\ UNCHANGED <<manifest, loaded, installed>>
    BY <1>10 DEF Service!UninstallStop
  <2>2. CASE Service!Says("not installed") /\ UNCHANGED service
    BY <2>1, <2>2
  <2>3. CASE Service!Goes("remove") /\ service' \in {service, None}
    BY <2>1, <2>3
  <2> QED
    BY <1>10, <2>2, <2>3 DEF Service!UninstallStop
<1>11. CASE Service!UninstallRemove
  BY <1>11 DEF Service!UninstallRemove
<1>12. CASE Service!UninstallForget
  BY <1>12 DEF Service!UninstallForget
<1>13. CASE Service!Interrupt
  BY <1>13 DEF Service!Interrupt
<1>14. CASE Service!Reboot
  BY <1>14 DEF Service!Reboot
<1>15. CASE UNCHANGED Service!vars
  BY <1>15 DEF Service!vars
<1> QED
  BY <1>1, <1>2, <1>3, <1>4, <1>5, <1>6, <1>7, <1>8, <1>9, <1>10, <1>11, <1>12,
     <1>13, <1>14, <1>15 DEF Service!Next

(* A behaviour of the two parts is one of each. *)
LEMMA CommandsRun ==
  CommandsSpec => Spec /\ Service!Spec
<1> DEFINE Configures == [Next]_vars
           Serves == [Service!Next]_(Service!vars)
<1>1. CommandsInit => Init /\ Service!Init
  BY DEF CommandsInit
<1>2. [CommandsNext]_commandsVars => Configures /\ Serves
  <2>1. UNCHANGED serviceVars => Serves
    BY DEF serviceVars, Service!vars
  <2>2. OnlyConfiguration => Serves
    BY <2>1 DEF OnlyConfiguration
  <2>3. OnlyService => Configures
    BY DEF OnlyService
  <2>4. UNCHANGED commandsVars => Configures /\ Serves
    BY <2>1 DEF commandsVars
  <2>5. CommandsNext =>
          \/ OnlyConfiguration /\ Next
          \/ OnlyService /\ Service!Next
    <3> HAVE CommandsNext
    <3>1. CASE \/ \E a \in Answers, e \in Environments, force \in BOOLEAN :
                    ConfigurationOnboard(a, e, force)
               \/ ConfigurationCheckOnboarding \/ ConfigurationInterrupt
               \/ ConfigurationEdit \/ ConfigurationStop
               \/ \E e \in Environments :
                    \/ ConfigurationDoctor(e)
                    \/ \E unusable \in SUBSET Resources : ConfigurationRun(e, unusable)
      BY <3>1 DEF ConfigurationOnboard, ConfigurationCheckOnboarding,
         ConfigurationInterrupt, ConfigurationEdit, ConfigurationStop,
         ConfigurationDoctor, ConfigurationRun, Next
    <3>2. CASE \/ \E p \in Paths, n \in {"install", "force_install"} : ServiceEnter(n, p)
               \/ \E n \in {"start", "stop", "restart", "status", "uninstall"} :
                    ServiceEnter(n, None)
      BY <3>2 DEF ServiceEnter, Service!Next
    <3>3. CASE \/ ServiceInstallCheck \/ ServiceInstallWrite \/ ServiceInstallReload
               \/ ServiceStart \/ ServiceStop \/ ServiceRestart \/ ServiceStatus
               \/ ServiceUninstallStop \/ ServiceUninstallRemove
               \/ ServiceUninstallForget \/ ServiceInterrupt \/ ServiceReboot
      BY <3>3 DEF ServiceInstallCheck, ServiceInstallWrite, ServiceInstallReload,
         ServiceStart, ServiceStop, ServiceRestart, ServiceStatus,
         ServiceUninstallStop, ServiceUninstallRemove, ServiceUninstallForget,
         ServiceInterrupt, ServiceReboot, Service!Next
    <3> QED
      BY <3>1, <3>2, <3>3 DEF CommandsNext
  <2> HIDE DEF Configures, Serves
  <2>6. OnlyConfiguration /\ Next => Configures
    BY DEF Configures
  <2>7. OnlyService /\ Service!Next => Serves
    BY DEF Serves
  <2> QED
    BY <2>2, <2>3, <2>4, <2>5, <2>6, <2>7
<1> QED
  BY <1>1, <1>2, PTL DEF CommandsSpec, Spec, Service!Spec

(* Whatever commands, interruptions, failures and restarts of the machine  *)
(* come between: a restart that is reported runs what was installed last,  *)
(* an uninstall that is reported leaves no unit file, and a service that   *)
(* status calls active runs.                                               *)
THEOREM CommandsAsReported == CommandsSpec => []ServiceAsReported
<1>1. Service!Init => UnitInv /\ ReportInv
  BY DEF Service!Init, Service!Idle, UnitInv, ReportInv
<1>2. UnitInv /\ ReportInv /\ [Service!Next]_(Service!vars) => UnitInv' /\ ReportInv'
  BY ServiceNext
<1>3. UnitInv /\ ReportInv => ServiceAsReported
  BY DEF UnitInv, ReportInv, ServiceAsReported, Service!TypeOK,
     Service!RestartApplies, Service!UninstallClears, Service!ActiveIsRunning
<1> QED
  BY <1>1, <1>2, <1>3, CommandsRun, PTL DEF Service!Spec
=============================================================================
