----------------------------- MODULE MCCommands ------------------------------
(* Onboarding, doctor and gateway starts, and the service commands, side   *)
(* by side for TLC: a behaviour is one of the part it starts with, and the *)
(* variables of the other keep their initial values.                       *)
EXTENDS Configuration

CONSTANTS
  k1, k2,
  Paths, Absolute  \* ServiceManager

(* No key in the environment, as in a service, one of two, or two that     *)
(* differ.                                                                 *)
MCKeys == {k1, k2}
MCEnvironments ==
  {[liveclaw |-> Blank, openai |-> Blank], [liveclaw |-> Blank, openai |-> k2],
   [liveclaw |-> k1, openai |-> k2]}

VARIABLES
  part,  \* the part that moves
  manifest, loaded, service, command, said, installed

Service == INSTANCE ServiceManager WITH HomeHasOne <- FALSE

ASSUME CommandsAssumption == Service!ServiceManagerAssumption

serviceVars == <<manifest, loaded, service, command, said, installed>>
commandsVars == <<part, vars, serviceVars>>

(* Only one part moves. *)
OnlyConfiguration == part = "configuration" /\ UNCHANGED <<part, serviceVars>>
OnlyService == part = "service" /\ UNCHANGED <<part, vars>>

(* The actions of the parts. *)
ConfigurationOnboard(a, e, force) ==
  OnlyConfiguration /\ WriteOnboardConfig(a, e, force)
ConfigurationCheckOnboarding == OnlyConfiguration /\ CheckOnboarding
ConfigurationInterrupt == OnlyConfiguration /\ Interrupt
ConfigurationEdit == OnlyConfiguration /\ Edit
ConfigurationStop == OnlyConfiguration /\ Stop
ConfigurationDoctor(e) == OnlyConfiguration /\ Doctor(e)
ConfigurationRun(e, unusable) == OnlyConfiguration /\ Run(e, unusable)

ServiceEnter(n, p) == OnlyService /\ Service!Enter(n, p)
ServiceInstallCheck == OnlyService /\ Service!InstallCheck
ServiceInstallWrite == OnlyService /\ Service!InstallWrite
ServiceInstallReload == OnlyService /\ Service!InstallReload
ServiceStart == OnlyService /\ Service!Start
ServiceStop == OnlyService /\ Service!Stop
ServiceRestart == OnlyService /\ Service!Restart
ServiceStatus == OnlyService /\ Service!Status
ServiceUninstallStop == OnlyService /\ Service!UninstallStop
ServiceUninstallRemove == OnlyService /\ Service!UninstallRemove
ServiceUninstallForget == OnlyService /\ Service!UninstallForget
ServiceInterrupt == OnlyService /\ Service!Interrupt
ServiceReboot == OnlyService /\ Service!Reboot

CommandsInit == part \in {"configuration", "service"} /\ Init /\ Service!Init

CommandsNext ==
  \/ \E a \in Answers, e \in Environments, force \in BOOLEAN :
       ConfigurationOnboard(a, e, force)
  \/ ConfigurationCheckOnboarding \/ ConfigurationInterrupt
  \/ ConfigurationEdit \/ ConfigurationStop
  \/ \E e \in Environments :
       \/ ConfigurationDoctor(e)
       \/ \E unusable \in SUBSET Resources : ConfigurationRun(e, unusable)
  \/ \E p \in Paths, n \in {"install", "force_install"} : ServiceEnter(n, p)
  \/ \E n \in {"start", "stop", "restart", "status", "uninstall"} :
       ServiceEnter(n, None)
  \/ ServiceInstallCheck \/ ServiceInstallWrite \/ ServiceInstallReload
  \/ ServiceStart \/ ServiceStop \/ ServiceRestart \/ ServiceStatus
  \/ ServiceUninstallStop \/ ServiceUninstallRemove \/ ServiceUninstallForget
  \/ ServiceInterrupt \/ ServiceReboot

CommandsSpec == CommandsInit /\ [][CommandsNext]_commandsVars

----------------------------------------------------------------------------
(* ServiceManager: a restart that is reported runs what was installed      *)
(* last, an uninstall that is reported leaves no unit file, and status is  *)
(* not wrong about a service it calls active.                              *)
ServiceAsReported ==
  part = "service" =>
    /\ Service!TypeOK /\ Service!RestartApplies
    /\ Service!UninstallClears /\ Service!ActiveIsRunning
=============================================================================
