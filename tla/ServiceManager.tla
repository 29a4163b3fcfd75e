--------------------------- MODULE ServiceManager ---------------------------
(***************************************************************************)
(* `liveclaw-app service ...` on Linux (run_service_command in main.rs):   *)
(* each command checks and changes the unit file of the service and calls  *)
(* systemctl, which may fail; the operator may interrupt a command between *)
(* two of its steps, and the machine may be restarted.                     *)
(*                                                                         *)
(* systemd keeps the unit it has loaded until it is told to reload, and    *)
(* runs the service in the operator's home directory.                      *)
(***************************************************************************)

CONSTANTS
  Paths,       \* what the operator passes as the config path
  Absolute,    \* those that mean the same file in every directory
  HomeHasOne,  \* a config of that name is in the home directory
  None

ServiceManagerAssumption ==
  /\ Absolute \subseteq Paths /\ None \notin Paths
  /\ HomeHasOne \in BOOLEAN

VARIABLES
  manifest,  \* the config path in the unit file, None without the file
  loaded,    \* the config path of the unit systemd has loaded
  service,   \* the config path the running service was given, or None
  command,   \* the command that runs and how far it is
  said,      \* what the last command reported
  installed  \* History: what was installed, None once a later install began to write

vars == <<manifest, loaded, service, command, said, installed>>

Idle == [name |-> "none", pc |-> "idle", path |-> None]
At(name, pc) == command.name = name /\ command.pc = pc
Goes(pc) == command' = [command EXCEPT !.pc = pc] /\ UNCHANGED said
Says(what) == command' = Idle /\ said' = what
Failed == Says("failed")

Init ==
  /\ manifest = None /\ loaded = None /\ service = None
  /\ command = Idle /\ said = "nothing" /\ installed = None

(* The operator starts a command. *)
Enter(name, path) ==
  /\ command = Idle
  /\ command' = [name |-> name, pc |-> "check", path |-> path]
  /\ said' = "nothing"
  /\ UNCHANGED <<manifest, loaded, service, installed>>

----------------------------------------------------------------------------
(* install.  The config exists in the directory of the operator.           *)

InstallCheck ==
  /\ At("install", "check") \/ At("force_install", "check")
  /\ IF manifest # None /\ command.name = "install" THEN Failed ELSE Goes("write")
  /\ UNCHANGED <<manifest, loaded, service, installed>>

InstallWrite ==
  /\ command.pc = "write"
  /\ \/ manifest' = command.path /\ installed' = None /\ Goes("reload")
     \/ Failed /\ UNCHANGED <<manifest, installed>>
  /\ UNCHANGED <<loaded, service>>

(* Mutant of InstallReload: the unit is not reloaded. *)
InstallReload_Skipped ==
  /\ command.pc = "reload"
  /\ installed' = command.path /\ Says("installed")
  /\ UNCHANGED <<manifest, loaded, service>>

InstallReload ==
  /\ command.pc = "reload"
  /\ \/ loaded' = manifest /\ installed' = command.path /\ Says("installed")
     \/ Failed /\ UNCHANGED <<loaded, installed>>
  /\ UNCHANGED <<manifest, service>>

----------------------------------------------------------------------------
(* start, stop, restart and status.                                        *)

(* systemd runs the unit it has loaded; one that is not in use may have    *)
(* been dropped and is loaded again.                                       *)
RunsUnit ==
  \E unit \in {loaded, manifest} \ {None} :
    /\ service = None \/ unit = loaded \/ loaded = None
    /\ loaded' = unit /\ service' = unit

Start ==
  /\ At("start", "check")
  /\ \/ manifest = None /\ Failed /\ UNCHANGED <<loaded, service>>
     \/ manifest # None /\ Failed /\ UNCHANGED <<loaded, service>>
     \/ manifest # None /\ service # None /\ Says("started")
          /\ UNCHANGED <<loaded, service>>
     \/ manifest # None /\ service = None /\ RunsUnit /\ Says("started")
  /\ UNCHANGED <<manifest, installed>>

Stop ==
  /\ At("stop", "check")
  /\ \/ Failed /\ UNCHANGED service
     \/ manifest # None /\ service' = None /\ Says("stopped")
  /\ UNCHANGED <<manifest, loaded, installed>>

Restart ==
  /\ At("restart", "check")
  /\ \/ Failed /\ UNCHANGED loaded
       /\ service' \in {service} \cup (IF manifest = None THEN {} ELSE {None})
     \/ manifest # None /\ RunsUnit /\ Says("restarted")
  /\ UNCHANGED <<manifest, installed>>

Status ==
  /\ At("status", "check")
  /\ \/ manifest = None /\ Says("not installed")
     \/ manifest # None /\ service # None /\ Says("active")
     \/ manifest # None /\ Says("inactive")   \* also when systemctl fails
  /\ UNCHANGED <<manifest, loaded, service, installed>>

----------------------------------------------------------------------------
(* uninstall: neither a stop nor a reload that fails is reported.          *)

UninstallStop ==
  /\ At("uninstall", "check")
  /\ \/ manifest = None /\ Says("not installed") /\ UNCHANGED service
     \/ manifest # None /\ Goes("remove") /\ service' \in {service, None}
  /\ UNCHANGED <<manifest, loaded, installed>>

UninstallRemove ==
  /\ At("uninstall", "remove")
  /\ \/ Goes("forget") /\ manifest' = None /\ installed' = None
     \/ Failed /\ UNCHANGED <<manifest, installed>>
  /\ UNCHANGED <<loaded, service>>

UninstallForget ==
  /\ At("uninstall", "forget")
  /\ loaded' \in {loaded, manifest}
  /\ Says("uninstalled")
  /\ UNCHANGED <<manifest, service, installed>>

----------------------------------------------------------------------------
(* The operator interrupts a command. *)
Interrupt ==
  /\ command # Idle
  /\ Says("interrupted")
  /\ UNCHANGED <<manifest, loaded, service, installed>>

(* The machine restarts.  The unit was never enabled: nothing is started.  *)
Reboot ==
  /\ loaded' = manifest /\ service' = None
  /\ command' = Idle /\ said' = "nothing"
  /\ UNCHANGED <<manifest, installed>>

Next ==
  \/ \E p \in Paths, n \in {"install", "force_install"} : Enter(n, p)
  \/ \E n \in {"start", "stop", "restart", "status", "uninstall"} : Enter(n, None)
  \/ InstallCheck \/ InstallWrite \/ InstallReload
  \/ Start \/ Stop \/ Restart \/ Status
  \/ UninstallStop \/ UninstallRemove \/ UninstallForget
  \/ Interrupt \/ Reboot

Spec == Init /\ [][Next]_vars

----------------------------------------------------------------------------
(* Types. *)
TypeOK ==
  /\ {manifest, loaded, service, installed} \subseteq Paths \cup {None}
  /\ command.path \in Paths \cup {None}
  /\ command.pc = "forget" => manifest = None

(* A restart that is reported after an install that was reported runs what *)
(* was installed, unless a later install failed half-way: nothing that was *)
(* loaded before is left, whatever commands and restarts came between.     *)
RestartApplies ==
  said = "restarted" /\ installed # None => service = installed

(* After an uninstall that is reported a new install does not need force,  *)
(* and no start can succeed before one.                                    *)
UninstallClears == said = "uninstalled" => manifest = None

(* What status says of an installed service is not wrong about it running. *)
ActiveIsRunning == said = "active" => service # None

(* The README installs with `--config liveclaw.toml` and starts: a service *)
(* that was started finds the config it was installed with.                *)
StartedFindsConfig ==
  said \in {"started", "restarted"} => service \in Absolute \/ HomeHasOne

(* The program says that the service is not installed, or was removed: it  *)
(* does not run.                                                           *)
RemovedIsStopped == said \in {"not installed", "uninstalled"} => service = None
=============================================================================
