--------------------------- MODULE Configuration ---------------------------
(***************************************************************************)
(* The configuration of liveclaw-app (config.rs, and in main.rs            *)
(* build_onboard_config, run_onboarding, resolve_provider_selection,       *)
(* validate_runtime_and_provider and main): onboarding writes the file and *)
(* then checks it, the operator edits it, `doctor` and the start of the    *)
(* gateway read it, each in an environment of its own.  What a start opens *)
(* beside it, the memory store, the artifact storage and the port, is not  *)
(* a matter of the file alone: it may be fine now and unusable later.      *)
(*                                                                         *)
(* Blank stands for a string of spaces or none at all, or an absent field. *)
(* Names of models, ports and voices play no part; a model is always found *)
(* because there is a last default.                                        *)
(***************************************************************************)
EXTENDS Naturals

CONSTANTS
  Keys,      \* API keys
  WsUrls,    \* base URLs that start with ws:// or wss://
  OtherUrls, \* those that do not
  Environments, \* the keys in LIVECLAW_API_KEY and OPENAI_API_KEY, where a command runs
  MaxEdits,  \* bound: edits of the file by hand
  Blank,
  None

ASSUME ConfigurationAssumption ==
  /\ Blank \notin Keys \cup WsUrls \cup OtherUrls
  /\ Blank \notin {"legacy", "openai", "openai_compatible", "openai-compatible", "other"}
  /\ WsUrls \cap OtherUrls = {}
  /\ Environments \subseteq [liveclaw : Keys \cup {Blank}, openai : Keys \cup {Blank}]
  /\ None \notin Environments
  /\ MaxEdits \in Nat

Sections == {"openai", "openai_compatible"}   \* the two tables of [providers]
Hosts == {"local", "public"}
Roles == {"readonly", "supervised", "full"}
Resources == {"memory", "artifacts", "port"}

VARIABLES
  config,     \* what the file holds, or None
  onboarding, \* the environment of an onboarding that has yet to check the file
  refused,    \* where and at what the last start was refused, or None
  gateway,    \* the default role of the gateway that runs, or None
  asked,      \* History: the provider the file was written for, None once edited
  onboarded,  \* History: onboarding reported the file as it is
  doctored,   \* History: the environment where doctor passed the file as it is
  edits

vars == <<config, onboarding, refused, gateway, asked, onboarded, doctored, edits>>

(* LiveClawConfig::default and the defaults of missing fields. *)
DefaultConfig ==
  [profile |-> "legacy", provider |-> Blank, key |-> Blank, url |-> Blank,
   section |-> [s \in Sections |-> [key |-> Blank, url |-> Blank]],
   host |-> "local", allow_public_bind |-> FALSE,
   docker |-> FALSE, docker_image |-> "image",
   default_role |-> "supervised", backend |-> "in_memory",
   enable_artifacts |-> FALSE]

Init ==
  /\ config = None /\ onboarding = None /\ gateway = None /\ refused = None
  /\ asked = None /\ onboarded = FALSE /\ doctored = None /\ edits = 0

----------------------------------------------------------------------------
(* The provider of a configuration.                                        *)

Or(value, fallback) == IF value # Blank THEN value ELSE fallback

effective_api_key(configured, e) == Or(configured, Or(e.liveclaw, e.openai))

Profile(c) == Or(c.profile, "legacy")
Provider(c) == Or(c.provider, "openai")

Supported(c) ==
  \/ Profile(c) = "legacy"
       /\ Provider(c) \in {"openai", "openai_compatible", "openai-compatible"}
  \/ Profile(c) \in Sections

resolve_provider_selection(c, e) ==
  IF Profile(c) \in Sections
  THEN LET own == c.section[Profile(c)]
       IN  [profile |-> Profile(c), kind |-> Profile(c),
            key |-> Or(own.key, effective_api_key(c.key, e)),
            url |-> Or(own.url, c.url)]
  ELSE [profile |-> "legacy",
        kind |-> IF Provider(c) = "openai" THEN "openai" ELSE "openai_compatible",
        key |-> effective_api_key(c.key, e), url |-> c.url]

Valid(c, e, requireKey) ==
  LET provider == resolve_provider_selection(c, e)
  IN  /\ Supported(c)
      /\ requireKey => provider.key # Blank
      /\ provider.url \notin OtherUrls
      /\ provider.kind = "openai_compatible" => provider.url # Blank
      /\ c.docker => c.docker_image # Blank
      /\ c.host = "public" => c.allow_public_bind

----------------------------------------------------------------------------
(* Onboarding.  An answer is given as an option or at a prompt; Blank is   *)
(* one that was left out.  A prompt that was left out asks again or takes  *)
(* the default.                                                            *)

Answers ==
  [profile : {"legacy", "openai", "openai_compatible", "openai-compatible",
              "other", Blank},
   key : Keys \cup {Blank}, url : WsUrls \cup OtherUrls \cup {Blank},
   host : Hosts]

normalize_provider_profile(raw) ==
  IF raw = "openai-compatible" THEN "openai_compatible" ELSE Or(raw, "legacy")

Answered(a, e) ==
  LET profile == normalize_provider_profile(a.profile)
  IN  /\ profile # "other"
      /\ Or(a.key, effective_api_key(Blank, e)) # Blank
      /\ profile = "openai_compatible" => a.url \in WsUrls

(* What the operator asked for. *)
Wanted(a, e) ==
  LET profile == normalize_provider_profile(a.profile)
  IN  [profile |-> profile,
       kind |-> IF profile = "legacy"
                THEN IF a.url = Blank THEN "openai" ELSE "openai_compatible"
                ELSE profile,
       key |-> Or(a.key, effective_api_key(Blank, e)),
       url |-> a.url]

(* Mutant of build_onboard_config: a key of the environment is not stored. *)
build_onboard_config_Given(a, e) ==
  LET profile == normalize_provider_profile(a.profile)
      own == [key |-> a.key, url |-> a.url]
  IN  [DefaultConfig EXCEPT
         !.profile = profile, !.host = a.host, !.key = a.key,
         !.provider = IF profile # "legacy" THEN profile
                      ELSE IF a.url = Blank THEN "openai" ELSE "openai_compatible",
         !.url = IF profile = "legacy" THEN a.url ELSE Blank,
         !.section = [s \in Sections |-> IF s = profile THEN own ELSE @[s]]]

build_onboard_config(a, e) ==
  LET profile == normalize_provider_profile(a.profile)
      key == Or(a.key, effective_api_key(Blank, e))
      own == [key |-> key, url |-> a.url]
  IN  [DefaultConfig EXCEPT
         !.profile = profile, !.host = a.host, !.key = key,
         !.provider = IF profile # "legacy" THEN profile
                      ELSE IF a.url = Blank THEN "openai" ELSE "openai_compatible",
         !.url = IF profile = "legacy" THEN a.url ELSE Blank,
         !.section = [s \in Sections |-> IF s = profile THEN own ELSE @[s]]]

(* The options and the questions up to the write, which only the write     *)
(* lets anyone see; they are answered in an environment of their own.      *)
WriteOnboardConfig(a, e, force) ==
  /\ onboarding = None
  /\ \/ /\ Answered(a, e) /\ (config = None \/ force)
        /\ config' = build_onboard_config(a, e) /\ refused' = None
        /\ onboarding' = e /\ asked' = Wanted(a, e)
        /\ onboarded' = FALSE /\ doctored' = None
     \/ /\ ~Answered(a, e) \/ (config # None /\ ~force)
        /\ UNCHANGED <<config, refused, onboarding, asked, onboarded, doctored>>
  /\ UNCHANGED <<gateway, edits>>

(* Mutant of CheckOnboarding: what is wrong is only printed. *)
CheckOnboarding_Lenient ==
  /\ onboarding # None /\ onboarding' = None
  /\ onboarded' = TRUE
  /\ UNCHANGED <<config, refused, gateway, asked, doctored, edits>>

(* The file is read again: it may have been edited. *)
CheckOnboarding ==
  /\ onboarding # None /\ onboarding' = None
  /\ onboarded' = (onboarded \/ Valid(config, onboarding, TRUE))
  /\ UNCHANGED <<config, refused, gateway, asked, doctored, edits>>

----------------------------------------------------------------------------
(* doctor, and the start of the gateway. *)

(* Mutant of Doctor: a key that is missing is no warning. *)
Doctor_NoWarning(e) ==
  /\ config # None /\ Valid(config, e, FALSE)
  /\ doctored' = e
  /\ UNCHANGED <<config, refused, onboarding, gateway, asked, onboarded, edits>>

(* Only a report that does not warn of a missing key passes the file: one  *)
(* about a file that is not valid fails.                                   *)
Doctor(e) ==
  /\ config # None /\ Valid(config, e, FALSE)
  /\ resolve_provider_selection(config, e).key # Blank
  /\ doctored' = e
  /\ UNCHANGED <<config, refused, onboarding, gateway, asked, onboarded, edits>>

(* build_memory_service: "file" opens the store of MemoryStore. *)
OpensMemory(c, unusable) ==
  \/ c.backend = "in_memory"
  \/ c.backend = "file" /\ "memory" \notin unusable
OpensArtifacts(c, unusable) == c.enable_artifacts => "artifacts" \notin unusable

(* Everything but the port, which other programs may take. *)
Starts(c, e, unusable) ==
  Valid(c, e, TRUE) /\ OpensMemory(c, unusable) /\ OpensArtifacts(c, unusable)

(* The first of its checks that a start fails, in the order of main. *)
Refusal(c, e, unusable) ==
  IF c = None \/ ~Valid(c, e, TRUE) THEN "config"
  ELSE IF ~OpensMemory(c, unusable) THEN "memory"
  ELSE IF ~OpensArtifacts(c, unusable) THEN "artifacts"
  ELSE IF "port" \in unusable THEN "port" ELSE None

(* What the host does not let it open is as it may be at that time. *)
Run(e, unusable) ==
  /\ gateway = None
  /\ LET at == Refusal(config, e, unusable)
     IN \/ at = None /\ gateway' = config.default_role /\ refused' = None
        \/ at # None /\ refused' = [env |-> e, at |-> at] /\ UNCHANGED gateway
  /\ UNCHANGED <<config, onboarding, asked, onboarded, doctored, edits>>

Stop ==
  /\ gateway # None /\ gateway' = None
  /\ UNCHANGED <<config, onboarding, refused, asked, onboarded, doctored, edits>>

----------------------------------------------------------------------------
(* The operator edits the file, or interrupts the onboarding.              *)

Edited(c) ==
  {[c EXCEPT !.profile = v] : v \in Sections \cup {"openai-compatible", Blank}}
  \cup {[c EXCEPT !.provider = v] : v \in {"openai-compatible", "other", Blank}}
  \cup {[c EXCEPT !.key = v] : v \in Keys \cup {Blank}}
  \cup {[c EXCEPT !.url = v] : v \in WsUrls \cup OtherUrls \cup {Blank}}
  \cup {[c EXCEPT !.section[s].key = v] : s \in Sections, v \in Keys \cup {Blank}}
  \cup {[c EXCEPT !.section[s].url = v] : s \in Sections, v \in OtherUrls \cup {Blank}}
  \cup {[c EXCEPT !.host = "public"], [c EXCEPT !.allow_public_bind = TRUE]}
  \cup {[c EXCEPT !.docker = TRUE, !.docker_image = v] : v \in {"image", Blank}}
  \cup {[c EXCEPT !.default_role = v] : v \in {"full", "other"}}
  \cup {[c EXCEPT !.backend = v] : v \in {"file", "other"}}
  \cup {[c EXCEPT !.enable_artifacts = TRUE]}

Edit ==
  /\ config # None /\ edits < MaxEdits
  /\ config' \in Edited(config) \ {config}
  /\ asked' = None /\ onboarded' = FALSE /\ doctored' = None /\ edits' = edits + 1
  /\ refused' = None
  /\ UNCHANGED <<onboarding, gateway>>

Interrupt ==
  /\ onboarding # None /\ onboarding' = None
  /\ UNCHANGED <<config, refused, gateway, asked, onboarded, doctored, edits>>

Next ==
  \/ \E a \in Answers, e \in Environments, force \in BOOLEAN :
       WriteOnboardConfig(a, e, force)
  \/ CheckOnboarding \/ Interrupt \/ Edit \/ Stop
  \/ \E e \in Environments :
       Doctor(e) \/ \E unusable \in SUBSET Resources : Run(e, unusable)

Spec == Init /\ [][Next]_vars

----------------------------------------------------------------------------
(* Types. *)
TypeOK ==
  /\ {onboarding, doctored} \subseteq Environments \cup {None}
  /\ refused \in [env : Environments, at : Resources \cup {"config"}] \cup {None}
  /\ onboarded \in BOOLEAN /\ edits \in 0..MaxEdits
  /\ config = None => {onboarding, asked, doctored, gateway} = {None}
  /\ config # None => Profile(config) \in Sections \cup {"legacy", "openai-compatible"}

(* Whatever the answers and the environment of the onboarding were, the    *)
(* file it wrote names the provider, key and URL that were asked for, in   *)
(* every environment, and until it is edited.                              *)
OnboardedAsAsked ==
  asked # None =>
    \A e \in Environments : resolve_provider_selection(config, e) = asked

(* A file that onboarding wrote and reported starts the gateway in every   *)
(* environment, such as that of a service, which has no keys, and whatever *)
(* of the host cannot be used, the port aside.                             *)
OnboardedStarts ==
  onboarded /\ asked # None =>
    \A e \in Environments, unusable \in SUBSET Resources :
      Starts(config, e, unusable)

(* When doctor passes the file in the environment of a start that is       *)
(* refused, the start was refused for what doctor does not look at: a      *)
(* memory backend of another kind than the default, an artifact storage    *)
(* that is in use, or the port.                                            *)
DoctorForesees ==
  doctored # None /\ refused # None /\ refused.env = doctored =>
    \/ refused.at = "memory" /\ config.backend # "in_memory"
    \/ refused.at = "artifacts" /\ config.enable_artifacts
    \/ refused.at = "port"

(* design.md: a missing config file means the defaults.  With a key in the *)
(* environment these are enough to start.                                  *)
MissingFileDefaults ==
  config = None /\ refused # None => ~Starts(DefaultConfig, refused.env, {})

(* design.md: an invalid field is an error of validation.  A gateway that  *)
(* runs can create sessions of its default role.                           *)
InvalidFieldsRejected == gateway # None => gateway \in Roles
=============================================================================
