---------------------------- MODULE ArtifactStore ----------------------------
(***************************************************************************)
(* The file-backed artifact service (storage.rs): every artifact is a      *)
(* directory and every version a file in it, named by its number.  A save  *)
(* reads the directory, picks a version and writes; deletes run in         *)
(* between, and the process may be killed at any point.                    *)
(*                                                                         *)
(* The runner numbers the artifacts of a session (transcript-000001.txt)   *)
(* and saves each once and from one task: a file has one saver at a time.  *)
(***************************************************************************)
EXTENDS Naturals, FiniteSets, FiniteSetsExt

CONSTANTS
  Files,        \* artifacts of a session
  Explicit,     \* versions a caller may ask for
  MaxSaves,     \* bound: saves
  NoVersion,    \* a request that names no version
  Partial       \* a version that is not written to its end

ArtifactAssumption ==
  /\ Explicit \subseteq Nat /\ MaxSaves \in Nat
  /\ NoVersion \notin Nat /\ Partial \notin Nat

VARIABLES
  dir,     \* the versions of a file and what they hold
  exists,  \* files whose directory exists
  saver,   \* where the save of a file is: requested and chosen version
  \* History.
  saves,   \* saves so far, each with a content of its own
  acked,   \* versions of a file that were acknowledged and not deleted
  newest   \* the content of the last save without a version, 0 after others

vars == <<dir, exists, saver, saves, acked, newest>>

NoVersions == [v \in {} |-> 0]
Idle == [pc |-> "idle", requested |-> NoVersion, version |-> 0, content |-> 0]
Becomes(f, record) == saver' = [saver EXCEPT ![f] = record]
Put(versions, v, c) ==
  [w \in DOMAIN versions \cup {v} |-> IF w = v THEN c ELSE versions[w]]
Drop(versions, gone) == [w \in DOMAIN versions \ gone |-> versions[w]]

Init ==
  /\ dir = [f \in Files |-> NoVersions] /\ exists = {}
  /\ saver = [f \in Files |-> Idle]
  /\ saves = 0
  /\ acked = [f \in Files |-> NoVersions] /\ newest = [f \in Files |-> 0]

----------------------------------------------------------------------------
(* save.                                                                   *)

CreateDir(f) ==
  /\ saver[f].pc = "idle" /\ saves < MaxSaves
  /\ saves' = saves + 1
  /\ exists' = exists \cup {f}
  /\ \E requested \in Explicit \cup {NoVersion} :
       Becomes(f, [pc |-> "list", requested |-> requested, version |-> 0,
                   content |-> saves + 1])
  /\ newest' = [newest EXCEPT ![f] = 0]
  /\ UNCHANGED <<dir, acked>>

(* Mutant of NextVersion: the versions are counted. *)
NextVersion_Counted(f) == Cardinality(DOMAIN dir[f]) + 1

(* versions_for_path, sorted; no versions in a missing directory. *)
NextVersion(f) == IF dir[f] = NoVersions THEN 1 ELSE Max(DOMAIN dir[f]) + 1

ChooseVersion(f) ==
  /\ saver[f].pc = "list"
  /\ Becomes(f, [saver[f] EXCEPT !.pc = "open",
       !.version = IF saver[f].requested = NoVersion THEN NextVersion(f)
                   ELSE saver[f].requested])
  /\ UNCHANGED <<dir, exists, saves, acked, newest>>

(* fs::write creates or empties the file, which fails without a directory, *)
(* and then writes it.  A caller that names a version replaces it.         *)
Open(f) ==
  /\ saver[f].pc = "open"
  /\ IF f \in exists
     THEN /\ dir' = [dir EXCEPT ![f] = Put(@, saver[f].version, Partial)]
          /\ acked' = IF saver[f].requested = NoVersion THEN acked
               ELSE [acked EXCEPT ![f] = Drop(@, {saver[f].version})]
          /\ Becomes(f, [saver[f] EXCEPT !.pc = "write"])
     ELSE Becomes(f, Idle) /\ UNCHANGED <<dir, acked>>
  /\ UNCHANGED <<exists, saves, newest>>

(* A file that was deleted while it is open takes the content along. *)
Write(f) ==
  /\ saver[f].pc = "write"
  /\ LET v == saver[f].version
     IN IF v \in DOMAIN dir[f]
        THEN /\ dir' = [dir EXCEPT ![f] = Put(@, v, saver[f].content)]
             /\ acked' = [acked EXCEPT ![f] = Put(@, v, saver[f].content)]
             /\ newest' = IF saver[f].requested # NoVersion THEN newest
                  ELSE [newest EXCEPT ![f] = saver[f].content]
        ELSE UNCHANGED <<dir, acked, newest>>
  /\ Becomes(f, Idle)
  /\ UNCHANGED <<exists, saves>>

----------------------------------------------------------------------------
(* delete: one version, or the directory.                                  *)

DeleteVersion(f) ==
  /\ \E v \in DOMAIN dir[f] :
       /\ dir' = [dir EXCEPT ![f] = Drop(@, {v})]
       /\ acked' = [acked EXCEPT ![f] = Drop(@, {v})]
  /\ newest' = [newest EXCEPT ![f] = 0]
  /\ UNCHANGED <<exists, saver, saves>>

DeleteAll(f) ==
  /\ f \in exists
  /\ dir' = [dir EXCEPT ![f] = NoVersions]
  /\ acked' = [acked EXCEPT ![f] = NoVersions]
  /\ newest' = [newest EXCEPT ![f] = 0]
  /\ exists' = exists \ {f}
  /\ UNCHANGED <<saver, saves>>

(* The process is killed and starts again. *)
Crash(f) ==
  /\ saver[f].pc # "idle"
  /\ Becomes(f, Idle)
  /\ UNCHANGED <<dir, exists, saves, acked, newest>>

Next ==
  \E f \in Files :
    \/ CreateDir(f) \/ ChooseVersion(f) \/ Open(f) \/ Write(f)
    \/ DeleteVersion(f) \/ DeleteAll(f) \/ Crash(f)
Spec == Init /\ [][Next]_vars

----------------------------------------------------------------------------

(* load of the latest version. *)
Latest(f) == Max(DOMAIN dir[f])
Load(f) == IF dir[f] = NoVersions THEN Partial ELSE dir[f][Latest(f)]

(* Types: only an existing directory has versions.                         *)
TypeOK ==
  \A f \in Files :
    /\ DOMAIN dir[f] # {} => f \in exists
    /\ \A v \in DOMAIN dir[f] : dir[f][v] \in 1..MaxSaves \cup {Partial}
    /\ saver[f].pc \in {"idle", "list", "open", "write"}

(* An acknowledged version keeps its content until it is deleted or saved  *)
(* again by number, whatever is saved, killed or deleted meanwhile.        *)
AcknowledgedIsKept ==
  \A f \in Files : \A v \in DOMAIN acked[f] :
    v \in DOMAIN dir[f] /\ dir[f][v] = acked[f][v]

(* What was saved last without a version is what is loaded without one,    *)
(* even after an earlier save was killed half way.                         *)
LoadsNewest ==
  \A f \in Files : newest[f] # 0 => Load(f) = newest[f]
=============================================================================
