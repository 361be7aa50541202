---------------------------- MODULE SeedTemplate ----------------------------
(***************************************************************************)
(* cmd/seed-template and internal/template/builder.go: each process builds *)
(* one template (Builder.Build: boot a VM, run Setup and Warmup commands   *)
(* through its agent, snapshot it, stop it, upload the bundle) and puts it *)
(* in the registry.  Several processes share the bucket (SnapshotStore,    *)
(* instance Store) and the registry file (Registry, instance Reg); every   *)
(* start of cmd/fork sweeps the temporary directory they build in.         *)
(***************************************************************************)
EXTENDS Naturals, FiniteSets

CONSTANTS Build,     \* the seed-template processes, and their Build calls
          Template, OfBuild,
          Zst,       \* the Builds of a template with compress_memfile
          Upload,    \* the Builds run with --upload
          Jailed,    \* the Builds run with --jailer
          Commands,  \* Commands[b]: how many Setup and Warmup commands it has
          None, Failed

ASSUME SeedAssumption ==
  /\ OfBuild \in [Build -> Template]
  /\ Zst \cup Upload \cup Jailed \subseteq Build
  /\ Commands \in [Build -> Nat]
  /\ None \notin Build \cup Template
  /\ Failed \notin Build \cup {None}

VARIABLES object, save, alone,  \* the bucket: see module SnapshotStore
          bytes, file, tmp, fd, map, step, acked, raced,  \* see module Registry
          pc,      \* pc[b]: progress of process b
          todo,    \* todo[b]: the commands Build has yet to send
          broken,  \* the Builds one of whose commands exited non-zero (a history)
          vm,      \* vm[b]: the build VM: "none", "up", "down"
          work,    \* the Builds whose firefork-build-* directory exists
          chroot,  \* the Builds whose chroot exists
          shot,    \* the Builds whose memfile and state are on disk
          swept    \* the Builds whose directory SweepStale took (a history)

Store == INSTANCE SnapshotStore WITH
  Save <- Build, OfSave <- OfBuild, Load <- {}, OfLoad <- <<>>, Verify <- {},
  load <- <<>>, got <- <<>>
Reg == INSTANCE Registry WITH Proc <- Build, Key <- Template, KeyOf <- OfBuild

storeVars == <<object, save, alone>>
regVars == <<bytes, file, tmp, fd, map, step, acked, raced>>
diskVars == <<work, chroot, shot>>
buildVars == <<todo, broken, vm, diskVars>>
vars == <<storeVars, regVars, pc, buildVars, swept>>

(* "start": the directories are made, m.Start is next.  "failed": Build    *)
(* returned an error and the process has exited.  "bootless": it did       *)
(* before m.Start returned.  "ended": the template is built, registered or *)
(* not.  "dead": the process was killed.                                   *)
Running == {"start", "agent", "commands", "snapshot", "upload", "register"}
BuildState == Running \cup {"new", "failed", "bootless", "ended", "dead"}

Init ==
  /\ Store!Init
  /\ Reg!RegInit
  /\ pc = [b \in Build |-> "new"]
  /\ todo = Commands
  /\ broken = {}
  /\ vm = [b \in Build |-> "none"]
  /\ work = {} /\ chroot = {} /\ shot = {} /\ swept = {}

Go(b, from, to) ==
  /\ pc[b] = from
  /\ pc' = [pc EXCEPT ![b] = to]

(***************************************************************************)
(* Build                                                                   *)
(***************************************************************************)

(* MkPrivateDir and the rootfs copy, and the chroot of a jailed build.     *)
Prepare(b) ==
  /\ Go(b, "new", "start")
  /\ work' = work \cup {b}
  /\ chroot' = IF b \in Jailed THEN chroot \cup {b} ELSE chroot
  /\ UNCHANGED <<storeVars, regVars, todo, broken, vm, shot>>

(* An error before the cleanup is deferred leaves the directories that     *)
(* exist by then: the rootfs copy, a chroot that PrepareChroot filled      *)
(* partly.                                                                 *)
PrepareFails(b) ==
  /\ Go(b, "new", "bootless")
  /\ work' \in {work, work \cup {b}}
  /\ chroot' \in {chroot} \cup {chroot \cup {b} : j \in Jailed \cap {b} \cap work'}
  /\ UNCHANGED <<storeVars, regVars, todo, broken, vm, shot>>

Start(b) ==
  /\ Go(b, "start", "agent")
  /\ vm' = [vm EXCEPT ![b] = "up"]
  /\ UNCHANGED <<storeVars, regVars, todo, broken, diskVars>>

(* m.Start fails before or after the process was started: CleanupChroot,   *)
(* and Build returns with no StopVMM.                                      *)
StartFails(b) ==
  /\ Go(b, "start", "bootless")
  /\ vm' \in {vm, [vm EXCEPT ![b] = "up"]}
  /\ chroot' = chroot \ {b}
  /\ UNCHANGED <<storeVars, regVars, todo, broken, work, shot>>

WaitForAgent(b) ==
  /\ Go(b, "agent", "commands")
  /\ UNCHANGED <<storeVars, regVars, buildVars>>

(* runShell looks for exit_code and code in the reply, and the agent says  *)
(* rc: a command that exits non-zero passes.                               *)
RunShell(b) ==
  /\ pc[b] = "commands" /\ todo[b] > 0
  /\ todo' = [todo EXCEPT ![b] = @ - 1]
  /\ broken' \in {broken, broken \cup {b}}
  /\ UNCHANGED <<storeVars, regVars, pc, vm, diskVars>>

Settle(b) ==
  /\ todo[b] = 0
  /\ Go(b, "commands", "snapshot")
  /\ UNCHANGED <<storeVars, regVars, buildVars>>
(* Mutant: the parent VM is left to the caller.                            *)
SnapshotLeavesVm(b) ==
  /\ Go(b, "snapshot", IF b \in Upload THEN "upload" ELSE "register")
  /\ shot' = shot \cup {b}
  /\ UNCHANGED <<storeVars, regVars, todo, broken, vm, work, chroot>>

(* m.Snapshot, then StopVMM.                                               *)
Snapshot(b) ==
  /\ Go(b, "snapshot", IF b \in Upload THEN "upload" ELSE "register")
  /\ shot' = shot \cup {b}
  /\ vm' = [vm EXCEPT ![b] = "down"]
  /\ UNCHANGED <<storeVars, regVars, todo, broken, work, chroot>>

(* Store.Save, up to its last upload.                                      *)
Uploading(b) ==
  /\ pc[b] = "upload"
  /\ Store!SaveBegins(b) \/ Store!SavePutsState(b) \/ Store!SavePutsMemfile(b)
  /\ UNCHANGED <<regVars, pc, buildVars>>

Uploaded(b) ==
  /\ Go(b, "upload", "register")
  /\ Store!SavePutsManifest(b)
  /\ UNCHANGED <<regVars, buildVars>>

(* cleanup: StopVMM, CleanupChroot and RemoveAll of the work directory;    *)
(* the snapshot is in one of the two.                                      *)
Cleanup(b) ==
  /\ vm' = [vm EXCEPT ![b] = IF @ = "up" THEN "down" ELSE @]
  /\ work' = work \ {b}
  /\ chroot' = chroot \ {b}
  /\ shot' = shot \ {b}

(* The agent does not answer, a command is refused or times out, the       *)
(* snapshot fails, or the context is done; a snapshot that failed may have *)
(* written its files.                                                      *)
BuildFails(b) ==
  /\ pc[b] \in {"agent", "commands", "snapshot"}
  /\ pc' = [pc EXCEPT ![b] = "failed"]
  /\ Cleanup(b)
  /\ UNCHANGED <<storeVars, regVars, todo, broken>>
(* Mutant: the template is registered and removed.                         *)
UploadFailsSoftly(b) ==
  /\ Go(b, "upload", "register")
  /\ Store!SaveFails(b)
  /\ Cleanup(b)
  /\ UNCHANGED <<regVars, todo, broken>>

UploadFails(b) ==
  /\ Go(b, "upload", "failed")
  /\ Store!SaveFails(b)
  /\ Cleanup(b)
  /\ UNCHANGED <<regVars, todo, broken>>

(***************************************************************************)
(* The registry, and the end of the process                                *)
(***************************************************************************)
Register(b) ==
  /\ pc[b] = "register"
  /\ Reg!RegisterStep(b)
  /\ UNCHANGED <<storeVars, pc, buildVars>>

(* An error of the registry is a warning.                                  *)
End(b) ==
  /\ Go(b, "register", "ended")
  /\ step[b] = "over"
  /\ UNCHANGED <<storeVars, regVars, buildVars>>

(* SIGKILL: the VM is a child and lives on.                                *)
Killed(b) ==
  /\ pc[b] \in Running
  /\ pc' = [pc EXCEPT ![b] = "dead"]
  /\ Reg!Dies(b)
  /\ save' = [save EXCEPT ![b] = IF @ \in Store!InFlight THEN "failed" ELSE @]
  /\ UNCHANGED <<object, alone, buildVars>>

(* SweepStale, by a cmd/fork that starts: a directory named firefork-build *)
(* goes when it is an hour old, and a Build lasts ten minutes at most.  The *)
(* snapshot of an unjailed Build is in it, whether the registry lists that *)
(* or not; the one of a jailed Build is in its chroot.                     *)
Sweep(b) ==
  /\ pc[b] \notin Running
  /\ b \in work
  /\ work' = work \ {b}
  /\ shot' = IF b \in Jailed THEN shot ELSE shot \ {b}
  /\ swept' = swept \cup {b}
  /\ UNCHANGED <<storeVars, regVars, pc, todo, broken, vm, chroot>>

Step(b) ==
  \/ Prepare(b) \/ PrepareFails(b) \/ Start(b) \/ StartFails(b)
  \/ WaitForAgent(b) \/ RunShell(b) \/ Settle(b) \/ Snapshot(b)
  \/ Uploading(b) \/ Uploaded(b) \/ BuildFails(b) \/ UploadFails(b)
  \/ Register(b) \/ End(b)

Next ==
  \E b \in Build :
    \/ (Step(b) \/ Killed(b)) /\ UNCHANGED swept
    \/ Sweep(b)

Spec == Init /\ [][Next]_vars

(***************************************************************************)
(* Properties                                                              *)
(***************************************************************************)

(* Every variable has its type.                                            *)
TypeOK ==
  /\ Store!TypeOK
  /\ Reg!RegTypeOK
  /\ pc \in [Build -> BuildState]
  /\ todo \in [Build -> Nat] /\ \A b \in Build : todo[b] <= Commands[b]
  /\ vm \in [Build -> {"none", "up", "down"}]
  /\ {broken, work, chroot, shot, swept} \subseteq SUBSET Build

(* A process that is no longer building has stopped its VM, and one whose  *)
(* build failed has removed everything it made, from the first step after  *)
(* the boot to the last upload; a VM outlives its process only if the boot *)
(* itself failed or the process was killed.                                *)
FailedBuildsLeaveNothing ==
  \A b \in Build :
    /\ pc[b] \in {"upload", "register", "ended", "failed"} => vm[b] # "up"
    /\ pc[b] = "failed" => b \notin work \cup chroot \cup shot

(* What the registry lists can be forked: the snapshot files of every      *)
(* entry are on disk, unless its Build was unjailed and swept; its VM is   *)
(* down; and if it was uploaded its bundle is in the bucket, whole unless  *)
(* another Save of the same name/version has come between.                 *)
RegisteredIsUsable ==
  \A d \in Reg!Contents : \A t \in Template :
    LET b == d[t] IN
    b # None =>
      /\ OfBuild[b] = t
      /\ b \in shot \/ b \in swept \ Jailed
      /\ vm[b] = "down"
      /\ b \in Upload => save[b] = "saved" /\ object[t]["manifest.yaml"] # None
      /\ b \in Upload \cap alone => Store!Published(b)

(* Between processes that do not register at the same moment no template   *)
(* is lost and no reader finds a torn file, whichever of them is killed    *)
(* and wherever.                                                           *)
RegistryIntact == Reg!RegistryIntact

(* The inductive invariant behind the three: those of the bucket and of    *)
(* the registry, and what a Build has done by the time it registers.       *)
BuildProgress ==
  \A b \in Build :
    /\ pc[b] \in {"upload", "register"} => vm[b] = "down" /\ b \in shot
    /\ pc[b] = "register" /\ b \in Upload => save[b] = "saved"

(* Every document, in the file, in a .tmp or in the memory of a process,   *)
(* lists Builds that have come that far, and keep what they left behind.   *)
Built(b) ==
  /\ pc[b] \in {"register", "ended", "dead"}
  /\ vm[b] = "down"
  /\ b \in shot \/ b \in swept \ Jailed
  /\ b \in Upload => save[b] = "saved"
ListsBuilt(d) == \A t \in Template : d[t] # None => OfBuild[d[t]] = t /\ Built(d[t])
DocumentsListBuilt ==
  \A b \in Build : ListsBuilt(map[b]) /\ \A d \in bytes[b] : ListsBuilt(d)

IndInv ==
  /\ TypeOK
  /\ Store!IndInv
  /\ Reg!RegInv
  /\ FailedBuildsLeaveNothing
  /\ BuildProgress
  /\ DocumentsListBuilt

(***************************************************************************)
(* What the documentation says and the code does not do                    *)
(***************************************************************************)

(* def.go:43-45 "Setup commands run sequentially over vsock [...]. Failure *)
(* aborts the build."                                                      *)
SetupFailureAborts ==
  \A d \in Reg!Contents : \A t \in Template : d[t] \notin broken
=============================================================================
