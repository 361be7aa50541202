---------------------------- MODULE Firecracker ----------------------------
(***************************************************************************)
(* What the orchestrator sees of one Firecracker process and of the        *)
(* directory (work directory or jailer chroot) that belongs to it.  The    *)
(* process is external; internal/fc drives it through exec.Cmd and the API *)
(* socket, and the operators below are those calls.  A composing module    *)
(* instantiates this one over the identifiers of its own VMs and conjoins  *)
(* an operator to the action of the goroutine that makes the call.         *)
(***************************************************************************)
CONSTANTS Vm,      \* the identifiers (uuid.NewString) of the processes
          Snap,    \* the snapshots (fc.SnapshotPaths)
          NoSnap   \* "nothing loaded"

VARIABLES proc,    \* proc[v]: the process, see ProcState
          mem,     \* mem[v]: the snapshot loaded into it
          dir      \* dir[v]: its directory exists on disk

vmVars == <<proc, mem, dir>>

(* A process is never started ("none"), serves its API with no VM          *)
(* ("ready"), holds a loaded VM ("paused", "running"), has been killed but *)
(* not waited for ("killed": a zombie), or has been waited for ("reaped"). *)
Alive == {"ready", "paused", "running"}
ProcState == Alive \cup {"none", "killed", "reaped"}

FcTypeOK ==
  /\ proc \in [Vm -> ProcState]
  /\ mem \in [Vm -> Snap \cup {NoSnap}]
  /\ dir \in [Vm -> BOOLEAN]

FcInit ==
  /\ proc = [v \in Vm |-> "none"]
  /\ mem = [v \in Vm |-> NoSnap]
  /\ dir = [v \in Vm |-> FALSE]

(***************************************************************************)
(* exec.Cmd                                                                *)
(***************************************************************************)

(* The directory is made and the process started.                          *)
Launch(v) ==
  /\ proc' = [proc EXCEPT ![v] = "ready"]
  /\ dir' = [dir EXCEPT ![v] = TRUE]
  /\ UNCHANGED mem

(* No process comes up; whether a directory is left behind is the caller's. *)
LaunchFails(v, leftover) ==
  /\ dir' = [dir EXCEPT ![v] = leftover]
  /\ UNCHANGED <<proc, mem>>

(* Process.Kill and removal of the directory, for every process of S.  The *)
(* killed child stays a zombie: nobody calls Wait.                         *)
KillAndRemove(S) ==
  /\ proc' = [v \in Vm |-> IF v \in S /\ proc[v] \in Alive THEN "killed" ELSE proc[v]]
  /\ dir' = [v \in Vm |-> dir[v] /\ v \notin S]
  /\ UNCHANGED mem

(* Process.Kill, Process.Wait and removal of the directory.                *)
KillWaitAndRemove(v) ==
  /\ proc' = [proc EXCEPT ![v] = "reaped"]
  /\ dir' = [dir EXCEPT ![v] = FALSE]
  /\ UNCHANGED mem

(* exec.CommandContext: os/exec kills the child once its context is done.  *)
KilledByContext(v) ==
  /\ proc[v] \in Alive
  /\ proc' = [proc EXCEPT ![v] = "killed"]
  /\ UNCHANGED <<mem, dir>>

(***************************************************************************)
(* The API socket                                                          *)
(***************************************************************************)

(* PUT /snapshot/load: the VM comes up paused.                             *)
LoadSnapshot(v, s) ==
  /\ proc[v] = "ready"
  /\ proc' = [proc EXCEPT ![v] = "paused"]
  /\ mem' = [mem EXCEPT ![v] = s]
  /\ UNCHANGED dir

(* PUT /snapshot/load with resume_vm = true.                               *)
LoadAndResume(v, s) ==
  /\ proc[v] = "ready"
  /\ proc' = [proc EXCEPT ![v] = "running"]
  /\ mem' = [mem EXCEPT ![v] = s]
  /\ UNCHANGED dir

(* PATCH /vm Resumed.                                                      *)
ResumeVm(v) ==
  /\ proc[v] = "paused"
  /\ proc' = [proc EXCEPT ![v] = "running"]
  /\ UNCHANGED <<mem, dir>>
=============================================================================
