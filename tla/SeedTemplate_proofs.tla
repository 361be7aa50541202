------------------------- MODULE SeedTemplate_proofs -------------------------
(***************************************************************************)
(* Proofs about SeedTemplate, for any number of seed-template processes    *)
(* and templates: what a failed Build leaves, what the registry's file     *)
(* holds, and that what it lists can be forked.  To the bucket the         *)
(* processes are Saves of SnapshotStore, whose own invariant (module       *)
(* SnapshotStore_proofs) therefore holds inside the pipeline.              *)
(***************************************************************************)
EXTENDS SeedTemplate, TLAPS

SP == INSTANCE SnapshotStore_proofs WITH
  Save <- Build, OfSave <- OfBuild, Load <- {}, OfLoad <- <<>>, Verify <- {},
  load <- <<>>, got <- <<>>

(***************************************************************************)
(* The bucket                                                              *)
(***************************************************************************)

(* Store and SP instantiate the same module in the same way, so they       *)
(* define the same formulas, once every definition of either is expanded.  *)
LEMMA SameModule ==
  /\ Store!Init <=> SP!Init
  /\ Store!Next <=> SP!Next
  /\ Store!IndInv <=> SP!IndInv
BY DEF
       Store!saveVars, Store!loadVars, Store!vars, Store!ObjectName, Store!MemKey,
       Store!InFlight, Store!SaveState, Store!LoadState, Store!Content, Store!Nothing,
       Store!Init, Store!Rivals, Store!SaveBegins, Store!Put, Store!SaveGoes,
       Store!SavePutsState, Store!SavePutsMemfile, Store!SavePutsManifest, Store!NextKey,
       Store!SaveFails, Store!Stored, Store!Fetch, Store!LoadGetsManifest,
       Store!LoadGetsState, Store!LoadGetsMemfile, Store!LoadGetsRest, Store!LoadGivesUp,
       Store!Sums, Store!LoadChecks, Store!SaveStep, Store!LoadStep, Store!Next,
       Store!TypeOK, Store!ManifestNamesObjects, Store!VerifiedIsWhole, Store!Published,
       Store!SaveProgress, Store!LoadProgress, Store!WholeInv, Store!IsOf, Store!Stamped,
       Store!AloneSaves, Store!AloneLoads, Store!IndInv, SP!saveVars, SP!loadVars,
       SP!vars, SP!ObjectName, SP!MemKey, SP!InFlight, SP!SaveState, SP!LoadState,
       SP!Content, SP!Nothing, SP!Init, SP!Rivals, SP!SaveBegins, SP!Put, SP!SaveGoes,
       SP!SavePutsState, SP!SavePutsMemfile, SP!SavePutsManifest, SP!NextKey,
       SP!SaveFails, SP!Stored, SP!Fetch, SP!LoadGetsManifest, SP!LoadGetsState,
       SP!LoadGetsMemfile, SP!LoadGetsRest, SP!LoadGivesUp, SP!Sums, SP!LoadChecks,
       SP!SaveStep, SP!LoadStep, SP!Next, SP!TypeOK, SP!ManifestNamesObjects,
       SP!VerifiedIsWhole, SP!Published, SP!SaveProgress, SP!LoadProgress, SP!WholeInv,
       SP!IsOf, SP!Stamped, SP!AloneSaves, SP!AloneLoads, SP!IndInv

(* What SeedTemplate assumes is what SnapshotStore assumes of its          *)
(* parameters.                                                             *)
LEMMA Parameters == SP!StoreAssumption
BY SeedAssumption DEF SP!StoreAssumption

LEMMA StoreInit == Store!Init => Store!IndInv
BY SameModule, Parameters, SP!InitIndInv

LEMMA StoreStepInv == Store!IndInv /\ [Store!Next]_(Store!vars) => Store!IndInv'
<1>1. SP!IndInv /\ [SP!Next]_(SP!vars) => SP!IndInv'
  BY Parameters, SP!StepIndInv
<1>2. Store!IndInv <=> SP!IndInv
  BY SameModule
<1>3. [Store!Next]_(Store!vars) <=> [SP!Next]_(SP!vars)
  BY SameModule
     DEF Store!vars, SP!vars, Store!saveVars, SP!saveVars, Store!loadVars, SP!loadVars
<1> QED BY <1>1, <1>2, <1>3, PTL

(***************************************************************************)
(* The registry                                                            *)
(***************************************************************************)

(* A reader gets documents.                                                *)
LEMMA ContentsAreDocs == Reg!RegTypeOK => Reg!Contents \subseteq Reg!Doc
BY SeedAssumption DEF Reg!RegTypeOK, Reg!Contents, Reg!Doc, Reg!Empty

LEMMA RegInitInv == Reg!RegInit => Reg!RegInv
<1> SUFFICES ASSUME Reg!RegInit PROVE Reg!RegInv
  OBVIOUS
<1>1. Reg!RegTypeOK
  BY DEF Reg!RegInit, Reg!RegTypeOK, Reg!Doc, Reg!Empty, Reg!RegState, Reg!Registering
<1>2. Reg!Inodes /\ Reg!OneWriter
  BY SeedAssumption DEF Reg!RegInit, Reg!Inodes, Reg!OneWriter, Reg!Registering
<1>3. Reg!RegistryIntact
  BY DEF Reg!RegInit, Reg!RegistryIntact, Reg!Contents
<1> QED BY <1>1, <1>2, <1>3 DEF Reg!RegInv

(* OpenRegistry reads the file and Put enters p: alone, on top of what was *)
(* put before; beside another process it is a race from here on.           *)
LEMMA OpenInv ==
  ASSUME Reg!RegInv, NEW p \in Build, Reg!OpenAndPut(p)
  PROVE  Reg!RegInv'
<1> USE DEF Reg!RegInv
<1> PICK d \in Reg!Contents : map' = [map EXCEPT ![p] = [d EXCEPT ![OfBuild[p]] = p]]
  BY DEF Reg!OpenAndPut
<1>1. /\ step[p] = "new" /\ step' = [step EXCEPT ![p] = "opened"]
      /\ UNCHANGED <<bytes, file, tmp, fd, acked>>
      /\ raced' = (raced \/ \E q \in Build : step[q] \in Reg!Registering)
  BY DEF Reg!OpenAndPut, Reg!Step
<1>2. Reg!RegTypeOK'
  <2>1. [d EXCEPT ![OfBuild[p]] = p] \in Reg!Doc
    BY ContentsAreDocs, SeedAssumption DEF Reg!Doc
  <2>2. raced' \in BOOLEAN
    BY <1>1 DEF Reg!RegTypeOK
  <2> QED BY <1>1, <2>1, <2>2 DEF Reg!RegTypeOK, Reg!RegState, Reg!Registering
<1>3. Reg!Inodes'
  BY <1>1 DEF Reg!Inodes, Reg!RegTypeOK
<1>4. Reg!OneWriter'
  <2> SUFFICES ASSUME ~raced' PROVE Reg!OneWriter'
    BY DEF Reg!OneWriter
  <2>1. d = acked
    BY <1>1 DEF Reg!RegistryIntact
  <2>2. \A q \in Build \ {p} : step'[q] \notin Reg!Registering
    BY <1>1 DEF Reg!RegTypeOK
  <2>3. step'[p] = "opened" /\ map'[p] = [acked' EXCEPT ![OfBuild[p]] = p]
    BY <1>1, <2>1 DEF Reg!RegTypeOK
  <2> QED BY <2>2, <2>3 DEF Reg!OneWriter, Reg!Registering
<1>5. Reg!RegistryIntact'
  BY <1>1 DEF Reg!RegistryIntact, Reg!Contents
<1> QED BY <1>2, <1>3, <1>4, <1>5

(* The open for writing empties the .tmp, its own or one left behind.      *)
LEMMA TmpOpensInv ==
  ASSUME Reg!RegInv, NEW p \in Build, Reg!TmpOpens(p)
  PROVE  Reg!RegInv'
<1> USE DEF Reg!RegInv
<1> DEFINE i == IF tmp = None THEN p ELSE tmp
<1>1. /\ step[p] = "opened" /\ step' = [step EXCEPT ![p] = "writing"]
      /\ tmp' = i
      /\ fd' = [fd EXCEPT ![p] = i]
      /\ bytes' = [bytes EXCEPT ![i] = {}]
      /\ UNCHANGED <<file, map, acked, raced>>
  BY DEF Reg!TmpOpens, Reg!Step
<1>2. /\ i \in Build /\ i # None
      /\ file # None => file # i
      /\ \A q \in Build : q \in {file, i} => q = p \/ step[q] \notin {"new", "opened"}
  BY <1>1, SeedAssumption DEF Reg!Inodes, Reg!RegTypeOK
<1> HIDE DEF i
<1>3. Reg!RegTypeOK'
  BY <1>1, <1>2 DEF Reg!RegTypeOK, Reg!RegState, Reg!Registering
<1>4. Reg!Inodes'
  BY <1>1, <1>2 DEF Reg!Inodes, Reg!RegTypeOK
<1>5. Reg!OneWriter'
  <2> SUFFICES ASSUME ~raced PROVE Reg!OneWriter'
    BY <1>1 DEF Reg!OneWriter
  <2>1. \A q \in Build \ {p} : step'[q] \notin Reg!Registering
    BY <1>1 DEF Reg!OneWriter, Reg!RegTypeOK, Reg!Registering
  <2>2. step'[p] = "writing" /\ map'[p] = [acked' EXCEPT ![OfBuild[p]] = p]
    BY <1>1 DEF Reg!OneWriter, Reg!RegTypeOK, Reg!Registering
  <2>3. fd'[p] = tmp' /\ tmp' # None /\ bytes'[tmp'] = {}
    BY <1>1, <1>2 DEF Reg!RegTypeOK
  <2> QED BY <2>1, <2>2, <2>3 DEF Reg!OneWriter, Reg!Registering
<1>6. Reg!RegistryIntact'
  BY <1>1, <1>2 DEF Reg!RegistryIntact, Reg!Contents, Reg!RegTypeOK
<1> QED BY <1>3, <1>4, <1>5, <1>6

(* The write fills the .tmp, which is not the file a reader sees.          *)
LEMMA TmpWritesInv ==
  ASSUME Reg!RegInv, NEW p \in Build, Reg!TmpWrites(p)
  PROVE  Reg!RegInv'
<1> USE DEF Reg!RegInv
<1> PICK left \in {{}, bytes[fd[p]]} : bytes' = [bytes EXCEPT ![fd[p]] = left \cup {map[p]}]
  BY DEF Reg!TmpWrites
<1>1. /\ step[p] = "writing" /\ step' = [step EXCEPT ![p] = "written"]
      /\ UNCHANGED <<file, tmp, fd, map, acked, raced>>
  BY DEF Reg!TmpWrites, Reg!Step
<1>2. Reg!RegTypeOK'
  <2>1. bytes' \in [Build -> SUBSET Reg!Doc]
    BY DEF Reg!RegTypeOK
  <2> QED BY <1>1, <2>1 DEF Reg!RegTypeOK, Reg!RegState, Reg!Registering
<1>3. Reg!Inodes'
  BY <1>1 DEF Reg!Inodes, Reg!RegTypeOK
<1>4. ~raced => /\ fd[p] = tmp /\ tmp \in Build
                /\ bytes[tmp] = {} /\ bytes'[tmp] = {map[p]}
  BY <1>1 DEF Reg!OneWriter, Reg!RegTypeOK
<1>5. Reg!OneWriter'
  <2> SUFFICES ASSUME ~raced PROVE Reg!OneWriter'
    BY <1>1 DEF Reg!OneWriter
  <2>1. \A q \in Build \ {p} : step'[q] \notin Reg!Registering
    BY <1>1 DEF Reg!OneWriter, Reg!RegTypeOK, Reg!Registering
  <2>2. /\ step'[p] = "written" /\ map'[p] = [acked' EXCEPT ![OfBuild[p]] = p]
        /\ fd'[p] = tmp' /\ tmp' # None /\ bytes'[tmp'] = {map'[p]}
    BY <1>1, <1>4, SeedAssumption DEF Reg!OneWriter, Reg!RegTypeOK, Reg!Registering
  <2> QED BY <2>1, <2>2 DEF Reg!OneWriter, Reg!Registering
<1>6. Reg!RegistryIntact'
  <2> SUFFICES ASSUME ~raced PROVE Reg!RegistryIntact'
    BY <1>1 DEF Reg!RegistryIntact
  <2>1. file # None => bytes'[file] = bytes[file]
    BY <1>4 DEF Reg!Inodes, Reg!RegTypeOK
  <2> QED BY <1>1, <2>1 DEF Reg!RegistryIntact, Reg!Contents
<1> QED BY <1>2, <1>3, <1>5, <1>6

(* The rename puts the whole .tmp in the file's place.                     *)
LEMMA TmpRenamesInv ==
  ASSUME Reg!RegInv, NEW p \in Build, Reg!TmpRenames(p)
  PROVE  Reg!RegInv'
<1> USE DEF Reg!RegInv
<1>1. /\ step[p] = "written" /\ step' = [step EXCEPT ![p] = "over"]
      /\ tmp # None /\ file' = tmp /\ tmp' = None
      /\ acked' = [acked EXCEPT ![OfBuild[p]] = p]
      /\ UNCHANGED <<bytes, fd, map, raced>>
  BY DEF Reg!TmpRenames, Reg!Step
<1>2. Reg!RegTypeOK'
  <2>1. acked' \in Reg!Doc
    BY <1>1 DEF Reg!RegTypeOK, Reg!Doc
  <2> QED BY <1>1, <2>1 DEF Reg!RegTypeOK, Reg!RegState
<1>3. Reg!Inodes'
  BY <1>1, SeedAssumption DEF Reg!Inodes, Reg!RegTypeOK
<1>4. Reg!OneWriter'
  BY <1>1 DEF Reg!OneWriter, Reg!RegTypeOK, Reg!Registering
<1>5. Reg!RegistryIntact'
  <2> SUFFICES ASSUME ~raced PROVE Reg!RegistryIntact'
    BY <1>1 DEF Reg!RegistryIntact
  <2>1. bytes[tmp] = {map[p]} /\ map[p] = acked'
    BY <1>1 DEF Reg!OneWriter, Reg!Registering
  <2> QED BY <1>1, <2>1 DEF Reg!RegistryIntact, Reg!Contents
<1> QED BY <1>2, <1>3, <1>4, <1>5

(* A process that fails, or dies, leaves the files as they are.            *)
LEMMA RegOverInv ==
  ASSUME Reg!RegInv, NEW p \in Build,
         step' = [step EXCEPT ![p] = "over"],
         UNCHANGED <<bytes, file, tmp, fd, map, acked, raced>>
  PROVE  Reg!RegInv'
BY DEF Reg!RegInv, Reg!RegTypeOK, Reg!RegState, Reg!Inodes, Reg!OneWriter, Reg!Registering,
       Reg!RegistryIntact, Reg!Contents

LEMMA RegisterInv ==
  ASSUME Reg!RegInv, NEW p \in Build, Reg!RegisterStep(p) \/ Reg!Dies(p)
  PROVE  Reg!RegInv'
<1>1. CASE Reg!OpenAndPut(p)
  BY <1>1, OpenInv
<1>2. CASE Reg!TmpOpens(p)
  BY <1>2, TmpOpensInv
<1>3. CASE Reg!TmpWrites(p)
  BY <1>3, TmpWritesInv
<1>4. CASE Reg!TmpRenames(p)
  BY <1>4, TmpRenamesInv
<1>5. CASE Reg!OpenFails(p) \/ Reg!PersistFails(p) \/ Reg!Dies(p)
  BY <1>5, RegOverInv DEF Reg!OpenFails, Reg!PersistFails, Reg!Dies, Reg!Step
<1> QED BY <1>1, <1>2, <1>3, <1>4, <1>5 DEF Reg!RegisterStep

(***************************************************************************)
(* The steps of a process                                                  *)
(***************************************************************************)

LEMMA InitInv == Init => IndInv
<1> SUFFICES ASSUME Init PROVE IndInv
  OBVIOUS
<1>1. Store!IndInv /\ Reg!RegInv
  BY StoreInit, RegInitInv DEF Init
<1>2. TypeOK
  <2>1. Store!TypeOK /\ Reg!RegTypeOK
    BY <1>1 DEF Store!IndInv, Store!WholeInv, Reg!RegInv
  <2>2. todo \in [Build -> Nat] /\ \A b \in Build : todo[b] <= Commands[b]
    BY SeedAssumption DEF Init
  <2> QED BY <2>1, <2>2 DEF Init, TypeOK, BuildState, Running
<1>3. FailedBuildsLeaveNothing /\ BuildProgress
  BY DEF Init, FailedBuildsLeaveNothing, BuildProgress
<1>4. DocumentsListBuilt
  BY SeedAssumption
     DEF Init, Reg!RegInit, Reg!Empty, DocumentsListBuilt, ListsBuilt
<1> QED BY <1>1, <1>2, <1>3, <1>4 DEF IndInv

Moves(b) ==
  \/ (Step(b) \/ Killed(b)) /\ UNCHANGED swept
  \/ Sweep(b)

(* To the bucket a process is a Save, which its death makes fail.          *)
LEMMA MoveIsSave ==
  ASSUME IndInv, NEW b \in Build, Moves(b)
  PROVE  [Store!Next]_(Store!vars)
<1>1. ASSUME UNCHANGED storeVars PROVE UNCHANGED Store!vars
  BY <1>1 DEF storeVars, Store!vars, Store!saveVars, Store!loadVars
<1>2. ASSUME Store!SaveStep(b) PROVE Store!Next
  BY <1>2 DEF Store!Next
<1>3. CASE Uploading(b) \/ Uploaded(b) \/ UploadFails(b)
  BY <1>2, <1>3 DEF Uploading, Uploaded, UploadFails, Store!SaveStep
<1>4. CASE Killed(b)
  <2>1. CASE save[b] \in Store!InFlight
    <3>1. Store!SaveFails(b)
      BY <1>4, <2>1 DEF Killed, Store!SaveFails, Store!loadVars, IndInv, TypeOK, Store!TypeOK
    <3> QED BY <1>2, <3>1 DEF Store!SaveStep
  <2>2. CASE save[b] \notin Store!InFlight
    <3>1. save' = save
      BY <1>4, <2>2 DEF Killed, IndInv, TypeOK, Store!TypeOK
    <3> QED BY <1>1, <1>4, <3>1 DEF Killed, storeVars
  <2> QED BY <2>1, <2>2
<1>5. CASE Step(b) /\ ~(Uploading(b) \/ Uploaded(b) \/ UploadFails(b))
  BY <1>1, <1>5
     DEF Step, Prepare, PrepareFails, Start, StartFails, WaitForAgent, RunShell, Settle,
         Snapshot, BuildFails, Register, End
<1>6. CASE Sweep(b)
  BY <1>1, <1>6 DEF Sweep
<1> QED BY <1>3, <1>4, <1>5, <1>6 DEF Moves

(* To the registry it registers, dies or does nothing.                     *)
LEMMA MoveRegisters ==
  ASSUME NEW b \in Build, Moves(b)
  PROVE  \/ Register(b) /\ UNCHANGED swept
         \/ Killed(b) /\ Reg!Dies(b)
         \/ UNCHANGED regVars
BY DEF Moves, Step, Prepare, PrepareFails, Start, StartFails, WaitForAgent, RunShell, Settle,
       Snapshot, Uploading, Uploaded, BuildFails, UploadFails, End, Killed, Sweep

LEMMA MoveRegInv ==
  ASSUME IndInv, NEW b \in Build, Moves(b)
  PROVE  Reg!RegInv'
<1>1. ASSUME UNCHANGED regVars PROVE Reg!RegInv'
  BY <1>1 DEF IndInv, regVars, Reg!RegInv, Reg!RegTypeOK, Reg!Inodes, Reg!OneWriter,
              Reg!RegistryIntact, Reg!Contents
<1> QED BY <1>1, MoveRegisters, RegisterInv DEF IndInv, Register

(* A step of one process leaves the VM, the files and the Save of every    *)
(* other alone.                                                            *)
LEMMA MoveIsOwn ==
  ASSUME TypeOK, NEW b \in Build, Moves(b), NEW q \in Build \ {b}
  PROVE  /\ pc'[q] = pc[q] /\ vm'[q] = vm[q] /\ save'[q] = save[q]
         /\ q \in work' <=> q \in work
         /\ q \in chroot' <=> q \in chroot
         /\ q \in shot' <=> q \in shot
         /\ q \in swept' <=> q \in swept
<1> USE DEF TypeOK, Go, storeVars, buildVars, diskVars
<1>1. CASE Prepare(b) \/ PrepareFails(b) \/ Start(b) \/ StartFails(b)
  BY <1>1 DEF Prepare, PrepareFails, Start, StartFails, Moves, Sweep
<1>2. CASE WaitForAgent(b) \/ RunShell(b) \/ Settle(b) \/ Snapshot(b)
  BY <1>2 DEF WaitForAgent, RunShell, Settle, Snapshot, Moves, Sweep
<1>3. CASE Uploading(b) \/ Uploaded(b)
  BY <1>3 DEF Uploading, Uploaded, Store!SaveBegins, Store!SavePutsState,
              Store!SavePutsMemfile, Store!SavePutsManifest, Store!SaveGoes, Store!TypeOK,
              Moves, Sweep
<1>4. CASE BuildFails(b) \/ UploadFails(b)
  BY <1>4 DEF BuildFails, UploadFails, Cleanup, Store!SaveFails, Store!TypeOK, Moves, Sweep
<1>5. CASE Register(b) \/ End(b)
  BY <1>5 DEF Register, End, Moves, Sweep
<1>6. CASE Killed(b)
  BY <1>6 DEF Killed, Store!TypeOK, Moves, Sweep
<1>7. CASE Sweep(b)
  BY <1>7 DEF Sweep
<1> QED BY <1>1, <1>2, <1>3, <1>4, <1>5, <1>6, <1>7 DEF Moves, Step

LEMMA MoveTypeOK ==
  ASSUME IndInv, NEW b \in Build, Moves(b)
  PROVE  TypeOK'
<1> USE DEF Go, Running, BuildState, storeVars, buildVars, diskVars
<1>1. Store!TypeOK' /\ Reg!RegTypeOK'
  BY MoveIsSave, StoreStepInv, MoveRegInv DEF IndInv, Store!IndInv, Store!WholeInv, Reg!RegInv
<1>2. /\ pc \in [Build -> BuildState]
      /\ todo \in [Build -> Nat] /\ \A q \in Build : todo[q] <= Commands[q]
      /\ vm \in [Build -> {"none", "up", "down"}]
      /\ {broken, work, chroot, shot, swept} \subseteq SUBSET Build
  BY DEF IndInv, TypeOK
<1>3. /\ pc' \in [Build -> BuildState]
      /\ vm' \in [Build -> {"none", "up", "down"}]
  BY <1>2 DEF Moves, Step, Prepare, PrepareFails, Start, StartFails, WaitForAgent, RunShell,
              Settle, Snapshot, Uploading, Uploaded, BuildFails, UploadFails, Cleanup,
              Register, End, Killed, Sweep
<1>4. todo' \in [Build -> Nat] /\ \A q \in Build : todo'[q] <= Commands[q]
  <2>1. CASE RunShell(b)
    <3>1. todo[b] \in Nat /\ todo[b] > 0 /\ todo' = [todo EXCEPT ![b] = todo[b] - 1]
      BY <1>2, <2>1 DEF RunShell
    <3>2. todo[b] - 1 \in Nat /\ \A n \in Nat : todo[b] <= n => todo[b] - 1 <= n
      BY <3>1
    <3>3. \A q \in Build : Commands[q] \in Nat
      BY SeedAssumption
    <3>4. \A q \in Build : todo'[q] = IF q = b THEN todo[b] - 1 ELSE todo[q]
      BY <1>2, <3>1
    <3>5. \A q \in Build : todo'[q] <= Commands[q]
      BY <1>2, <3>2, <3>3, <3>4
    <3> QED BY <1>2, <3>1, <3>2, <3>5
  <2>2. CASE todo' = todo
    BY <1>2, <2>2
  <2> QED BY <2>1, <2>2
          DEF Moves, Step, Prepare, PrepareFails, Start, StartFails, WaitForAgent,
              Settle, Snapshot, Uploading, Uploaded, BuildFails, UploadFails,
              Register, End, Killed, Sweep
<1>5. {broken', work', chroot', shot', swept'} \subseteq SUBSET Build
  BY <1>2 DEF Moves, Step, Prepare, PrepareFails, Start, StartFails, WaitForAgent, RunShell,
              Settle, Snapshot, Uploading, Uploaded, BuildFails, UploadFails, Cleanup,
              Register, End, Killed, Sweep
<1> QED BY <1>1, <1>3, <1>4, <1>5 DEF TypeOK

(* What a process has done by the time it registers, and what it leaves    *)
(* when it fails.                                                          *)
LEMMA MoveProgress ==
  ASSUME IndInv, NEW b \in Build, Moves(b)
  PROVE  FailedBuildsLeaveNothing' /\ BuildProgress'
<1> USE DEF IndInv, TypeOK, Go, storeVars, buildVars, diskVars, Running
<1> DEFINE Left(q) ==
             /\ pc'[q] \in {"upload", "register", "ended", "failed"} => vm'[q] # "up"
             /\ pc'[q] = "failed" => q \notin work' \cup chroot' \cup shot'
           Done(q) ==
             /\ pc'[q] \in {"upload", "register"} => vm'[q] = "down" /\ q \in shot'
             /\ pc'[q] = "register" /\ q \in Upload => save'[q] = "saved"
<1>1. ASSUME NEW q \in Build \ {b} PROVE Left(q) /\ Done(q)
  BY MoveIsOwn DEF FailedBuildsLeaveNothing, BuildProgress
<1>2. Left(b) /\ Done(b)
  <2>1. CASE Sweep(b)
    BY <2>1 DEF Sweep, FailedBuildsLeaveNothing, BuildProgress
  <2>2. CASE UNCHANGED swept /\ Killed(b)
    BY <2>2 DEF Killed
  <2>3. CASE UNCHANGED swept /\ Step(b)
    <3>1. CASE Prepare(b) \/ PrepareFails(b) \/ Start(b) \/ StartFails(b) \/ WaitForAgent(b)
      BY <3>1 DEF Prepare, PrepareFails, Start, StartFails, WaitForAgent
    <3>2. CASE RunShell(b) \/ Settle(b)
      BY <3>2 DEF RunShell, Settle
    <3>3. CASE Snapshot(b)
      BY <3>3 DEF Snapshot
    <3>4. CASE Uploading(b)
      BY <3>4 DEF Uploading, FailedBuildsLeaveNothing, BuildProgress
    <3>5. CASE Uploaded(b)
      BY <3>5 DEF Uploaded, Store!SavePutsManifest, Store!SaveGoes, Store!TypeOK, BuildProgress
    <3>6. CASE BuildFails(b) \/ UploadFails(b)
      BY <3>6 DEF BuildFails, UploadFails, Cleanup
    <3>7. CASE Register(b) \/ End(b)
      BY <3>7 DEF Register, End, FailedBuildsLeaveNothing, BuildProgress
    <3> QED BY <2>3, <3>1, <3>2, <3>3, <3>4, <3>5, <3>6, <3>7 DEF Step
  <2> QED BY <2>1, <2>2, <2>3 DEF Moves
<1> QED BY <1>1, <1>2 DEF FailedBuildsLeaveNothing, BuildProgress

(* A Build that has registered stays built: nothing but the sweep of an    *)
(* unjailed one takes its files.                                           *)
LEMMA BuiltStays ==
  ASSUME IndInv, NEW b \in Build, Moves(b), NEW q \in Build, Built(q)
  PROVE  Built(q)'
<1> USE DEF IndInv, TypeOK, Go, storeVars, buildVars, diskVars, Running, Built
<1>1. CASE q # b
  BY <1>1, MoveIsOwn
<1>2. CASE q = b
  <2>1. CASE Sweep(b)
    BY <1>2, <2>1 DEF Sweep
  <2>2. CASE UNCHANGED swept /\ Killed(b)
    BY <1>2, <2>2 DEF Killed, Store!TypeOK, Store!InFlight
  <2>3. CASE UNCHANGED swept /\ Step(b)
    <3>1. Register(b) \/ End(b)
      BY <1>2, <2>3
         DEF Step, Prepare, PrepareFails, Start, StartFails, WaitForAgent, RunShell, Settle,
             Snapshot, Uploading, Uploaded, BuildFails, UploadFails
    <3> QED BY <1>2, <2>3, <3>1 DEF Register, End
  <2> QED BY <2>1, <2>2, <2>3 DEF Moves
<1> QED BY <1>1, <1>2

(* A document gets one new entry, that of a process that registers, in     *)
(* that process's memory; files get whole documents of their writers.      *)
LEMMA MoveDocuments ==
  ASSUME IndInv, NEW b \in Build, Moves(b)
  PROVE  DocumentsListBuilt'
<1> USE DEF IndInv
<1>1. ASSUME NEW d \in Reg!Doc, ListsBuilt(d)
      PROVE  ListsBuilt(d)'
  <2>1. \A t \in Template : d[t] # None => d[t] \in Build
    BY DEF Reg!Doc
  <2>2. \A t \in Template : d[t] # None => Built(d[t])'
    BY <1>1, <2>1, BuiltStays DEF ListsBuilt
  <2> QED BY <1>1, <2>2 DEF ListsBuilt
<1>2. \A q \in Build : map[q] \in Reg!Doc /\ bytes[q] \subseteq Reg!Doc
  BY DEF TypeOK, Reg!RegTypeOK
<1>3. CASE UNCHANGED regVars
  BY <1>1, <1>2, <1>3 DEF DocumentsListBuilt, regVars
<1>4. CASE Killed(b) /\ Reg!Dies(b)
  BY <1>1, <1>2, <1>4 DEF DocumentsListBuilt, Reg!Dies
<1>5. CASE Register(b) /\ UNCHANGED swept
  <2>1. CASE Reg!OpenAndPut(b)
    <3>1. PICK d \in Reg!Contents : map' = [map EXCEPT ![b] = [d EXCEPT ![OfBuild[b]] = b]]
      BY <2>1 DEF Reg!OpenAndPut
    <3>2. d \in Reg!Doc
      BY ContentsAreDocs DEF TypeOK
    <3>3. ListsBuilt(d)
      BY <3>1, SeedAssumption
         DEF Reg!Contents, Reg!Empty, DocumentsListBuilt, ListsBuilt, TypeOK, Reg!RegTypeOK
    <3>4. Built(b)
      BY <1>5 DEF Register, BuildProgress, Built
    <3>5. ListsBuilt([d EXCEPT ![OfBuild[b]] = b])
      BY <3>2, <3>3, <3>4, SeedAssumption DEF Reg!Doc, ListsBuilt
    <3>6. [d EXCEPT ![OfBuild[b]] = b] \in Reg!Doc
      BY <3>2 DEF Reg!Doc
    <3>7. \A q \in Build : ListsBuilt(map'[q])
      BY <3>1, <3>5 DEF DocumentsListBuilt, TypeOK, Reg!RegTypeOK
    <3>8. \A q \in Build : map'[q] \in Reg!Doc
      BY <1>2, <3>1, <3>6 DEF TypeOK, Reg!RegTypeOK
    <3>9. (\A q \in Build : ListsBuilt(map[q]))'
      BY <1>1, <3>7, <3>8
    <3>10. (\A q \in Build : \A c \in bytes[q] : ListsBuilt(c))'
      BY <1>1, <1>2, <2>1 DEF Reg!OpenAndPut, DocumentsListBuilt
    <3> QED BY <3>9, <3>10 DEF DocumentsListBuilt
  <2>2. CASE ~Reg!OpenAndPut(b)
    <3>1. map' = map
      BY <1>5, <2>2 DEF Register, Reg!RegisterStep, Reg!OpenFails, Reg!TmpOpens,
                        Reg!TmpWrites, Reg!TmpRenames, Reg!PersistFails
    <3>2. \A q \in Build : bytes'[q] \subseteq bytes[q] \cup {map[b]}
      <4>1. CASE Reg!TmpOpens(b)
        BY <4>1 DEF Reg!TmpOpens, TypeOK, Reg!RegTypeOK
      <4>2. CASE Reg!TmpWrites(b)
        BY <4>2 DEF Reg!TmpWrites, TypeOK, Reg!RegTypeOK
      <4>3. CASE Reg!OpenFails(b) \/ Reg!TmpRenames(b) \/ Reg!PersistFails(b)
        BY <4>3 DEF Reg!OpenFails, Reg!TmpRenames, Reg!PersistFails
      <4> QED BY <1>5, <2>2, <4>1, <4>2, <4>3 DEF Register, Reg!RegisterStep
    <3> QED BY <1>1, <1>2, <3>1, <3>2 DEF DocumentsListBuilt
  <2> QED BY <2>1, <2>2
<1> QED BY <1>3, <1>4, <1>5, MoveRegisters

(***************************************************************************)
(* The theorems                                                            *)
(***************************************************************************)

(* IndInv holds in every reachable state: of the bucket, the registry and  *)
(* the builds together.                                                    *)
THEOREM PipelineInv == Spec => []IndInv
<1>1. ASSUME IndInv, NEW b \in Build, Moves(b) PROVE IndInv'
  BY <1>1, MoveIsSave, StoreStepInv, MoveRegInv, MoveTypeOK, MoveProgress, MoveDocuments
     DEF IndInv
<1>2. ASSUME IndInv, UNCHANGED vars PROVE IndInv'
  <2>1. Store!IndInv'
    BY <1>2, StoreStepInv
       DEF IndInv, vars, storeVars, Store!vars, Store!saveVars, Store!loadVars
  <2>2. TypeOK' /\ Reg!RegInv'
    BY <1>2 DEF IndInv, vars, storeVars, regVars, buildVars, diskVars, TypeOK, Store!TypeOK,
                Reg!RegInv, Reg!RegTypeOK, Reg!Inodes, Reg!OneWriter, Reg!RegistryIntact,
                Reg!Contents
  <2>3. FailedBuildsLeaveNothing' /\ BuildProgress' /\ DocumentsListBuilt'
    BY <1>2 DEF IndInv, vars, storeVars, regVars, buildVars, diskVars,
                FailedBuildsLeaveNothing, BuildProgress, DocumentsListBuilt, ListsBuilt, Built
  <2> QED BY <2>1, <2>2, <2>3 DEF IndInv
<1>3. IndInv /\ [Next]_vars => IndInv'
  BY <1>1, <1>2 DEF Next, Moves
<1> QED BY InitInv, <1>3, PTL DEF Spec

(* A failed or finished build leaves no VM, and a failed one no files,     *)
(* wherever between the boot and the last upload it failed.                *)
THEOREM FailuresCleanUp == Spec => []FailedBuildsLeaveNothing
<1>1. IndInv => FailedBuildsLeaveNothing
  BY DEF IndInv
<1> QED BY PipelineInv, <1>1, PTL

(* The registry file is whole and complete as long as no two processes     *)
(* have registered at the same moment, whoever is killed and wherever.     *)
THEOREM RegistryStaysIntact == Spec => []RegistryIntact
<1>1. IndInv => RegistryIntact
  BY DEF IndInv, Reg!RegInv, RegistryIntact
<1> QED BY PipelineInv, <1>1, PTL

(* What the registry lists can be forked, also after races that tore or    *)
(* overwrote the file: every entry a reader can find is of a Build that    *)
(* finished, with its snapshot and its uploaded bundle in place.           *)
THEOREM EntriesAreUsable == Spec => []RegisteredIsUsable
<1>1. IndInv => RegisteredIsUsable
  <2> SUFFICES ASSUME IndInv, NEW d \in Reg!Contents, NEW t \in Template, d[t] # None
               PROVE  /\ OfBuild[d[t]] = t
                      /\ d[t] \in shot \/ d[t] \in swept \ Jailed
                      /\ vm[d[t]] = "down"
                      /\ d[t] \in Upload => /\ save[d[t]] = "saved"
                                            /\ object[t]["manifest.yaml"] # None
                      /\ d[t] \in Upload \cap alone => Store!Published(d[t])
    BY DEF RegisteredIsUsable
  <2> USE DEF IndInv
  <2>1. ListsBuilt(d)
    BY SeedAssumption
       DEF Reg!Contents, Reg!Empty, DocumentsListBuilt, ListsBuilt, TypeOK, Reg!RegTypeOK
  <2>2. d[t] \in Build
    BY ContentsAreDocs DEF TypeOK, Reg!Doc
  <2>3. OfBuild[d[t]] = t /\ Built(d[t])
    BY <2>1 DEF ListsBuilt
  <2>4. d[t] \in Upload => /\ save[d[t]] = "saved"
                           /\ object[t]["manifest.yaml"] # None
    BY <2>2, <2>3 DEF Built, Store!IndInv, Store!WholeInv, Store!SaveProgress
  <2>5. d[t] \in Upload \cap alone => Store!Published(d[t])
    BY <2>4 DEF Store!IndInv, Store!AloneSaves
  <2> QED BY <2>3, <2>4, <2>5 DEF Built
<1> QED BY PipelineInv, <1>1, PTL
=============================================================================
