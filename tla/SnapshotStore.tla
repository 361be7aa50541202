--------------------------- MODULE SnapshotStore ---------------------------
(***************************************************************************)
(* internal/snapshot/store.go: Store.Save and Store.Load over an object    *)
(* store (internal/storage: S3Storage).  Save uploads the state file, the  *)
(* memfile and, last, the manifest that names them and carries their       *)
(* SHA-256; Load downloads the manifest and what it names.  Calls run in   *)
(* processes of their own (seed-template, the host that restores), so any  *)
(* two of them interleave between two requests.                            *)
(*                                                                         *)
(* Every Save uploads a memfile and a state of its own, and SHA-256 tells  *)
(* them apart: the content of an object is the Save that wrote it, and the *)
(* manifest of s is the one that names MemKey(s) and holds the sums of s.  *)
(***************************************************************************)
EXTENDS FiniteSets

CONSTANTS Save,      \* the Save calls
          Load,      \* the Load calls, each into a destDir of its own
          Template,  \* the name/version pairs
          OfSave, OfLoad,
          Zst,       \* the Saves with CompressMemfile
          Verify,    \* the Loads with LoadOptions.VerifySha256
          None, Failed

ASSUME StoreAssumption ==
  /\ OfSave \in [Save -> Template]
  /\ OfLoad \in [Load -> Template]
  /\ Zst \subseteq Save
  /\ Verify \subseteq Load
  /\ None \notin Save
  /\ Failed \notin Save \cup {None}

VARIABLES object,  \* object[t][k]: the Save that wrote the object, or None
          save,    \* save[s]: progress of a Save call
          alone,   \* the Saves that met no other Save of their template (a history)
          load,    \* load[l]: progress of a Load call
          got      \* got[l]: what l has downloaded

saveVars == <<object, save, alone>>
loadVars == <<load, got>>
vars == <<saveVars, loadVars>>

(* StateKey, MemFileKey and ManifestKey under <name>/<version>/.           *)
ObjectName == {"state.bin", "memfile.bin", "memfile.zst", "manifest.yaml"}
MemKey(s) == IF s \in Zst THEN "memfile.zst" ELSE "memfile.bin"

InFlight == {"state", "memfile", "manifest"}
SaveState == InFlight \cup {"new", "saved", "failed"}
LoadState == {"manifest", "state", "memfile", "rest", "check", "loaded", "failed"}
Content == Save \cup {None}

(* The transfer manager downloads the memfile in ranges: the first and the *)
(* rest of it may come from two different objects.                         *)
Nothing == [manifest |-> None, state |-> None, first |-> None, rest |-> None]

Init ==
  /\ object = [t \in Template |-> [k \in ObjectName |-> None]]
  /\ save = [s \in Save |-> "new"]
  /\ alone = {}
  /\ load = [l \in Load |-> "manifest"]
  /\ got = [l \in Load |-> Nothing]

(***************************************************************************)
(* Save                                                                    *)
(***************************************************************************)
Rivals(s) == {r \in Save \ {s} : OfSave[r] = OfSave[s]}

SaveBegins(s) ==
  /\ save[s] = "new"
  /\ save' = [save EXCEPT ![s] = "state"]
  /\ alone' = (alone \ Rivals(s)) \cup
              (IF \E r \in Rivals(s) : save[r] \in InFlight THEN {} ELSE {s})
  /\ UNCHANGED <<object, loadVars>>

Put(s, k) == object' = [object EXCEPT ![OfSave[s]][k] = s]
SaveGoes(s, from, to) ==
  /\ save[s] = from
  /\ save' = [save EXCEPT ![s] = to]
(* Mutants: a state that is in the store already is not uploaded again; the *)
(* manifest goes up right after the state; the memfile is stored under the *)
(* uncompressed key whatever its shape.                                    *)
SaveSkipsState(s) ==
  /\ SaveGoes(s, "state", "memfile")
  /\ IF object[OfSave[s]]["state.bin"] = None THEN Put(s, "state.bin") ELSE UNCHANGED object
  /\ UNCHANGED <<alone, loadVars>>
SavePutsBothFirst(s) ==
  /\ SaveGoes(s, "state", "memfile")
  /\ object' = [object EXCEPT ![OfSave[s]]["state.bin"] = s, ![OfSave[s]]["manifest.yaml"] = s]
  /\ UNCHANGED <<alone, loadVars>>
SavePutsMemfileRaw(s) ==
  /\ SaveGoes(s, "memfile", "manifest")
  /\ Put(s, "memfile.bin")
  /\ UNCHANGED <<alone, loadVars>>

SavePutsState(s) ==
  /\ SaveGoes(s, "state", "memfile")
  /\ Put(s, "state.bin")
  /\ UNCHANGED <<alone, loadVars>>

SavePutsMemfile(s) ==
  /\ SaveGoes(s, "memfile", "manifest")
  /\ Put(s, MemKey(s))
  /\ UNCHANGED <<alone, loadVars>>

SavePutsManifest(s) ==
  /\ SaveGoes(s, "manifest", "saved")
  /\ Put(s, "manifest.yaml")
  /\ UNCHANGED <<alone, loadVars>>

NextKey(s) ==
  CASE save[s] = "state" -> "state.bin"
    [] save[s] = "memfile" -> MemKey(s)
    [] save[s] = "manifest" -> "manifest.yaml"

(* The compression or an upload fails, the context is done, the process    *)
(* dies.  What an upload that failed stored stays stored: nothing is       *)
(* rolled back, and an upload whose answer was lost has taken effect.      *)
SaveFails(s) ==
  /\ save[s] \in InFlight
  /\ save' = [save EXCEPT ![s] = "failed"]
  /\ Put(s, NextKey(s)) \/ UNCHANGED object
  /\ UNCHANGED <<alone, loadVars>>

(***************************************************************************)
(* Load                                                                    *)
(***************************************************************************)
Stored(l, k) == object[OfLoad[l]][k]

(* Download the object k and keep it as part of l's bundle; no such object *)
(* is an error.                                                            *)
Fetch(l, from, k, part, to) ==
  /\ load[l] = from
  /\ IF Stored(l, k) = None
     THEN load' = [load EXCEPT ![l] = "failed"] /\ UNCHANGED got
     ELSE /\ load' = [load EXCEPT ![l] = to]
          /\ got' = [got EXCEPT ![l][part] = Stored(l, k)]
  /\ UNCHANGED saveVars

LoadGetsManifest(l) == Fetch(l, "manifest", "manifest.yaml", "manifest", "state")
LoadGetsState(l) == Fetch(l, "state", "state.bin", "state", "memfile")
LoadGetsMemfile(l) == Fetch(l, "memfile", MemKey(got[l].manifest), "first", "rest")
LoadGetsRest(l) == Fetch(l, "rest", MemKey(got[l].manifest), "rest", "check")

LoadGivesUp(l) ==
  /\ load[l] \notin {"loaded", "failed"}
  /\ load' = [load EXCEPT ![l] = "failed"]
  /\ UNCHANGED <<saveVars, got>>

Sums(l, s) ==
  /\ got[l].first = s /\ got[l].rest = s
  /\ got[l].state = s
(* Mutants: only the memfile, only the state is verified.                  *)
LoadChecksMemfile(l) ==
  /\ load[l] = "check"
  /\ l \in Verify => got[l].first = got[l].manifest /\ got[l].rest = got[l].manifest
  /\ load' = [load EXCEPT ![l] = "loaded"]
  /\ UNCHANGED <<saveVars, got>>
LoadChecksState(l) ==
  /\ load[l] = "check"
  /\ l \in Verify => got[l].state = got[l].manifest
  /\ load' = [load EXCEPT ![l] = "loaded"]
  /\ UNCHANGED <<saveVars, got>>

(* With VerifySha256 both sums must match the manifest.  A download torn   *)
(* between two objects decompresses or does not.                           *)
LoadChecks(l) ==
  /\ load[l] = "check"
  /\ \/ /\ l \in Verify => Sums(l, got[l].manifest)
        /\ load' = [load EXCEPT ![l] = "loaded"]
     \/ /\ \/ l \in Verify /\ ~Sums(l, got[l].manifest)
           \/ got[l].manifest \in Zst /\ got[l].first # got[l].rest
        /\ load' = [load EXCEPT ![l] = "failed"]
  /\ UNCHANGED <<saveVars, got>>

(***************************************************************************)
(* Specification                                                           *)
(***************************************************************************)
SaveStep(s) ==
  \/ SaveBegins(s) \/ SavePutsState(s) \/ SavePutsMemfile(s)
  \/ SavePutsManifest(s) \/ SaveFails(s)

LoadStep(l) ==
  \/ LoadGetsManifest(l) \/ LoadGetsState(l) \/ LoadGetsMemfile(l) \/ LoadGetsRest(l)
  \/ LoadGivesUp(l) \/ LoadChecks(l)

Next == (\E s \in Save : SaveStep(s)) \/ (\E l \in Load : LoadStep(l))

Spec == Init /\ [][Next]_vars

(***************************************************************************)
(* Properties                                                              *)
(***************************************************************************)

(* Every variable has its type.                                            *)
TypeOK ==
  /\ object \in [Template -> [ObjectName -> Content]]
  /\ save \in [Save -> SaveState]
  /\ alone \in SUBSET Save
  /\ load \in [Load -> LoadState]
  /\ got \in [Load -> [manifest : Content, state : Content, first : Content, rest : Content]]

(* A manifest in the store names objects that are there, whichever upload  *)
(* failed or process died before: a Load that has its manifest does not    *)
(* run into ErrKeyNotFound.                                                *)
ManifestNamesObjects ==
  \A t \in Template :
    LET m == object[t]["manifest.yaml"] IN
    m # None => object[t]["state.bin"] # None /\ object[t][MemKey(m)] # None

(* A verified Load returns the memfile and the state of one Save, the one  *)
(* its manifest is from, however many Saves of the same name/version run   *)
(* or have failed half-way meanwhile.                                      *)
VerifiedIsWhole ==
  \A l \in Verify : load[l] = "loaded" => Sums(l, got[l].manifest)

(* Without verification the same holds of a bundle whose Save met no other *)
(* Save of its name/version up to the end of the Load: no unverified Load  *)
(* is torn by anything but an overlapping or later Save.                   *)
UncontestedIsWhole ==
  \A l \in Load :
    load[l] = "check" /\ got[l].manifest \in alone => Sums(l, got[l].manifest)

(* A Save that returned without error and met no other Save has published  *)
(* its bundle: memfile, state and manifest are the ones it uploaded.       *)
Published(s) ==
  \A k \in {"state.bin", MemKey(s), "manifest.yaml"} : object[OfSave[s]][k] = s
UncontestedSaveStands ==
  \A s \in Save : save[s] = "saved" /\ s \in alone => Published(s)

(* The inductive invariant behind ManifestNamesObjects, VerifiedIsWhole    *)
(* and ImplementsRegister.                                                 *)
SaveProgress ==
  \A s \in Save :
    /\ save[s] \in {"memfile", "manifest"} => object[OfSave[s]]["state.bin"] # None
    /\ save[s] = "manifest" => object[OfSave[s]][MemKey(s)] # None
    /\ save[s] = "saved" => object[OfSave[s]]["manifest.yaml"] # None
LoadProgress ==
  \A l \in Load :
    /\ load[l] = "manifest" => got[l].manifest = None
    /\ load[l] \notin {"manifest", "failed"} => got[l].manifest # None
WholeInv ==
  /\ TypeOK
  /\ SaveProgress
  /\ LoadProgress
  /\ ManifestNamesObjects
  /\ VerifiedIsWhole

(* What is stored, and the manifest a Load has, is from a Save of that     *)
(* name/version that has begun.                                            *)
IsOf(s, t) == s # None => OfSave[s] = t /\ save[s] # "new"
Stamped ==
  /\ \A t \in Template, k \in ObjectName : IsOf(object[t][k], t)
  /\ \A l \in Load : IsOf(got[l].manifest, OfLoad[l])

(* While a Save is alone none of its rivals uploads, so what it has stored *)
(* stands; and it has stored the manifest last, also if it failed then.    *)
AloneSaves ==
  \A s \in alone :
    /\ save[s] # "new"
    /\ \A r \in Rivals(s) : save[r] \notin InFlight
    /\ save[s] \in {"memfile", "manifest"} => object[OfSave[s]]["state.bin"] = s
    /\ save[s] = "manifest" => object[OfSave[s]][MemKey(s)] = s
    /\ save[s] = "saved" \/ object[OfSave[s]]["manifest.yaml"] = s => Published(s)

(* A Load that has its manifest reads that Save's objects behind it.       *)
AloneLoads ==
  \A l \in Load : got[l].manifest \in alone =>
    /\ Published(got[l].manifest)
    /\ load[l] \in {"memfile", "rest", "check"} => got[l].state = got[l].manifest
    /\ load[l] \in {"rest", "check"} => got[l].first = got[l].manifest
    /\ load[l] = "check" => got[l].rest = got[l].manifest

(* And the one behind the properties of a Save that met no other.          *)
IndInv ==
  /\ WholeInv
  /\ Stamped
  /\ AloneSaves
  /\ AloneLoads

(* Verified Loads are atomic reads: the store implements BundleRegister.   *)
Current == [t \in Template |-> object[t]["manifest.yaml"]]
SeenBy == [l \in Verify |-> got[l].manifest]
(* The bundle on disk when a Load returns: that of a Save, or a mixture,   *)
(* which the register never answers with.                                  *)
Parts(l) == {got[l].first, got[l].rest, got[l].state}
Loaded(l) ==
  IF got[l].first = got[l].rest /\ got[l].rest = got[l].state THEN got[l].state ELSE Parts(l)
AnswerOf ==
  [l \in Verify |-> CASE load[l] = "loaded" -> Loaded(l)
                      [] load[l] = "failed" -> Failed
                      [] OTHER -> None]
Register ==
  INSTANCE BundleRegister WITH
    Load <- Verify, current <- Current, seen <- SeenBy, answer <- AnswerOf
ImplementsRegister == Register!Spec
=============================================================================
