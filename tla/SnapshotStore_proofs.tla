------------------------ MODULE SnapshotStore_proofs ------------------------
(***************************************************************************)
(* SnapshotStore's invariants and its refinement of BundleRegister, for    *)
(* any number of Saves, Loads and templates.                               *)
(***************************************************************************)
EXTENDS SnapshotStore, TLAPS

(* A Save names one of the two memfile objects, never the state or the     *)
(* manifest.                                                               *)
LEMMA MemKeyType ==
  \A s : MemKey(s) \in ObjectName \ {"state.bin", "manifest.yaml"}
BY DEF MemKey, ObjectName

(* What an upload does to the object store: one object of one template     *)
(* changes, and it is present afterwards.                                  *)
LEMMA PutEffect ==
  ASSUME TypeOK, NEW s \in Save, NEW k \in ObjectName, Put(s, k)
  PROVE  /\ object' \in [Template -> [ObjectName -> Content]]
         /\ object'[OfSave[s]][k] = s
         /\ \A t \in Template, j \in ObjectName :
              object'[t][j] = IF t = OfSave[s] /\ j = k THEN s ELSE object[t][j]
BY StoreAssumption DEF TypeOK, Put, Content

(* Objects are never deleted: an upload leaves every other object present. *)
LEMMA PutKeeps ==
  ASSUME TypeOK, NEW s \in Save, NEW k \in ObjectName, Put(s, k),
         NEW t \in Template, NEW j \in ObjectName, object[t][j] # None
  PROVE  object'[t][j] # None
BY PutEffect, StoreAssumption

(* The initial state has the inductive invariant.                          *)
LEMMA InitInv == Init => WholeInv
<1> SUFFICES ASSUME Init PROVE WholeInv
  OBVIOUS
<1>1. TypeOK
  BY DEF Init, TypeOK, Content, Nothing, SaveState, LoadState, InFlight
<1>2. SaveProgress /\ LoadProgress
  BY StoreAssumption DEF Init, SaveProgress, LoadProgress, Nothing
<1>3. ManifestNamesObjects
  BY DEF Init, ManifestNamesObjects, ObjectName
<1>4. VerifiedIsWhole
  BY StoreAssumption DEF Init, VerifiedIsWhole
<1> QED BY <1>1, <1>2, <1>3, <1>4 DEF WholeInv

(* No step of a Save breaks it: what a manifest needs is there before the  *)
(* manifest is.                                                            *)
LEMMA SaveInv ==
  ASSUME WholeInv, NEW s \in Save, SaveStep(s)
  PROVE  WholeInv'
<1> USE DEF WholeInv
<1>0. /\ UNCHANGED loadVars
      /\ OfSave[s] \in Template
      /\ \A r \in Save : OfSave[r] \in Template
  BY StoreAssumption
     DEF SaveStep, SaveBegins, SavePutsState, SavePutsMemfile, SavePutsManifest, SaveFails
<1>1. LoadProgress' /\ VerifiedIsWhole'
  BY <1>0 DEF loadVars, LoadProgress, VerifiedIsWhole, Sums
<1>2. CASE SaveBegins(s)
  <2>1. TypeOK'
    BY <1>2 DEF SaveBegins, TypeOK, SaveState, InFlight, loadVars, Rivals
  <2>2. SaveProgress' /\ ManifestNamesObjects'
    BY <1>2 DEF SaveBegins, TypeOK, SaveProgress, ManifestNamesObjects, MemKey
  <2> QED BY <1>1, <2>1, <2>2
<1>3. CASE SavePutsState(s)
  <2>1. Put(s, "state.bin") /\ "state.bin" \in ObjectName
    BY <1>3 DEF SavePutsState, ObjectName
  <2>2. TypeOK'
    BY <1>3, <2>1, PutEffect DEF SavePutsState, SaveGoes, TypeOK, SaveState, InFlight, loadVars
  <2>3. SaveProgress'
    BY <1>0, <1>3, <2>1, PutEffect, PutKeeps, MemKeyType, StoreAssumption
       DEF SavePutsState, SaveGoes, TypeOK, SaveProgress, MemKey, ObjectName
  <2>4. ManifestNamesObjects'
    BY <2>1, PutEffect, PutKeeps, MemKeyType, StoreAssumption
       DEF ManifestNamesObjects, MemKey, ObjectName
  <2> QED BY <1>1, <2>2, <2>3, <2>4
<1>4. CASE SavePutsMemfile(s)
  <2>1. Put(s, MemKey(s)) /\ MemKey(s) \in ObjectName
    BY <1>4, MemKeyType DEF SavePutsMemfile
  <2>2. TypeOK'
    BY <1>4, <2>1, PutEffect DEF SavePutsMemfile, SaveGoes, TypeOK, SaveState, InFlight, loadVars
  <2>3. SaveProgress'
    BY <1>0, <1>4, <2>1, PutEffect, PutKeeps, MemKeyType, StoreAssumption
       DEF SavePutsMemfile, SaveGoes, TypeOK, SaveProgress, MemKey, ObjectName
  <2>4. ManifestNamesObjects'
    BY <2>1, PutEffect, PutKeeps, MemKeyType, StoreAssumption
       DEF ManifestNamesObjects, MemKey, ObjectName
  <2> QED BY <1>1, <2>2, <2>3, <2>4
<1>5. CASE SavePutsManifest(s)
  <2>1. Put(s, "manifest.yaml") /\ "manifest.yaml" \in ObjectName /\ save[s] = "manifest"
    BY <1>5 DEF SavePutsManifest, SaveGoes, ObjectName
  <2>2. TypeOK'
    BY <1>5, <2>1, PutEffect DEF SavePutsManifest, SaveGoes, TypeOK, SaveState, loadVars
  <2>3. SaveProgress'
    BY <1>0, <1>5, <2>1, PutEffect, PutKeeps, MemKeyType, StoreAssumption
       DEF SavePutsManifest, SaveGoes, TypeOK, SaveProgress, MemKey, ObjectName
  <2>4. ManifestNamesObjects'
    BY <1>0, <2>1, PutEffect, PutKeeps, MemKeyType, StoreAssumption
       DEF ManifestNamesObjects, SaveProgress, MemKey, ObjectName
  <2> QED BY <1>1, <2>2, <2>3, <2>4
<1>6. CASE SaveFails(s)
  <2>1. /\ save[s] \in InFlight
        /\ NextKey(s) \in ObjectName
        /\ NextKey(s) = "manifest.yaml" => save[s] = "manifest"
    BY <1>6, MemKeyType DEF SaveFails, NextKey, InFlight, ObjectName
  <2>2. TypeOK'
    BY <1>6, <2>1, PutEffect DEF SaveFails, TypeOK, SaveState, loadVars
  <2>3. SaveProgress'
    <3>1. CASE UNCHANGED object
      BY <1>6, <3>1 DEF SaveFails, TypeOK, SaveProgress, MemKey
    <3>2. CASE Put(s, NextKey(s))
      BY <1>0, <1>6, <2>1, <3>2, PutKeeps, MemKeyType
         DEF SaveFails, TypeOK, SaveProgress, MemKey, ObjectName
    <3> QED BY <1>6, <3>1, <3>2 DEF SaveFails
  <2>4. ManifestNamesObjects'
    <3>1. CASE UNCHANGED object
      BY <3>1 DEF ManifestNamesObjects, MemKey
    <3>2. CASE Put(s, NextKey(s)) /\ save[s] = "manifest"
      <4>1. NextKey(s) = "manifest.yaml"
        BY <3>2 DEF NextKey
      <4> QED BY <1>0, <3>2, <4>1, <2>1, PutEffect, PutKeeps, MemKeyType, StoreAssumption
                 DEF ManifestNamesObjects, SaveProgress, MemKey, ObjectName
    <3>3. CASE Put(s, NextKey(s)) /\ save[s] # "manifest"
      BY <2>1, <3>3, PutEffect, PutKeeps, MemKeyType, StoreAssumption
         DEF ManifestNamesObjects, MemKey, ObjectName
    <3> QED BY <1>6, <3>1, <3>2, <3>3 DEF SaveFails
  <2> QED BY <1>1, <2>2, <2>3, <2>4
<1> QED BY <1>2, <1>3, <1>4, <1>5, <1>6 DEF SaveStep

(* Nor does a step of a Load: one that ends well has passed the check.     *)
LEMMA FetchInv ==
  ASSUME WholeInv, NEW l \in Load, NEW k \in ObjectName,
         NEW from \in {"manifest", "state", "memfile", "rest"},
         NEW part \in {"manifest", "state", "first", "rest"},
         NEW to \in {"state", "memfile", "rest", "check"},
         from = "manifest" <=> part = "manifest",
         Fetch(l, from, k, part, to)
  PROVE  WholeInv'
<1> USE DEF WholeInv
<1>1. object[OfLoad[l]][k] \in Content
  BY StoreAssumption DEF TypeOK
<1>2. SaveProgress' /\ ManifestNamesObjects'
  BY DEF Fetch, saveVars, SaveProgress, ManifestNamesObjects, MemKey
<1>3. CASE Stored(l, k) = None
  <2>1. /\ load' = [load EXCEPT ![l] = "failed"]
        /\ UNCHANGED <<saveVars, got>>
    BY <1>3 DEF Fetch
  <2>2. TypeOK'
    BY <2>1 DEF TypeOK, LoadState, saveVars
  <2>3. LoadProgress' /\ VerifiedIsWhole'
    BY <2>1, StoreAssumption DEF TypeOK, LoadProgress, VerifiedIsWhole, Sums
  <2> QED BY <1>2, <2>2, <2>3
<1>4. CASE Stored(l, k) # None
  <2>1. /\ load[l] = from
        /\ load' = [load EXCEPT ![l] = to]
        /\ got' = [got EXCEPT ![l][part] = object[OfLoad[l]][k]]
        /\ UNCHANGED saveVars
    BY <1>4 DEF Fetch, Stored
  <2>2. TypeOK'
    BY <1>1, <2>1 DEF TypeOK, LoadState, saveVars
  <2>3. LoadProgress'
    BY <1>1, <1>4, <2>1 DEF TypeOK, LoadProgress, Stored
  <2>4. VerifiedIsWhole'
    BY <2>1, StoreAssumption DEF TypeOK, VerifiedIsWhole, Sums
  <2> QED BY <1>2, <2>2, <2>3, <2>4
<1> QED BY <1>3, <1>4

LEMMA LoadInv ==
  ASSUME WholeInv, NEW l \in Load, LoadStep(l)
  PROVE  WholeInv'
<1>1. CASE LoadGetsManifest(l)
  BY <1>1, FetchInv DEF LoadGetsManifest, ObjectName
<1>2. CASE LoadGetsState(l)
  BY <1>2, FetchInv DEF LoadGetsState, ObjectName
<1>3. CASE LoadGetsMemfile(l)
  BY <1>3, FetchInv, MemKeyType DEF LoadGetsMemfile
<1>4. CASE LoadGetsRest(l)
  BY <1>4, FetchInv, MemKeyType DEF LoadGetsRest
<1>5. CASE LoadGivesUp(l)
  BY <1>5 DEF WholeInv, LoadGivesUp, TypeOK, LoadState, SaveProgress, LoadProgress,
              ManifestNamesObjects, VerifiedIsWhole, Sums, saveVars, MemKey
<1>6. CASE LoadChecks(l)
  <2>1. TypeOK' /\ LoadProgress'
    BY <1>6 DEF WholeInv, LoadChecks, TypeOK, LoadState, LoadProgress, saveVars
  <2>2. SaveProgress' /\ ManifestNamesObjects'
    BY <1>6 DEF WholeInv, LoadChecks, SaveProgress, ManifestNamesObjects, saveVars, MemKey
  <2>3. VerifiedIsWhole'
    BY <1>6, StoreAssumption DEF WholeInv, LoadChecks, TypeOK, VerifiedIsWhole, Sums, saveVars
  <2> QED BY <2>1, <2>2, <2>3 DEF WholeInv
<1> QED BY <1>1, <1>2, <1>3, <1>4, <1>5, <1>6 DEF LoadStep

LEMMA StutterInv ==
  ASSUME WholeInv, UNCHANGED vars
  PROVE  WholeInv'
BY DEF WholeInv, vars, saveVars, loadVars, TypeOK, SaveProgress, LoadProgress,
       ManifestNamesObjects, VerifiedIsWhole, Sums, MemKey

(* WholeInv holds in every reachable state.                                  *)
THEOREM WholeInvHolds == Spec => []WholeInv
<1>1. WholeInv /\ [Next]_vars => WholeInv'
  BY SaveInv, LoadInv, StutterInv DEF Next
<1> QED BY InitInv, <1>1, PTL DEF Spec

(* Uploading the manifest last keeps every manifest in the store backed by *)
(* its objects, for any interleaving of Saves that fail anywhere.          *)
THEOREM ManifestsAreBacked == Spec => []ManifestNamesObjects
<1>1. WholeInv => ManifestNamesObjects
  BY DEF WholeInv
<1> QED BY WholeInvHolds, <1>1, PTL

(* A verified Load never returns a bundle mixed from two Saves.            *)
THEOREM VerifiedLoadsAreWhole == Spec => []VerifiedIsWhole
<1>1. WholeInv => VerifiedIsWhole
  BY DEF WholeInv
<1> QED BY WholeInvHolds, <1>1, PTL

(***************************************************************************)
(* Saves that met no other Save of their name/version                      *)
(***************************************************************************)

(* What any step of a Save does: it begins, or uploads its next object, or *)
(* fails, perhaps after that upload; its own progress is all else it moves. *)
LEMMA SaveEffect ==
  ASSUME WholeInv, NEW s \in Save, SaveStep(s)
  PROVE  /\ UNCHANGED loadVars
         /\ save'[s] # "new"
         /\ \A r \in Save \ {s} : save'[r] = save[r]
         /\ \/ SaveBegins(s)
            \/ /\ save[s] \in InFlight /\ alone' = alone
               /\ NextKey(s) \in ObjectName
               /\ \/ UNCHANGED object /\ save'[s] = "failed"
                  \/ /\ Put(s, NextKey(s))
                     /\ \/ save'[s] = "failed"
                        \/ save[s] = "state" /\ save'[s] = "memfile"
                        \/ save[s] = "memfile" /\ save'[s] = "manifest"
                        \/ save[s] = "manifest" /\ save'[s] = "saved"
<1> USE DEF WholeInv, TypeOK, SaveGoes
<1>1. CASE SaveBegins(s)
  BY <1>1 DEF SaveBegins
<1>2. CASE SavePutsState(s)
  BY <1>2 DEF SavePutsState, NextKey, InFlight, ObjectName
<1>3. CASE SavePutsMemfile(s)
  BY <1>3, MemKeyType DEF SavePutsMemfile, NextKey, InFlight
<1>4. CASE SavePutsManifest(s)
  BY <1>4 DEF SavePutsManifest, NextKey, InFlight, ObjectName
<1>5. CASE SaveFails(s)
  BY <1>5, MemKeyType DEF SaveFails, NextKey, InFlight, ObjectName
<1> QED BY <1>1, <1>2, <1>3, <1>4, <1>5 DEF SaveStep

(* An upload of s takes nothing from a bundle but that of a rival of s.    *)
LEMMA PublishedStays ==
  ASSUME TypeOK, NEW s \in Save, NEW k \in ObjectName, Put(s, k),
         NEW a \in Save, Published(a), s \notin Rivals(a)
  PROVE  Published(a)'
<1>1. a = s \/ OfSave[a] # OfSave[s]
  BY DEF Rivals
<1>2. {"state.bin", MemKey(a), "manifest.yaml"} \subseteq ObjectName
  BY MemKeyType DEF ObjectName
<1> QED BY <1>1, <1>2, PutEffect, StoreAssumption DEF Published, MemKey

(* Save and Load leave what is stored and what a Load has named after a    *)
(* Save of that name/version that has begun.                               *)
LEMMA SaveStamps ==
  ASSUME IndInv, NEW s \in Save, SaveStep(s)
  PROVE  Stamped'
<1> USE DEF IndInv, WholeInv
<1>1. \A r \in Save : save[r] # "new" => save'[r] # "new"
  BY SaveEffect
<1>2. \A t \in Template, k \in ObjectName : object[t][k] \in Content /\ IsOf(object[t][k], t)
  BY DEF Stamped, TypeOK
<1>3. (\A t \in Template, k \in ObjectName : IsOf(object[t][k], t))'
  <2>1. \A t \in Template, k \in ObjectName :
          \/ object'[t][k] = object[t][k]
          \/ t = OfSave[s] /\ object'[t][k] = s
    <3>1. CASE UNCHANGED object
      BY <3>1
    <3>2. CASE Put(s, NextKey(s)) /\ NextKey(s) \in ObjectName
      BY <3>2, PutEffect
    <3> QED BY SaveEffect, <3>1, <3>2 DEF SaveBegins
  <2>2. s # None /\ save'[s] # "new"
    BY SaveEffect, StoreAssumption
  <2> QED BY <1>1, <1>2, <2>1, <2>2 DEF IsOf, Content
<1>4. (\A l \in Load : IsOf(got[l].manifest, OfLoad[l]))'
  <2>1. \A l \in Load : got[l].manifest \in Content /\ IsOf(got[l].manifest, OfLoad[l])
    BY DEF Stamped, TypeOK
  <2>2. got' = got
    BY SaveEffect DEF loadVars
  <2> QED BY <1>1, <2>1, <2>2 DEF IsOf, Content
<1> QED BY <1>3, <1>4 DEF Stamped

(* A Save that is alone keeps what it has stored: a rival that begins ends *)
(* that, and until then nobody else uploads under its name/version.        *)
LEMMA SaveKeepsAlone ==
  ASSUME IndInv, NEW s \in Save, SaveStep(s)
  PROVE  AloneSaves' /\ AloneLoads'
<1> USE DEF IndInv, WholeInv
<1>0. UNCHANGED loadVars /\ \A l \in Load : got[l].manifest \in Content
  BY SaveEffect DEF TypeOK
<1>1. CASE SaveBegins(s)
  <2>1. /\ save[s] = "new" /\ save'[s] = "state" /\ object' = object
        /\ \A r \in Save \ {s} : save'[r] = save[r]
        /\ \A a \in alone' \ {s} : a \in alone /\ s \notin Rivals(a)
        /\ s \in alone' => \A r \in Rivals(s) : save[r] \notin InFlight \/ s \in alone
        /\ \A a \in alone' : a \in Save
    BY <1>1 DEF SaveBegins, Rivals, TypeOK
  <2>2. s \notin alone
    BY <2>1 DEF AloneSaves
  <2>3. \A k \in ObjectName : object[OfSave[s]][k] # s
    BY <2>1, StoreAssumption DEF Stamped, IsOf
  <2>4. ASSUME NEW a \in alone'
        PROVE  /\ save'[a] # "new"
               /\ \A r \in Rivals(a) : save'[r] \notin InFlight
               /\ save'[a] \in {"memfile", "manifest"} => object'[OfSave[a]]["state.bin"] = a
               /\ save'[a] = "manifest" => object'[OfSave[a]][MemKey(a)] = a
               /\ save'[a] = "saved" \/ object'[OfSave[a]]["manifest.yaml"] = a
                    => Published(a)'
    <3>1. CASE a = s
      BY <2>1, <2>2, <2>3, <3>1 DEF Rivals, ObjectName
    <3>2. CASE a # s
      BY <2>1, <3>2 DEF AloneSaves, Rivals, Published, MemKey
    <3> QED BY <3>1, <3>2
  <2>5. ASSUME NEW l \in Load, got[l].manifest \in alone'
        PROVE  got[l].manifest \in alone
    <3>1. got[l].manifest # s
      BY <2>1, StoreAssumption DEF Stamped, IsOf
    <3> QED BY <2>1, <2>5, <3>1
  <2>6. AloneSaves'
    BY <2>4 DEF AloneSaves, Rivals, MemKey
  <2>7. AloneLoads'
    BY <1>0, <2>1, <2>5 DEF AloneLoads, Published, loadVars, MemKey
  <2> QED BY <2>6, <2>7
<1>2. CASE ~SaveBegins(s)
  <2>1. /\ save[s] \in InFlight /\ alone' = alone
        /\ NextKey(s) \in ObjectName
        /\ \A r \in Save \ {s} : save'[r] = save[r]
        /\ save'[s] # "new"
        /\ UNCHANGED object \/ Put(s, NextKey(s))
    BY <1>2, SaveEffect
  <2>2. \A a \in alone : a \in Save /\ s \notin Rivals(a) /\ (a # s => OfSave[a] # OfSave[s])
    BY <2>1 DEF AloneSaves, Rivals, TypeOK
  <2>3. \A a \in alone : Published(a) => Published(a)'
    BY <2>1, <2>2, PublishedStays DEF Published, MemKey
  <2>4. ASSUME NEW a \in alone
        PROVE  /\ save'[a] # "new"
               /\ \A r \in Rivals(a) : save'[r] \notin InFlight
               /\ save'[a] \in {"memfile", "manifest"} => object'[OfSave[a]]["state.bin"] = a
               /\ save'[a] = "manifest" => object'[OfSave[a]][MemKey(a)] = a
               /\ save'[a] = "saved" \/ object'[OfSave[a]]["manifest.yaml"] = a
                    => Published(a)'
    <3>1. /\ save'[a] # "new"
          /\ \A r \in Rivals(a) : save'[r] \notin InFlight
      BY <2>1, <2>2 DEF AloneSaves, Rivals
    <3>2. CASE a # s
      <4>1. \A k \in ObjectName : object'[OfSave[a]][k] = object[OfSave[a]][k]
        BY <2>1, <2>2, <3>2, PutEffect, StoreAssumption
      <4>2. "state.bin" \in ObjectName /\ "manifest.yaml" \in ObjectName /\ MemKey(a) \in ObjectName
        BY MemKeyType DEF ObjectName
      <4> QED BY <2>1, <2>2, <2>3, <3>1, <3>2, <4>1, <4>2 DEF AloneSaves
    <3>3. CASE a = s
      <4> DEFINE o == object[OfSave[s]]
                 p == object'[OfSave[s]]
      <4>1. /\ save[s] \in {"memfile", "manifest"} => o["state.bin"] = s
            /\ save[s] = "manifest" => o[MemKey(s)] = s
            /\ o["manifest.yaml"] = s => Published(s)
        BY <3>3 DEF AloneSaves
      <4>2. CASE UNCHANGED object /\ save'[s] = "failed"
        BY <2>3, <3>1, <3>3, <4>1, <4>2
      <4>3. CASE Put(s, NextKey(s))
        <5>1. \A k \in ObjectName : p[k] = IF k = NextKey(s) THEN s ELSE o[k]
          BY <2>1, <4>3, PutEffect, StoreAssumption
        <5>2. /\ "state.bin" \in ObjectName /\ "manifest.yaml" \in ObjectName
              /\ MemKey(s) \in ObjectName \ {"state.bin", "manifest.yaml"}
          BY MemKeyType DEF ObjectName
        <5>3. CASE save[s] = "state" /\ save'[s] \in {"memfile", "failed"}
          <6>1. NextKey(s) = "state.bin"
            BY <5>3 DEF NextKey
          <6> QED BY <2>3, <3>1, <3>3, <4>1, <5>1, <5>2, <5>3, <6>1
        <5>4. CASE save[s] = "memfile" /\ save'[s] \in {"manifest", "failed"}
          <6>1. NextKey(s) = MemKey(s)
            BY <5>4 DEF NextKey
          <6> QED BY <2>3, <3>1, <3>3, <4>1, <5>1, <5>2, <5>4, <6>1
        <5>5. CASE save[s] = "manifest" /\ save'[s] \in {"saved", "failed"}
          <6>1. NextKey(s) = "manifest.yaml"
            BY <5>5 DEF NextKey
          <6>2. Published(s)'
            BY <4>1, <5>1, <5>2, <5>5, <6>1 DEF Published, MemKey
          <6> QED BY <3>1, <3>3, <5>5, <6>2
        <5> QED BY <1>2, <2>1, <4>3, SaveEffect, <5>3, <5>4, <5>5 DEF InFlight
      <4> QED BY <1>2, SaveEffect, <4>2, <4>3
    <3> QED BY <3>2, <3>3
  <2>5. AloneSaves'
    BY <2>1, <2>4 DEF AloneSaves, Rivals, MemKey
  <2>6. AloneLoads'
    BY <1>0, <2>1, <2>3 DEF AloneLoads, loadVars
  <2> QED BY <2>5, <2>6
<1> QED BY <1>1, <1>2

(* A Load reads, behind the manifest of a Save that is alone, what that    *)
(* Save has published.                                                     *)
LEMMA LoadKeepsAlone ==
  ASSUME IndInv, NEW l \in Load, LoadStep(l)
  PROVE  Stamped' /\ AloneSaves' /\ AloneLoads'
<1> USE DEF IndInv, WholeInv
<1> DEFINE Behind(m, g, at) ==
             /\ Published(m)
             /\ at \in {"memfile", "rest", "check"} => g.state = m
             /\ at \in {"rest", "check"} => g.first = m
             /\ at = "check" => g.rest = m
<1>1. /\ UNCHANGED saveVars
      /\ \A n \in Load \ {l} : load'[n] = load[n] /\ got'[n] = got[n]
  BY DEF LoadStep, LoadGetsManifest, LoadGetsState, LoadGetsMemfile, LoadGetsRest, Fetch,
         LoadGivesUp, LoadChecks, TypeOK
<1>2. AloneSaves'
  BY <1>1 DEF AloneSaves, saveVars, Rivals, Published, MemKey
<1>3. /\ IsOf(got'[l].manifest, OfLoad[l])
      /\ got'[l].manifest \in alone => Behind(got'[l].manifest, got'[l], load'[l])
  <2>1. /\ IsOf(got[l].manifest, OfLoad[l])
        /\ got[l].manifest \in alone => Behind(got[l].manifest, got[l], load[l])
    BY DEF Stamped, AloneLoads
  <2>2. CASE got' = got /\ load'[l] \in {"loaded", "failed"}
    BY <2>1, <2>2
  <2>3. ASSUME NEW from \in LoadState, NEW k \in ObjectName,
               NEW part \in {"manifest", "state", "first", "rest"}, NEW to \in LoadState,
               Fetch(l, from, k, part, to)
        PROVE  \/ got' = got /\ load'[l] \in {"loaded", "failed"}
               \/ /\ load[l] = from /\ load'[l] = to
                  /\ got'[l] = [got[l] EXCEPT ![part] = object[OfLoad[l]][k]]
                  /\ object[OfLoad[l]][k] \in Save
    BY <2>3, StoreAssumption DEF Fetch, Stored, TypeOK, Content
  <2>4. got[l] \in [manifest : Content, state : Content, first : Content, rest : Content]
    BY DEF TypeOK
  <2>5. ASSUME got[l].manifest \in alone
        PROVE  /\ object[OfLoad[l]]["state.bin"] = got[l].manifest
               /\ object[OfLoad[l]][MemKey(got[l].manifest)] = got[l].manifest
    BY <2>1, <2>5, StoreAssumption DEF Published, IsOf, TypeOK
  <2>6. CASE LoadGetsManifest(l)
    <3>1. CASE got' = got /\ load'[l] \in {"loaded", "failed"}
      BY <2>2, <3>1
    <3>2. CASE /\ load'[l] = "state"
               /\ got'[l] = [got[l] EXCEPT !["manifest"] = object[OfLoad[l]]["manifest.yaml"]]
               /\ object[OfLoad[l]]["manifest.yaml"] \in Save
      <4>1. got'[l].manifest = object[OfLoad[l]]["manifest.yaml"]
        BY <2>4, <3>2
      <4>2. IsOf(got'[l].manifest, OfLoad[l])
        BY <4>1, StoreAssumption DEF Stamped, ObjectName
      <4>3. got'[l].manifest \in alone => Published(got'[l].manifest)
        BY <3>2, <4>1, <4>2, StoreAssumption DEF IsOf, AloneSaves
      <4> QED BY <3>2, <4>2, <4>3
    <3> QED BY <2>3, <2>6, <3>1, <3>2 DEF LoadGetsManifest, ObjectName, LoadState
  <2>7. CASE LoadGetsState(l)
    <3>1. \/ got' = got /\ load'[l] \in {"loaded", "failed"}
          \/ /\ load'[l] = "memfile"
             /\ got'[l] = [got[l] EXCEPT !["state"] = object[OfLoad[l]]["state.bin"]]
      BY <2>3, <2>7 DEF LoadGetsState, ObjectName, LoadState
    <3> QED BY <2>1, <2>2, <2>4, <2>5, <3>1
  <2>8. CASE LoadGetsMemfile(l)
    <3>1. \/ got' = got /\ load'[l] \in {"loaded", "failed"}
          \/ /\ load[l] = "memfile" /\ load'[l] = "rest"
             /\ got'[l] = [got[l] EXCEPT !["first"] = object[OfLoad[l]][MemKey(got[l].manifest)]]
      BY <2>3, <2>8, MemKeyType DEF LoadGetsMemfile, LoadState
    <3> QED BY <2>1, <2>2, <2>4, <2>5, <3>1
  <2>9. CASE LoadGetsRest(l)
    <3>1. \/ got' = got /\ load'[l] \in {"loaded", "failed"}
          \/ /\ load[l] = "rest" /\ load'[l] = "check"
             /\ got'[l] = [got[l] EXCEPT !["rest"] = object[OfLoad[l]][MemKey(got[l].manifest)]]
      BY <2>3, <2>9, MemKeyType DEF LoadGetsRest, LoadState
    <3> QED BY <2>1, <2>2, <2>4, <2>5, <3>1
  <2>10. CASE LoadGivesUp(l) \/ LoadChecks(l)
    BY <2>2, <2>10 DEF LoadGivesUp, LoadChecks, TypeOK
  <2> QED BY <2>6, <2>7, <2>8, <2>9, <2>10 DEF LoadStep
<1>4. Stamped'
  BY <1>1, <1>3 DEF Stamped, IsOf, saveVars
<1>5. AloneLoads'
  BY <1>1, <1>3 DEF AloneLoads, Published, MemKey, saveVars
<1> QED BY <1>2, <1>4, <1>5

LEMMA InitIndInv == Init => IndInv
<1> SUFFICES ASSUME Init PROVE IndInv
  OBVIOUS
<1>1. WholeInv
  BY InitInv
<1>2. Stamped
  BY StoreAssumption DEF Init, Stamped, IsOf, Nothing
<1>3. AloneSaves /\ AloneLoads
  BY DEF Init, AloneSaves, AloneLoads
<1> QED BY <1>1, <1>2, <1>3 DEF IndInv

LEMMA StepIndInv == IndInv /\ [Next]_vars => IndInv'
<1>1. ASSUME IndInv, NEW s \in Save, SaveStep(s) PROVE IndInv'
  BY <1>1, SaveInv, SaveStamps, SaveKeepsAlone DEF IndInv
<1>2. ASSUME IndInv, NEW l \in Load, LoadStep(l) PROVE IndInv'
  BY <1>2, LoadInv, LoadKeepsAlone DEF IndInv
<1>3. ASSUME IndInv, UNCHANGED vars PROVE IndInv'
  BY <1>3, StutterInv
     DEF IndInv, vars, saveVars, loadVars, Stamped, IsOf, AloneSaves, AloneLoads,
         Published, Rivals, MemKey
<1> QED BY <1>1, <1>2, <1>3 DEF Next

(* IndInv holds in every reachable state.                                  *)
THEOREM IndInvHolds == Spec => []IndInv
BY InitIndInv, StepIndInv, PTL DEF Spec

(* A Save that returned and met no other has its bundle in the store for   *)
(* as long as it meets none, whatever other Saves and Loads do and fail.   *)
THEOREM UncontestedSavesStand == Spec => []UncontestedSaveStands
<1>1. IndInv => UncontestedSaveStands
  BY DEF IndInv, WholeInv, TypeOK, AloneSaves, UncontestedSaveStands
<1> QED BY IndInvHolds, <1>1, PTL

(* The bundle of such a Save is whole on the disk of every Load that ends  *)
(* while the Save is still alone, verified or not.                         *)
THEOREM UncontestedLoadsAreWhole == Spec => []UncontestedIsWhole
<1>1. IndInv => UncontestedIsWhole
  BY DEF IndInv, AloneLoads, UncontestedIsWhole, Sums
<1> QED BY IndInvHolds, <1>1, PTL

(***************************************************************************)
(* The refinement of BundleRegister                                        *)
(***************************************************************************)

(* Nothing is stored, seen or answered at first.                           *)
LEMMA InitRefines == Init => Register!Init
BY StoreAssumption
   DEF Init, Register!Init, Current, SeenBy, AnswerOf, Nothing, ObjectName

(* The step of a Save is a Write when it stores the manifest, else nothing *)
(* the register shows.                                                     *)
LEMMA SaveRefines ==
  ASSUME WholeInv, NEW s \in Save, SaveStep(s)
  PROVE  Register!Write(s) \/ UNCHANGED Register!vars
<1>1. UNCHANGED loadVars
  BY DEF SaveStep, SaveBegins, SavePutsState, SavePutsMemfile, SavePutsManifest, SaveFails
<1>2. SeenBy' = SeenBy /\ AnswerOf' = AnswerOf
  BY <1>1 DEF loadVars, SeenBy, AnswerOf, Loaded, Parts
<1>3. ASSUME NEW k \in ObjectName, Put(s, k)
      PROVE  Current' = IF k = "manifest.yaml"
                        THEN [Current EXCEPT ![OfSave[s]] = s]
                        ELSE Current
  <2>1. \A t \in Template :
          object'[t]["manifest.yaml"] =
            IF t = OfSave[s] /\ k = "manifest.yaml" THEN s ELSE object[t]["manifest.yaml"]
    BY <1>3, PutEffect DEF WholeInv, ObjectName
  <2> QED BY <2>1 DEF Current
<1>4. \/ UNCHANGED object
      \/ \E k \in ObjectName : Put(s, k)
  BY MemKeyType
     DEF SaveStep, SaveBegins, SavePutsState, SavePutsMemfile, SavePutsManifest, SaveFails,
         NextKey, InFlight, ObjectName
<1>5. Current' = Current \/ Current' = [Current EXCEPT ![OfSave[s]] = s]
  <2>1. CASE UNCHANGED object
    BY <2>1 DEF Current
  <2> QED BY <1>3, <1>4, <2>1
<1> QED BY <1>2, <1>5 DEF Register!Write, Register!vars

(* What a Load that ends shows: its own answer, and no other Load's.       *)
LEMMA AnswerStep ==
  ASSUME TypeOK, NEW l \in Load, NEW to \in {"loaded", "failed"},
         load' = [load EXCEPT ![l] = to], got' = got
  PROVE  AnswerOf' = IF l \in Verify
                     THEN [AnswerOf EXCEPT ![l] = IF to = "loaded" THEN Loaded(l) ELSE Failed]
                     ELSE AnswerOf
<1>1. \A m : Loaded(m)' = Loaded(m)
  BY DEF Loaded, Parts
<1>2. \A m \in Load : load'[m] = IF m = l THEN to ELSE load[m]
  BY DEF TypeOK
<1>3. /\ AnswerOf = [m \in Verify |-> AnswerOf[m]]
      /\ AnswerOf' = [m \in Verify |-> AnswerOf'[m]]
  BY DEF AnswerOf
<1>4. \A m \in Verify : m # l => AnswerOf'[m] = AnswerOf[m]
  BY <1>1, <1>2, StoreAssumption DEF AnswerOf
<1>5. l \in Verify => AnswerOf'[l] = IF to = "loaded" THEN Loaded(l) ELSE Failed
  <2> SUFFICES ASSUME l \in Verify
               PROVE  AnswerOf'[l] = IF to = "loaded" THEN Loaded(l) ELSE Failed
    OBVIOUS
  <2>1. AnswerOf'[l] = CASE load'[l] = "loaded" -> Loaded(l)'
                         [] load'[l] = "failed" -> Failed
                         [] OTHER -> None
    BY DEF AnswerOf
  <2>2. load'[l] = to
    BY <1>2
  <2> QED BY <1>1, <2>1, <2>2
<1> QED BY <1>3, <1>4, <1>5

(* Fetching the manifest is the register's read; the other downloads show  *)
(* nothing.                                                                *)
LEMMA FetchRefines ==
  ASSUME WholeInv, NEW l \in Load, NEW k \in ObjectName,
         NEW from \in {"manifest", "state", "memfile", "rest"},
         NEW part \in {"manifest", "state", "first", "rest"},
         NEW to \in {"state", "memfile", "rest", "check"},
         from = "manifest" <=> part = "manifest",
         part = "manifest" <=> k = "manifest.yaml",
         Fetch(l, from, k, part, to)
  PROVE  \/ l \in Verify /\ (Register!Look(l) \/ Register!Answer(l))
         \/ UNCHANGED Register!vars
<1> USE DEF WholeInv
<1>0. Current' = Current
  BY DEF Fetch, saveVars, Current
<1>1. CASE Stored(l, k) = None
  <2>1. /\ load' = [load EXCEPT ![l] = "failed"]
        /\ got' = got
        /\ load[l] = from
    BY <1>1 DEF Fetch
  <2>2. SeenBy' = SeenBy
    BY <2>1 DEF SeenBy
  <2>3. l \in Verify => AnswerOf' = [AnswerOf EXCEPT ![l] = Failed]
    BY <2>1, AnswerStep
  <2>4. l \in Verify => AnswerOf[l] = None
    BY <2>1 DEF AnswerOf
  <2>5. l \notin Verify => AnswerOf' = AnswerOf
    BY <2>1, AnswerStep
  <2> QED BY <1>0, <2>2, <2>3, <2>4, <2>5 DEF Register!Answer, Register!vars
<1>2. CASE Stored(l, k) # None
  <2>1. /\ load[l] = from
        /\ load' = [load EXCEPT ![l] = to]
        /\ got' = [got EXCEPT ![l][part] = object[OfLoad[l]][k]]
        /\ object[OfLoad[l]][k] # None
    BY <1>2 DEF Fetch, Stored
  <2>2. AnswerOf' = AnswerOf
    <3>1. \A m \in Load : m # l => load'[m] = load[m] /\ got'[m] = got[m]
      BY <2>1 DEF TypeOK
    <3>2. load'[l] = to /\ load[l] = from
      BY <2>1 DEF TypeOK
    <3>3. \A m \in Load : m # l => Loaded(m)' = Loaded(m)
      BY <3>1 DEF Loaded, Parts
    <3> QED BY <3>1, <3>2, <3>3, StoreAssumption DEF AnswerOf
  <2>3. CASE part = "manifest"
    <3>1. k = "manifest.yaml" /\ from = "manifest"
      BY <2>3
    <3>2. SeenBy' = [SeenBy EXCEPT ![l] = object[OfLoad[l]]["manifest.yaml"]]
      <4>1. \A m \in Load :
              got'[m].manifest = IF m = l THEN object[OfLoad[l]]["manifest.yaml"]
                                 ELSE got[m].manifest
        BY <2>1, <2>3, <3>1 DEF TypeOK
      <4>2. \A m \in Verify :
              got'[m].manifest = IF m = l THEN object[OfLoad[l]]["manifest.yaml"]
                                 ELSE got[m].manifest
        BY <4>1, StoreAssumption
      <4> QED BY <4>2 DEF SeenBy
    <3>3. got[l].manifest = None
      BY <2>1, <3>1 DEF LoadProgress
    <3>4. CASE l \in Verify
      <4>1. SeenBy[l] = None /\ AnswerOf[l] = None
        BY <2>1, <3>1, <3>3, <3>4 DEF SeenBy, AnswerOf
      <4>2. Current[OfLoad[l]] = object[OfLoad[l]]["manifest.yaml"]
        BY StoreAssumption DEF Current
      <4> QED BY <1>0, <2>1, <2>2, <3>1, <3>2, <3>4, <4>1, <4>2 DEF Register!Look
    <3>5. CASE l \notin Verify
      <4>1. SeenBy' = SeenBy
        BY <2>1, <3>5 DEF SeenBy, TypeOK
      <4> QED BY <1>0, <2>2, <4>1 DEF Register!vars
    <3> QED BY <3>4, <3>5
  <2>4. CASE part # "manifest"
    <3>1. SeenBy' = SeenBy
      BY <2>1, <2>4 DEF SeenBy, TypeOK
    <3> QED BY <1>0, <2>2, <3>1 DEF Register!vars
  <2> QED BY <2>3, <2>4
<1> QED BY <1>1, <1>2

(* A Load that ends answers with the bundle it has seen, or with an error. *)
LEMMA LoadRefines ==
  ASSUME WholeInv, NEW l \in Load, LoadStep(l)
  PROVE  \/ l \in Verify /\ (Register!Look(l) \/ Register!Answer(l))
         \/ UNCHANGED Register!vars
<1> USE DEF WholeInv
<1>1. CASE LoadGetsManifest(l)
  BY <1>1, FetchRefines DEF LoadGetsManifest, ObjectName
<1>2. CASE LoadGetsState(l)
  BY <1>2, FetchRefines DEF LoadGetsState, ObjectName
<1>3. CASE LoadGetsMemfile(l)
  BY <1>3, FetchRefines, MemKeyType DEF LoadGetsMemfile
<1>4. CASE LoadGetsRest(l)
  BY <1>4, FetchRefines, MemKeyType DEF LoadGetsRest
<1>5. ASSUME load[l] \notin {"loaded", "failed"},
             load' = [load EXCEPT ![l] = "failed"],
             UNCHANGED <<saveVars, got>>
      PROVE  \/ l \in Verify /\ Register!Answer(l)
             \/ UNCHANGED Register!vars
  <2>1. Current' = Current /\ SeenBy' = SeenBy
    BY <1>5 DEF saveVars, Current, SeenBy
  <2>2. l \in Verify => AnswerOf' = [AnswerOf EXCEPT ![l] = Failed]
    BY <1>5, AnswerStep
  <2>3. l \in Verify => AnswerOf[l] = None
    BY <1>5 DEF AnswerOf
  <2>4. l \notin Verify => AnswerOf' = AnswerOf
    BY <1>5, AnswerStep
  <2> QED BY <2>1, <2>2, <2>3, <2>4 DEF Register!Answer, Register!vars
<1>6. CASE LoadGivesUp(l)
  BY <1>5, <1>6 DEF LoadGivesUp
<1>7. CASE LoadChecks(l)
  <2>1. CASE load' = [load EXCEPT ![l] = "failed"]
    BY <1>5, <1>7, <2>1 DEF LoadChecks
  <2>2. CASE load' = [load EXCEPT ![l] = "loaded"] /\ load' # [load EXCEPT ![l] = "failed"]
    <3>1. /\ load[l] = "check"
          /\ l \in Verify => Sums(l, got[l].manifest)
          /\ UNCHANGED <<saveVars, got>>
      BY <1>7, <2>2 DEF LoadChecks
    <3>2. Current' = Current /\ SeenBy' = SeenBy
      BY <3>1 DEF saveVars, Current, SeenBy
    <3>3. CASE l \in Verify
      <4>1. Loaded(l) = got[l].manifest
        BY <3>1, <3>3 DEF Loaded, Parts, Sums
      <4>2. got[l].manifest # None
        BY <3>1 DEF LoadProgress
      <4>3. AnswerOf[l] = None /\ SeenBy[l] = got[l].manifest
        BY <3>1, <3>3 DEF AnswerOf, SeenBy
      <4>4. AnswerOf' = [AnswerOf EXCEPT ![l] = got[l].manifest]
        BY <2>2, <3>1, <3>3, <4>1, AnswerStep
      <4> QED BY <3>2, <3>3, <4>2, <4>3, <4>4 DEF Register!Answer
    <3>4. CASE l \notin Verify
      <4>1. AnswerOf' = AnswerOf
        BY <2>2, <3>1, <3>4, AnswerStep
      <4> QED BY <3>2, <4>1 DEF Register!vars
    <3> QED BY <3>3, <3>4
  <2> QED BY <1>7, <2>1, <2>2 DEF LoadChecks
<1> QED BY <1>1, <1>2, <1>3, <1>4, <1>6, <1>7 DEF LoadStep

(* Verified Loads are atomic reads of the bundle whose manifest was stored *)
(* last: the store implements BundleRegister.                              *)
THEOREM StoreImplementsRegister == Spec => ImplementsRegister
<1>1. WholeInv /\ Next => Register!Next \/ UNCHANGED Register!vars
  BY SaveRefines, LoadRefines, StoreAssumption DEF Next, Register!Next
<1>2. UNCHANGED vars => UNCHANGED Register!vars
  BY DEF vars, saveVars, loadVars, Register!vars, Current, SeenBy, AnswerOf, Loaded, Parts
<1>3. WholeInv /\ [Next]_vars => [Register!Next]_(Register!vars)
  BY <1>1, <1>2
<1> QED BY InitRefines, WholeInvHolds, <1>3, PTL DEF Spec, ImplementsRegister, Register!Spec
=============================================================================
