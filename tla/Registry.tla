------------------------------ MODULE Registry ------------------------------
(***************************************************************************)
(* internal/template/registry.go: the JSON file of templates, read whole   *)
(* by OpenRegistry and replaced by Put's persist, which writes a .tmp file  *)
(* beside it and renames it.  The mutex of a Registry is inside one        *)
(* process; the file and its one .tmp name are shared by every process     *)
(* that runs seed-template.  Each process puts one entry, named after it.  *)
(* A composing module conjoins these actions to its own.                   *)
(***************************************************************************)
EXTENDS FiniteSets

CONSTANTS Proc, Key, KeyOf, None

(* A file is an inode, named after the process that created it.            *)
VARIABLES bytes,  \* bytes[i]: the documents whose bytes inode i holds: none
                  \* after O_TRUNC, one when it is whole, several when torn
          file,   \* the inode that registry.json names, or None
          tmp,    \* the inode that registry.json.tmp names, or None
          fd,     \* fd[p]: the inode p has open for writing
          map,    \* map[p]: r.entries in process p
          step,   \* step[p]: progress of p's OpenRegistry and Put
          acked,  \* acked[k]: the process whose Put of k was renamed in last (a history)
          raced   \* two processes have been registering at once (a history)

regVars == <<bytes, file, tmp, fd, map, step, acked, raced>>

Doc == [Key -> Proc \cup {None}]
Empty == [k \in Key |-> None]
Registering == {"opened", "writing", "written"}
RegState == Registering \cup {"new", "over"}

RegTypeOK ==
  /\ bytes \in [Proc -> SUBSET Doc]
  /\ file \in Proc \cup {None} /\ tmp \in Proc \cup {None}
  /\ fd \in [Proc -> Proc \cup {None}]
  /\ map \in [Proc -> Doc]
  /\ step \in [Proc -> RegState]
  /\ acked \in Doc
  /\ raced \in BOOLEAN

RegInit ==
  /\ bytes = [p \in Proc |-> {}]
  /\ file = None /\ tmp = None
  /\ fd = [p \in Proc |-> None]
  /\ map = [p \in Proc |-> Empty]
  /\ step = [p \in Proc |-> "new"]
  /\ acked = Empty
  /\ raced = FALSE

Step(p, from, to) ==
  /\ step[p] = from
  /\ step' = [step EXCEPT ![p] = to]

(* What a reader of the file gets: no file and an empty file are an empty  *)
(* registry.                                                               *)
Contents == IF file = None \/ bytes[file] = {} THEN {Empty} ELSE bytes[file]
Whole == Cardinality(Contents) = 1
(* Mutant: the registry starts from an empty map.                          *)
OpenForgets(p) ==
  /\ Step(p, "new", "opened")
  /\ Whole
  /\ map' = [map EXCEPT ![p] = [Empty EXCEPT ![KeyOf[p]] = p]]
  /\ raced' = (raced \/ \E q \in Proc : step[q] \in Registering)
  /\ UNCHANGED <<bytes, file, tmp, fd, acked>>

(* OpenRegistry reads the file, Put enters p in the map in memory.         *)
OpenAndPut(p) ==
  /\ Step(p, "new", "opened")
  /\ Whole
  /\ \E d \in Contents : map' = [map EXCEPT ![p] = [d EXCEPT ![KeyOf[p]] = p]]
  /\ raced' = (raced \/ \E q \in Proc : step[q] \in Registering)
  /\ UNCHANGED <<bytes, file, tmp, fd, acked>>

OpenFails(p) ==
  /\ Step(p, "new", "over")
  /\ ~Whole
  /\ UNCHANGED <<bytes, file, tmp, fd, map, acked, raced>>

(* os.WriteFile: open the .tmp with O_CREATE and O_TRUNC, then write.      *)
TmpOpens(p) ==
  LET i == IF tmp = None THEN p ELSE tmp IN
  /\ Step(p, "opened", "writing")
  /\ tmp' = i
  /\ fd' = [fd EXCEPT ![p] = i]
  /\ bytes' = [bytes EXCEPT ![i] = {}]
  /\ UNCHANGED <<file, map, acked, raced>>

(* Another process that has the same inode open may have written to it     *)
(* since: a shorter document leaves the tail of the other one.             *)
TmpWrites(p) ==
  /\ Step(p, "writing", "written")
  /\ \E left \in {{}, bytes[fd[p]]} :
       bytes' = [bytes EXCEPT ![fd[p]] = left \cup {map[p]}]
  /\ UNCHANGED <<file, tmp, fd, map, acked, raced>>

(* os.Rename: from here on the entry is in the file, and Put returns,      *)
(* with an error if the chmod that follows fails.                          *)
TmpRenames(p) ==
  /\ Step(p, "written", "over")
  /\ tmp # None
  /\ file' = tmp
  /\ tmp' = None
  /\ acked' = [acked EXCEPT ![KeyOf[p]] = p]
  /\ UNCHANGED <<bytes, fd, map, raced>>

(* The write or the rename fails: the .tmp of p was renamed away by        *)
(* another process, or the disk is full.                                   *)
PersistFails(p) ==
  /\ step[p] \in Registering
  /\ step' = [step EXCEPT ![p] = "over"]
  /\ UNCHANGED <<bytes, file, tmp, fd, map, acked, raced>>

RegisterStep(p) ==
  \/ OpenAndPut(p) \/ OpenFails(p) \/ TmpOpens(p) \/ TmpWrites(p)
  \/ TmpRenames(p) \/ PersistFails(p)

(* The process dies: its descriptor goes, the files stay as they are.      *)
Dies(p) ==
  /\ step' = [step EXCEPT ![p] = "over"]
  /\ UNCHANGED <<bytes, file, tmp, fd, map, acked, raced>>

(* A reader at any moment gets a whole document, with every entry that was *)
(* put and none besides, unless two processes have registered at once.     *)
RegistryIntact == ~raced => Contents = {acked}

(* The inductive invariant behind it.  An inode named after p was made by  *)
(* p's one open, and the one that is renamed is never the file in place.   *)
Inodes ==
  /\ file # None => file # tmp
  /\ \A p \in Proc : p \in {file, tmp} => step[p] \notin {"new", "opened"}

(* A process that registers alone writes the file's entries and its own,   *)
(* and the .tmp is its own from the open to the rename, though a process   *)
(* before it may have left one there.                                      *)
OneWriter ==
  ~raced =>
    /\ \A p, q \in Proc : step[p] \in Registering /\ step[q] \in Registering => p = q
    /\ \A p \in Proc :
         /\ step[p] \in Registering => map[p] = [acked EXCEPT ![KeyOf[p]] = p]
         /\ step[p] \in {"writing", "written"} => fd[p] = tmp /\ tmp # None
         /\ step[p] = "writing" => bytes[tmp] = {}
         /\ step[p] = "written" => bytes[tmp] = {map[p]}

RegInv ==
  /\ RegTypeOK
  /\ Inodes
  /\ OneWriter
  /\ RegistryIntact
=============================================================================
