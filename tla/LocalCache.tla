----------------------------- MODULE LocalCache -----------------------------
(***************************************************************************)
(* internal/snapshot/cache.go: the LRU of bundle directories below one     *)
(* root.  A client Gets a bundle; if the cache has none it fetches it into *)
(* Path(name, version) itself (Store.Load) and then calls Insert, which    *)
(* measures the directory before it takes the lock.  Get holds the lock    *)
(* for one step; Insert holds it over the removal of any number of         *)
(* directories, and each of those is a step.  Keys are valid ones: for an  *)
(* invalid name every method returns before it touches anything.           *)
(***************************************************************************)
EXTENDS Integers, Sequences, SequencesExt, Functions

CONSTANTS Key,       \* the bundles, each a valid name/version
          Client,    \* the goroutines that use the cache
          SizeOf,    \* SizeOf[k]: the bytes of the whole bundle k
          MaxBytes,
          None

ASSUME CacheAssumption ==
  /\ MaxBytes \in Nat \ {0}
  /\ SizeOf \in [Key -> Nat \ {0}]
  /\ None \notin Key \cup Client \cup Nat

VARIABLES order,     \* c.order, the most recent first, and the keys of c.byKey
          size,      \* size[k]: the size field of k's entry, 0 if it has none
          bytes,     \* c.bytes
          mu,        \* the client whose Insert holds c.mu, or None
          disk,      \* disk[k]: the bytes below Path(k), None: no directory
          at, key,   \* at[u], key[u]: what client u does, and with which bundle
          measured,  \* measured[u]: the size that u's Insert has measured
          since,     \* since[u]: the bundles others used since u got its path (a history)
          overlap,   \* the bundles two clients fetched at once when the cache last
                     \* had none (a history)
          leftover,  \* the bundles of which a failed fetch or a refused Insert
                     \* has left a directory without an entry (a history)
          before     \* the index when c.mu was taken (a history)

index == <<order, size, bytes>>
client == <<at, key, measured>>
vars == <<index, mu, disk, client, since, overlap, leftover, before>>

(* "missed": Get has returned "".  "replacing", "inserting": Insert holds  *)
(* the lock, and k had an entry when it took it, or not.  "holding": the   *)
(* client uses the path, which nothing pins.                               *)
Working == {"missed", "fetching", "fetched", "measured", "replacing", "inserting"}
ClientState == Working \cup {"idle", "holding"}
Resident == ToSet(order)
Workers(k) == {u \in Client : key[u] = k /\ at[u] \in Working}

Init ==
  /\ order = <<>>
  /\ size = [k \in Key |-> 0]
  /\ bytes = 0
  /\ mu = None
  /\ disk = [k \in Key |-> None]
  /\ at = [u \in Client |-> "idle"]
  /\ key = [u \in Client |-> None]
  /\ measured = [u \in Client |-> 0]
  /\ since = [u \in Client |-> {}]
  /\ overlap = {} /\ leftover = {}
  /\ before = <<>>

Go(u, from, to) ==
  /\ at[u] = from
  /\ at' = [at EXCEPT ![u] = to]

(* The client has nothing to do with its bundle any more.                  *)
Leaves(u, from) ==
  /\ Go(u, from, "idle")
  /\ key' = [key EXCEPT ![u] = None]
  /\ measured' = [measured EXCEPT ![u] = 0]

MoveToFront(k) ==
  \E i \in DOMAIN order :
    /\ order[i] = k
    /\ order' = <<k>> \o RemoveAt(order, i)

(* k is used: the bundles that are held have one more before them.         *)
Used(k) ==
  since' = [v \in Client |-> IF at[v] = "holding" THEN since[v] \cup {k} ELSE {}]

(***************************************************************************)
(* Get                                                                     *)
(***************************************************************************)
(* Mutant: a hit does not count as a use.                                  *)
GetHitsOnly(u, k) ==
  /\ mu = None
  /\ k \in Resident
  /\ Go(u, "idle", "holding")
  /\ key' = [key EXCEPT ![u] = k]
  /\ Used(k)
  /\ UNCHANGED <<index, mu, disk, measured, overlap, leftover, before>>

GetHits(u, k) ==
  /\ mu = None
  /\ k \in Resident
  /\ Go(u, "idle", "holding")
  /\ key' = [key EXCEPT ![u] = k]
  /\ MoveToFront(k)
  /\ Used(k)
  /\ UNCHANGED <<size, bytes, mu, disk, measured, overlap, leftover, before>>

GetMisses(u, k) ==
  /\ mu = None
  /\ k \notin Resident
  /\ Go(u, "idle", "missed")
  /\ key' = [key EXCEPT ![u] = k]
  /\ overlap' = IF Workers(k) # {} THEN overlap \cup {k} ELSE overlap
  /\ UNCHANGED <<index, mu, disk, measured, since, leftover, before>>

(* The client is done with the bundle.                                     *)
Release(u) ==
  /\ Leaves(u, "holding")
  /\ since' = [since EXCEPT ![u] = {}]
  /\ UNCHANGED <<index, mu, disk, overlap, leftover, before>>

(***************************************************************************)
(* Store.Load into Path(k): mkdir and truncated files, then their bytes    *)
(***************************************************************************)
FetchBegins(u) ==
  /\ Go(u, "missed", "fetching")
  /\ disk' = [disk EXCEPT ![key[u]] = 0]
  /\ leftover' = leftover \ {key[u]}
  /\ UNCHANGED <<index, mu, key, measured, since, overlap, before>>

(* The directory may have been evicted under the fetch, which writes on to *)
(* the files it has open.                                                  *)
FetchEnds(u) ==
  /\ Go(u, "fetching", "fetched")
  /\ disk' = [disk EXCEPT ![key[u]] = IF @ = None THEN None ELSE SizeOf[key[u]]]
  /\ UNCHANGED <<index, mu, key, measured, since, overlap, leftover, before>>

(* Nobody removes what a Load or an Insert that fails has on disk.         *)
GivesUp(u, k) ==
  /\ leftover' = IF disk[k] = None \/ k \in Resident THEN leftover ELSE leftover \cup {k}
  /\ overlap' = IF k \in Resident \/ Workers(k) # {u} THEN overlap ELSE overlap \ {k}

FetchFails(u) ==
  /\ Leaves(u, "fetching")
  /\ GivesUp(u, key[u])
  /\ UNCHANGED <<index, mu, disk, since, before>>

(***************************************************************************)
(* Insert                                                                  *)
(***************************************************************************)

(* DirSize, outside the lock, finds a directory that fits.                 *)
MayEnter(k) == disk[k] # None /\ disk[k] <= MaxBytes

Measure(u) ==
  /\ Go(u, "fetched", "measured")
  /\ MayEnter(key[u])
  /\ measured' = [measured EXCEPT ![u] = disk[key[u]]]
  /\ UNCHANGED <<index, mu, disk, key, since, overlap, leftover, before>>

(* No directory, or one larger than the budget, which stays.               *)
InsertRefused(u) ==
  /\ Leaves(u, "fetched")
  /\ ~MayEnter(key[u])
  /\ GivesUp(u, key[u])
  /\ UNCHANGED <<index, mu, disk, since, before>>

IndexNow == [i \in DOMAIN order |-> [key |-> order[i], size |-> size[order[i]]]]

(* Mutant: the old size of a replaced entry stays counted.                 *)
LockAdds(u) ==
  LET k == key[u] IN
  /\ mu = None
  /\ Go(u, "measured", IF k \in Resident THEN "replacing" ELSE "inserting")
  /\ mu' = u
  /\ before' = IndexNow
  /\ leftover' = leftover \ {k}
  /\ Used(k)
  /\ IF k \in Resident
     THEN /\ bytes' = bytes + measured[u]
          /\ size' = [size EXCEPT ![k] = measured[u]]
          /\ MoveToFront(k)
     ELSE UNCHANGED index
  /\ UNCHANGED <<disk, key, measured, overlap>>

(* c.mu.Lock; the entry of a bundle that is there gets its new size.       *)
Lock(u) ==
  LET k == key[u] IN
  /\ mu = None
  /\ Go(u, "measured", IF k \in Resident THEN "replacing" ELSE "inserting")
  /\ mu' = u
  /\ before' = IndexNow
  /\ leftover' = leftover \ {k}
  /\ Used(k)
  /\ IF k \in Resident
     THEN /\ bytes' = bytes - size[k] + measured[u]
          /\ size' = [size EXCEPT ![k] = measured[u]]
          /\ MoveToFront(k)
     ELSE UNCHANGED index
  /\ UNCHANGED <<disk, key, measured, overlap>>

(* The loop condition of evictLocked, and of Insert, which keeps room for  *)
(* the entry it has yet to make.                                           *)
OverBudget(u) ==
  /\ order # <<>>
  /\ bytes + (IF at[u] = "inserting" THEN measured[u] ELSE 0) > MaxBytes
(* Mutant: the most recent entry goes.                                     *)
EvictFront(u) ==
  LET t == Head(order) IN
  /\ mu = u
  /\ OverBudget(u)
  /\ order' = Tail(order)
  /\ size' = [size EXCEPT ![t] = 0]
  /\ bytes' = bytes - size[t]
  /\ disk' = [disk EXCEPT ![t] = None]
  /\ overlap' = IF Workers(t) # {} THEN overlap ELSE overlap \ {t}
  /\ UNCHANGED <<mu, client, since, leftover, before>>

(* evictOneLocked: the entry and, whoever uses it, the directory.          *)
Evict(u) ==
  LET t == Last(order) IN
  /\ mu = u
  /\ OverBudget(u)
  /\ order' = Front(order)
  /\ size' = [size EXCEPT ![t] = 0]
  /\ bytes' = bytes - size[t]
  /\ disk' = [disk EXCEPT ![t] = None]
  /\ overlap' = IF Workers(t) # {} THEN overlap ELSE overlap \ {t}
  /\ UNCHANGED <<mu, client, since, leftover, before>>

InsertReturns(u) ==
  LET k == key[u] IN
  /\ mu = u
  /\ ~OverBudget(u)
  /\ at' = [at EXCEPT ![u] = "holding"]
  /\ IF at[u] = "inserting"
     THEN /\ order' = <<k>> \o order
          /\ size' = [size EXCEPT ![k] = measured[u]]
          /\ bytes' = bytes + measured[u]
     ELSE UNCHANGED index
  /\ mu' = None
  /\ measured' = [measured EXCEPT ![u] = 0]
  /\ since' = [since EXCEPT ![u] = {}]
  /\ before' = <<>>
  /\ UNCHANGED <<disk, key, overlap, leftover>>

(***************************************************************************)
(* Specification                                                           *)
(***************************************************************************)
Next ==
  \E u \in Client :
    \/ \E k \in Key : GetHits(u, k) \/ GetMisses(u, k)
    \/ FetchBegins(u) \/ FetchEnds(u) \/ FetchFails(u)
    \/ Measure(u) \/ InsertRefused(u) \/ Lock(u) \/ Evict(u) \/ InsertReturns(u)
    \/ Release(u)

Spec == Init /\ [][Next]_vars

(***************************************************************************)
(* Properties                                                              *)
(***************************************************************************)

(* Every variable has its type.                                            *)
TypeOK ==
  /\ order \in Seq(Key)
  /\ size \in [Key -> 0 .. MaxBytes]
  /\ bytes \in Nat
  /\ mu \in Client \cup {None}
  /\ disk \in [Key -> Nat \cup {None}]
  /\ at \in [Client -> ClientState]
  /\ key \in [Client -> Key \cup {None}]
  /\ measured \in [Client -> 0 .. MaxBytes]
  /\ since \in [Client -> SUBSET Key]
  /\ overlap \in SUBSET Key /\ leftover \in SUBSET Key

(* The books agree with one another and with the disk.  c.bytes is the sum *)
(* of the sizes of the entries and within the budget whenever the lock is  *)
(* free; a bundle that no two clients have fetched at once is on disk with *)
(* the size that is counted; and nothing stays on disk uncounted but what  *)
(* is being fetched and what a failed fetch or a refused Insert left.      *)
Accounted ==
  /\ TypeOK
  /\ IsInjective(order)
  /\ bytes = SumFunctionOnSet(size, Resident)
  /\ mu = None => bytes <= MaxBytes
  /\ \A k \in Resident \ overlap : disk[k] = size[k]
  /\ \A k \in Key : disk[k] # None => k \in Resident \cup leftover \/ Workers(k) # {}

(* A path that Get or Insert has returned stays in the cache as long as it *)
(* fits into the budget together with all the bundles used since.          *)
Fits(u) == SizeOf[key[u]] + SumFunctionOnSet(SizeOf, since[u] \ {key[u]}) <= MaxBytes

RecentSurvives ==
  \A u \in Client :
    at[u] = "holding" /\ Fits(u) => key[u] \in Resident

(***************************************************************************)
(* Why they hold, for module LocalCache_proofs                             *)
(***************************************************************************)

(* Who is at what: the holder of the lock, and where its bundle is.        *)
HolderKnown ==
  /\ \A u \in Client : at[u] # "idle" => key[u] \in Key
  /\ \A u \in Client : at[u] \in {"replacing", "inserting"} <=> mu = u
  /\ \A u \in Client : at[u] = "inserting" => key[u] \notin Resident
  /\ \A u \in Client :
       at[u] = "replacing" => /\ order # <<>> /\ order[1] = key[u]
                              /\ size[key[u]] = measured[u]

Measured(u) == at[u] \in {"measured", "replacing", "inserting"}

(* A bundle is never larger than the whole of it.                          *)
WithinWhole ==
  \A k \in Key :
    /\ size[k] <= SizeOf[k]
    /\ disk[k] # None => disk[k] <= SizeOf[k]
    /\ \A u \in Workers(k) : Measured(u) => measured[u] <= SizeOf[k]

(* A bundle that is not listed in overlap has one client at work on it, or *)
(* is in the cache and has none; what that client has measured is there.   *)
OneFetch ==
  \A k \in Key \ overlap :
    /\ \A u, v \in Workers(k) : u = v
    /\ k \in Resident => Workers(k) = {}
    /\ \A u \in Workers(k) :
         Measured(u) => disk[k] = measured[u]

(* A bundle in use that still fits is in the cache, and only bundles used  *)
(* since are before it; the one being inserted is among them.              *)
Ahead(k, B) ==
  \E j \in DOMAIN order :
    /\ order[j] = k
    /\ \A i \in 1 .. j - 1 : order[i] \in B

Recent(u) ==
  /\ IsFiniteSet(since[u])
  /\ at[u] = "holding" =>
       /\ \A v \in Client : at[v] = "inserting" => key[v] \in since[u]
       /\ Fits(u) => Ahead(key[u], since[u])

IndInv == Accounted /\ HolderKnown /\ WithinWhole /\ OneFetch /\ \A u \in Client : Recent(u)

(* Insert, which others see only when it has released the lock, and Get    *)
(* are the steps of LruCache.                                              *)
Lru == INSTANCE LruCache WITH lru <- IF mu = None THEN IndexNow ELSE before
ImplementsLru == Lru!Spec
=============================================================================
