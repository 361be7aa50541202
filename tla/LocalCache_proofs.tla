-------------------------- MODULE LocalCache_proofs --------------------------
(***************************************************************************)
(* Theorems about module LocalCache, for every number of bundles, sizes    *)
(* and clients.                                                            *)
(***************************************************************************)
EXTENDS LocalCache, CacheLemmas

(***************************************************************************)
(* The index                                                               *)
(***************************************************************************)

(* The entries without the disk and the clients.                           *)
Books ==
  /\ order \in Seq(Key)
  /\ size \in [Key -> 0 .. MaxBytes]
  /\ IsInjective(order)
  /\ bytes = SumFunctionOnSet(size, Resident)

LEMMA SizesAreNat ==
  ASSUME Books
  PROVE  /\ IsFiniteSet(Resident) /\ Resident \subseteq Key
         /\ \A k \in Key : size[k] \in Nat /\ SizeOf[k] \in Nat /\ size[k] <= MaxBytes
         /\ bytes \in Nat
<1>1. IsFiniteSet(Resident) /\ Resident \subseteq Key
  BY ToSetFinite DEF Books, Resident
<1>2. \A k \in Key : size[k] \in Nat /\ SizeOf[k] \in Nat /\ size[k] <= MaxBytes
  BY CacheAssumption DEF Books, CacheAssumption
<1>3. bytes \in Nat
  BY <1>1, <1>2, SumNat DEF Books
<1> QED BY <1>1, <1>2, <1>3

(* An entry that is there is counted, with all the others.                 *)
LEMMA EntryCounted ==
  ASSUME Books, NEW k \in Resident
  PROVE  /\ bytes = size[k] + SumFunctionOnSet(size, Resident \ {k})
         /\ SumFunctionOnSet(size, Resident \ {k}) \in Nat
<1>1. /\ IsFiniteSet(Resident) /\ Resident \subseteq Key
      /\ \A j \in Key : size[j] \in Nat
  BY SizesAreNat
<1>2. IsFiniteSet(Resident \ {k}) /\ \A j \in Resident \ {k} : size[j] \in Nat
  BY <1>1, FS_Subset
<1> QED BY <1>1, <1>2, SumNat, SumTakesOut DEF Books

LEMMA ToFrontMoves ==
  ASSUME NEW k, MoveToFront(k)
  PROVE  \E i \in DOMAIN order : order[i] = k /\ order' = ToFront(order, i)
BY DEF MoveToFront, ToFront, Replaced

LEMMA BooksAfterMove ==
  ASSUME Books, NEW k, MoveToFront(k)
  PROVE  /\ order' \in Seq(Key) /\ order' # <<>> /\ order'[1] = k
         /\ Resident' = Resident /\ IsInjective(order')
         /\ \A x, B : After(order, x, B) => After(order', x, B \cup {k})
<1>1. PICK i \in DOMAIN order : order[i] = k /\ order' = ToFront(order, i)
  BY ToFrontMoves
<1>2. order \in Seq(Key) /\ IsInjective(order)
  BY DEF Books
<1>3. order' \in Seq(Key) /\ Len(order') = Len(order) /\ order'[1] = k
  BY <1>1, <1>2, ToFrontEffect
<1>4. ToSet(order') = ToSet(order) /\ IsInjective(order')
  BY <1>1, <1>2, ToFrontKeeps
<1>5. order' # <<>>
  BY <1>1, <1>2, <1>3
<1>6. ASSUME NEW x, NEW B, After(order, x, B) PROVE After(order', x, B \cup {k})
  BY <1>1, <1>2, <1>6, ToFrontAfter
<1> QED BY <1>3, <1>4, <1>5, <1>6 DEF Resident

(* A new size for an entry that is there, which comes first.               *)
LEMMA BooksAfterReplace ==
  ASSUME Books, NEW k \in Resident, NEW n \in 0 .. MaxBytes,
         MoveToFront(k), size' = [size EXCEPT ![k] = n], bytes' = bytes - size[k] + n
  PROVE  Books'
<1>1. order' \in Seq(Key) /\ Resident' = Resident /\ IsInjective(order')
  BY BooksAfterMove
<1>2. /\ IsFiniteSet(Resident) /\ Resident \subseteq Key
      /\ \A j \in Key : size[j] \in Nat
  BY SizesAreNat
<1>3. size' \in [Key -> 0 .. MaxBytes] /\ size'[k] = n /\ \A j \in Resident \ {k} : size'[j] = size[j]
  BY <1>2 DEF Books
<1>4. /\ bytes = size[k] + SumFunctionOnSet(size, Resident \ {k})
      /\ SumFunctionOnSet(size, Resident \ {k}) \in Nat
  BY EntryCounted
<1>5. SumFunctionOnSet(size', Resident) = size'[k] + SumFunctionOnSet(size', Resident \ {k})
  <2>1. \A j \in Resident : size'[j] \in Nat
    BY <1>2, <1>3
  <2> QED BY <1>2, <2>1, SumTakesOut
<1>6. SumFunctionOnSet(size', Resident \ {k}) = SumFunctionOnSet(size, Resident \ {k})
  <2>1. IsFiniteSet(Resident \ {k})
    BY <1>2, FS_Subset
  <2> QED BY <1>3, <2>1, SumSame
<1>7. bytes' = SumFunctionOnSet(size', Resident)
  <2>1. size[k] \in Nat
    BY <1>2
  <2> QED BY <1>3, <1>4, <1>5, <1>6, <2>1
<1> QED BY <1>1, <1>3, <1>7 DEF Books

(* evictOneLocked: the last entry is gone, and its size from the books.    *)
LEMMA BooksAfterEvict ==
  ASSUME Books, NEW u, Evict(u)
  PROVE  /\ Books' /\ Last(order) \in Resident
         /\ Resident' = Resident \ {Last(order)}
         /\ \A x, B : After(order, x, B) /\ x # Last(order) => After(order', x, B)
<1> DEFINE t == Last(order)
<1>1. /\ order \in Seq(Key) /\ IsInjective(order) /\ order # <<>>
      /\ order' = Front(order) /\ size' = [size EXCEPT ![t] = 0] /\ bytes' = bytes - size[t]
  BY DEF Books, Evict, OverBudget
<1>2. /\ t \in Resident /\ Resident' = Resident \ {t}
      /\ order' \in Seq(Key) /\ IsInjective(order')
  BY <1>1, FrontEffect, FrontKeeps DEF Resident
<1>3. \A x, B : After(order, x, B) /\ x # t => After(order', x, B)
  BY <1>1, FrontAfter
<1> HIDE DEF t
<1>4. /\ IsFiniteSet(Resident) /\ Resident \subseteq Key
      /\ \A j \in Key : size[j] \in Nat
  BY SizesAreNat
<1>5. size' \in [Key -> 0 .. MaxBytes] /\ \A j \in Resident \ {t} : size'[j] = size[j]
  BY <1>1, <1>2, <1>4, CacheAssumption DEF Books, CacheAssumption
<1>6. /\ bytes = size[t] + SumFunctionOnSet(size, Resident \ {t})
      /\ SumFunctionOnSet(size, Resident \ {t}) \in Nat
  BY <1>2, EntryCounted
<1>7. SumFunctionOnSet(size', Resident \ {t}) = SumFunctionOnSet(size, Resident \ {t})
  <2>1. IsFiniteSet(Resident \ {t})
    BY <1>4, FS_Subset
  <2> QED BY <1>5, <2>1, SumSame
<1>8. bytes' = SumFunctionOnSet(size', Resident')
  <2>1. size[t] \in Nat
    BY <1>2, <1>4
  <2>2. bytes' = SumFunctionOnSet(size, Resident \ {t})
    BY ONLY <1>1, <1>6, <2>1
  <2> QED BY ONLY <1>2, <1>7, <2>2
<1>9. Books'
  BY <1>2, <1>5, <1>8, <1>1 DEF Books
<1> QED BY <1>2, <1>3, <1>9 DEF t

(* PushFront of an entry that is not there.                                *)
LEMMA BooksAfterPush ==
  ASSUME Books, NEW k \in Key, k \notin Resident, NEW n \in 0 .. MaxBytes,
         order' = <<k>> \o order, size' = [size EXCEPT ![k] = n], bytes' = bytes + n
  PROVE  /\ Books' /\ Resident' = Resident \cup {k}
         /\ \A B : After(order', k, B)
         /\ \A x, B : After(order, x, B) => After(order', x, B \cup {k})
<1>1. order \in Seq(Key) /\ IsInjective(order) /\ k \notin ToSet(order)
  BY DEF Books, Resident
<1>2. /\ order' \in Seq(Key) /\ order' # <<>> /\ order'[1] = k
      /\ Resident' = Resident \cup {k} /\ IsInjective(order')
  <2>1. order' \in Seq(Key) /\ Len(order') = Len(order) + 1 /\ order'[1] = k
    BY <1>1, FirstEffect
  <2>2. order' # <<>>
    BY <1>1, <2>1, LenProperties, EmptySeq
  <2>3. ToSet(order') = ToSet(order) \cup {k} /\ IsInjective(order')
    BY <1>1, FirstKeeps
  <2> QED BY <2>1, <2>2, <2>3 DEF Resident
<1>3. ASSUME NEW B PROVE After(order', k, B)
  <2>1. After(order', order'[1], B)
    BY <1>2, FirstAfter
  <2> QED BY <1>2, <2>1
<1>4. ASSUME NEW x, NEW B, After(order, x, B) PROVE After(order', x, B \cup {k})
  BY <1>1, <1>4, PushedAfter
<1>5. /\ IsFiniteSet(Resident) /\ Resident \subseteq Key
      /\ \A j \in Key : size[j] \in Nat
  BY SizesAreNat
<1>6. /\ size' \in [Key -> 0 .. MaxBytes] /\ size'[k] = n
      /\ \A j \in Resident : size'[j] = size[j]
  BY <1>5 DEF Books
<1>7. SumFunctionOnSet(size', Resident \cup {k}) = size'[k] + SumFunctionOnSet(size', Resident)
  <2>1. \A j \in Resident \cup {k} : size'[j] \in Nat
    BY <1>5, <1>6
  <2> QED BY <1>5, <2>1, SumAdds
<1>8. SumFunctionOnSet(size', Resident) = SumFunctionOnSet(size, Resident)
  BY <1>5, <1>6, SumSame
<1>9. bytes' = SumFunctionOnSet(size', Resident')
  <2>1. bytes = SumFunctionOnSet(size, Resident) /\ bytes \in Nat
    BY SizesAreNat DEF Books
  <2> QED BY ONLY <1>2, <1>6, <1>7, <1>8, <2>1, bytes' = bytes + n, n \in 0 .. MaxBytes
<1>10. Books'
  BY <1>2, <1>6, <1>9 DEF Books
<1> QED BY <1>2, <1>3, <1>4, <1>10

(***************************************************************************)
(* The invariant                                                           *)
(***************************************************************************)

LEMMA InitIndInv == Init => IndInv
<1> SUFFICES ASSUME Init PROVE IndInv
  OBVIOUS
<1> USE CacheAssumption DEF Init, CacheAssumption
<1>1. Resident = {} /\ \A k \in Key : Workers(k) = {}
  BY DEF Resident, ToSet, Workers, Working
<1>2. TypeOK
  BY DEF TypeOK, ClientState
<1>3. Accounted
  BY <1>1, <1>2, SumEmpty DEF Accounted, IsInjective
<1>4. HolderKnown
  BY <1>1 DEF HolderKnown
<1>5. WithinWhole /\ OneFetch
  BY <1>1 DEF WithinWhole, OneFetch
<1>6. ASSUME NEW u \in Client PROVE Recent(u)
  BY FS_EmptySet DEF Recent
<1> QED BY <1>3, <1>4, <1>5, <1>6 DEF IndInv

LEMMA BooksHold == ASSUME IndInv PROVE Books
BY DEF IndInv, Accounted, TypeOK, Books

(* Every action, from a state in which the invariant holds, leaves the     *)
(* books in order and every variable in its type.                          *)
LEMMA StepBooks ==
  ASSUME IndInv, [Next]_vars
  PROVE  Books' /\ Resident' \subseteq Key /\ bytes' \in Nat
<1>1. Books /\ HolderKnown /\ TypeOK
  BY BooksHold DEF IndInv, Accounted
<1>2. Books'
  <2>1. ASSUME UNCHANGED index PROVE Books'
    BY <1>1, <2>1 DEF index, Books, Resident
  <2>2. CASE UNCHANGED vars
    BY <2>1, <2>2 DEF vars
  <2>3. ASSUME NEW u \in Client, NEW k \in Key, GetHits(u, k) PROVE Books'
    <3>1. MoveToFront(k) /\ size' = size /\ bytes' = bytes
      BY <2>3 DEF GetHits
    <3>2. order' \in Seq(Key) /\ Resident' = Resident /\ IsInjective(order')
      BY <1>1, <3>1, BooksAfterMove
    <3> QED BY <1>1, <3>1, <3>2 DEF Books
  <2>4. ASSUME NEW u \in Client, Lock(u) PROVE Books'
    <3>1. CASE key[u] \in Resident
      <4>1. /\ MoveToFront(key[u]) /\ size' = [size EXCEPT ![key[u]] = measured[u]]
            /\ bytes' = bytes - size[key[u]] + measured[u]
        BY <2>4, <3>1 DEF Lock
      <4>2. measured[u] \in 0 .. MaxBytes
        BY <1>1 DEF TypeOK
      <4> QED BY <1>1, <3>1, <4>1, <4>2, BooksAfterReplace
    <3>2. CASE key[u] \notin Resident
      BY <2>1, <2>4, <3>2 DEF Lock
    <3> QED BY <3>1, <3>2
  <2>5. ASSUME NEW u \in Client, Evict(u) PROVE Books'
    BY <1>1, <2>5, BooksAfterEvict
  <2>6. ASSUME NEW u \in Client, InsertReturns(u) PROVE Books'
    <3>1. CASE at[u] = "inserting"
      <4>1. /\ order' = <<key[u]>> \o order /\ size' = [size EXCEPT ![key[u]] = measured[u]]
            /\ bytes' = bytes + measured[u]
        BY <2>6, <3>1 DEF InsertReturns
      <4>2. measured[u] \in 0 .. MaxBytes /\ key[u] \in Key /\ key[u] \notin Resident
        BY <1>1, <3>1 DEF TypeOK, HolderKnown
      <4> QED BY <1>1, <4>1, <4>2, BooksAfterPush
    <3>2. CASE at[u] # "inserting"
      BY <2>1, <2>6, <3>2 DEF InsertReturns
    <3> QED BY <3>1, <3>2
  <2>7. ASSUME NEW u \in Client,
               \/ \E k \in Key : GetMisses(u, k)
               \/ FetchBegins(u) \/ FetchEnds(u) \/ FetchFails(u)
               \/ Measure(u) \/ InsertRefused(u) \/ Release(u)
        PROVE  Books'
    <3>1. UNCHANGED index
      BY <2>7 DEF GetMisses, FetchBegins, FetchEnds, FetchFails, Measure, InsertRefused, Release
    <3> QED BY <2>1, <3>1
  <2> QED BY <2>2, <2>3, <2>4, <2>5, <2>6, <2>7 DEF Next
<1>3. Resident' \subseteq Key
  BY <1>2, ToSetFinite DEF Books, Resident
<1>4. IsFiniteSet(Resident') /\ \A k \in Resident' : size'[k] \in Nat
  BY <1>2, <1>3, ToSetFinite, CacheAssumption DEF Books, Resident, CacheAssumption
<1>5. bytes' \in Nat
  BY <1>2, <1>4, SumNat DEF Books
<1> QED BY <1>2, <1>3, <1>5

(* The other variables have their types.                                   *)
Typed ==
  /\ mu \in Client \cup {None}
  /\ disk \in [Key -> Nat \cup {None}]
  /\ at \in [Client -> ClientState]
  /\ key \in [Client -> Key \cup {None}]
  /\ measured \in [Client -> 0 .. MaxBytes]
  /\ since \in [Client -> SUBSET Key]
  /\ overlap \in SUBSET Key /\ leftover \in SUBSET Key

LEMMA StepTypes ==
  ASSUME IndInv, [Next]_vars
  PROVE  TypeOK'
<1>1. TypeOK /\ HolderKnown
  BY DEF IndInv, Accounted
<1>2. order' \in Seq(Key) /\ size' \in [Key -> 0 .. MaxBytes] /\ bytes' \in Nat
  BY StepBooks DEF Books
<1>3. Typed'
  <2> USE <1>1, CacheAssumption DEF Typed, TypeOK, CacheAssumption, ClientState, Working, HolderKnown
  <2>1. CASE UNCHANGED vars
    BY <2>1 DEF vars, index, client
  <2>2. ASSUME NEW u \in Client, NEW k \in Key, GetHits(u, k) PROVE Typed'
    BY <2>2 DEF GetHits, Go, Used
  <2>3. ASSUME NEW u \in Client, NEW k \in Key, GetMisses(u, k) PROVE Typed'
    BY <2>3 DEF GetMisses, Go
  <2>4. ASSUME NEW u \in Client, FetchBegins(u) PROVE Typed'
    BY <2>4 DEF FetchBegins, Go
  <2>5. ASSUME NEW u \in Client, FetchEnds(u) PROVE Typed'
    BY <2>5 DEF FetchEnds, Go
  <2>6. ASSUME NEW u \in Client, FetchFails(u) PROVE Typed'
    BY <2>6 DEF FetchFails, Leaves, Go, GivesUp
  <2>7. ASSUME NEW u \in Client, InsertRefused(u) PROVE Typed'
    BY <2>7 DEF InsertRefused, Leaves, Go, GivesUp
  <2>8. ASSUME NEW u \in Client, Measure(u) PROVE Typed'
    BY <2>8 DEF Measure, Go, MayEnter
  <2>9. ASSUME NEW u \in Client, Lock(u) PROVE Typed'
    BY <2>9 DEF Lock, Go, Used
  <2>10. ASSUME NEW u \in Client, Evict(u) PROVE Typed'
    <3>1. Last(order) \in Key
      BY <2>10, BooksHold, BooksAfterEvict, SizesAreNat
    <3> QED BY <2>10, <3>1 DEF Evict, client
  <2>11. ASSUME NEW u \in Client, InsertReturns(u) PROVE Typed'
    BY <2>11 DEF InsertReturns
  <2>12. ASSUME NEW u \in Client, Release(u) PROVE Typed'
    BY <2>12 DEF Release, Leaves, Go
  <2> QED BY <2>1, <2>2, <2>3, <2>4, <2>5, <2>6, <2>7, <2>8, <2>9, <2>10, <2>11, <2>12 DEF Next
<1> QED BY <1>2, <1>3 DEF TypeOK, Typed

(* The actions that leave the index and the lock alone.                    *)
Aside(u) ==
  \/ \E k \in Key : GetMisses(u, k)
  \/ FetchBegins(u) \/ FetchEnds(u) \/ FetchFails(u)
  \/ Measure(u) \/ InsertRefused(u) \/ Release(u)

LEMMA AsideSteps ==
  ASSUME NEW u \in Client, Aside(u)
  PROVE  UNCHANGED <<order, size, bytes, mu, before>> /\ Resident' = Resident
BY DEF Aside, GetMisses, FetchBegins, FetchEnds, FetchFails, Measure, InsertRefused, Release,
       index, Resident

LEMMA NextSteps ==
  ASSUME [Next]_vars
  PROVE  \/ UNCHANGED vars
         \/ \E u \in Client : \/ \E k \in Key : GetHits(u, k)
                             \/ Aside(u) \/ Lock(u) \/ Evict(u) \/ InsertReturns(u)
BY DEF Next, Aside

(* What an Aside step does to its own client, and to no other.             *)
LEMMA AsideMoves ==
  ASSUME TypeOK, NEW u \in Client, Aside(u)
  PROVE  /\ \A v \in Client \ {u} : at'[v] = at[v] /\ key'[v] = key[v] /\ measured'[v] = measured[v]
         /\ at[u] \notin {"measured", "replacing", "inserting"}
         /\ at'[u] \notin {"replacing", "inserting", "holding"}
         /\ at'[u] # "idle" => \/ (at[u] # "idle" /\ key'[u] = key[u])
                              \/ (at'[u] = "missed" /\ key'[u] \in Key)
<1> USE DEF TypeOK, Go, Leaves
<1>1. CASE \E k \in Key : GetMisses(u, k)
  BY <1>1 DEF GetMisses
<1>2. CASE FetchBegins(u)
  BY <1>2 DEF FetchBegins
<1>3. CASE FetchEnds(u)
  BY <1>3 DEF FetchEnds
<1>4. CASE FetchFails(u)
  BY <1>4 DEF FetchFails
<1>5. CASE Measure(u)
  BY <1>5 DEF Measure
<1>6. CASE InsertRefused(u)
  BY <1>6 DEF InsertRefused
<1>7. CASE Release(u)
  BY <1>7 DEF Release
<1> QED BY <1>1, <1>2, <1>3, <1>4, <1>5, <1>6, <1>7 DEF Aside

LEMMA StepHolder ==
  ASSUME IndInv, [Next]_vars
  PROVE  HolderKnown'
<1>1. TypeOK /\ HolderKnown /\ Books
  BY BooksHold DEF IndInv, Accounted
<1>2. CASE UNCHANGED vars
  BY <1>1, <1>2 DEF vars, index, client, HolderKnown, Resident
<1>3. ASSUME NEW u \in Client, NEW k \in Key, GetHits(u, k) PROVE HolderKnown'
  <2>1. Resident' = Resident
    BY <1>1, <1>3, BooksAfterMove DEF GetHits
  <2>2. mu = None /\ \A v \in Client : at[v] \notin {"replacing", "inserting"}
    BY <1>1, <1>3, CacheAssumption DEF GetHits, HolderKnown, CacheAssumption
  <2> QED BY <1>1, <1>3, <2>1, <2>2, CacheAssumption DEF GetHits, Go, HolderKnown, TypeOK, CacheAssumption
<1>4. ASSUME NEW u \in Client, Aside(u) PROVE HolderKnown'
  <2>1. UNCHANGED <<order, size, mu>> /\ Resident' = Resident
    BY <1>4, AsideSteps
  <2>2. /\ \A v \in Client \ {u} : at'[v] = at[v] /\ key'[v] = key[v] /\ measured'[v] = measured[v]
        /\ at[u] \notin {"measured", "replacing", "inserting"}
        /\ at'[u] \notin {"replacing", "inserting", "holding"}
        /\ at'[u] # "idle" => \/ (at[u] # "idle" /\ key'[u] = key[u])
                             \/ (at'[u] = "missed" /\ key'[u] \in Key)
    BY <1>1, <1>4, AsideMoves
  <2> QED BY <1>1, <2>1, <2>2 DEF HolderKnown
<1>5. ASSUME NEW u \in Client, Lock(u) PROVE HolderKnown'
  <2>1. mu = None /\ mu' = u /\ \A v \in Client : at[v] \notin {"replacing", "inserting"}
    BY <1>1, <1>5, CacheAssumption DEF Lock, HolderKnown, CacheAssumption
  <2>2. /\ at[u] = "measured" /\ key[u] \in Key
        /\ at' = [at EXCEPT ![u] = IF key[u] \in Resident THEN "replacing" ELSE "inserting"]
        /\ key' = key /\ measured' = measured
    BY <1>1, <1>5 DEF Lock, Go, HolderKnown
  <2>3. CASE key[u] \in Resident
    <3>1. MoveToFront(key[u]) /\ size' = [size EXCEPT ![key[u]] = measured[u]]
      BY <1>5, <2>3 DEF Lock
    <3>2. order' # <<>> /\ order'[1] = key[u] /\ Resident' = Resident
      BY <1>1, <3>1, BooksAfterMove
    <3>3. size'[key[u]] = measured[u]
      BY <1>1, <2>2, <3>1 DEF TypeOK
    <3> QED BY <1>1, <2>1, <2>2, <2>3, <3>2, <3>3 DEF HolderKnown, TypeOK
  <2>4. CASE key[u] \notin Resident
    <3>1. UNCHANGED <<order, size>> /\ Resident' = Resident
      BY <1>5, <2>4 DEF Lock, index, Resident
    <3> QED BY <1>1, <2>1, <2>2, <2>4, <3>1 DEF HolderKnown, TypeOK
  <2> QED BY <2>3, <2>4
<1>6. ASSUME NEW u \in Client, Evict(u) PROVE HolderKnown'
  <2>1. mu = u /\ mu' = u /\ UNCHANGED <<at, key, measured>>
    BY <1>6 DEF Evict, client
  <2>2. Resident' = Resident \ {Last(order)} /\ Last(order) \in Resident
    BY <1>1, <1>6, BooksAfterEvict
  <2>3. ASSUME at[u] = "replacing"
        PROVE  order' # <<>> /\ order'[1] = key[u] /\ size'[key[u]] = measured[u]
    <3> DEFINE n == Len(order)
    <3>1. /\ n \in Nat \ {0} /\ Last(order) = order[n]
          /\ Front(order) \in Seq(Key) /\ Len(Front(order)) = n - 1
          /\ \A i \in 1 .. n - 1 : Front(order)[i] = order[i]
      BY <1>1, <1>6, FrontEffect DEF Evict, OverBudget, Books
    <3>2. DOMAIN order = 1 .. n /\ IsInjective(order)
      BY <1>1, LenProperties DEF Books
    <3>3. order[1] = key[u] /\ size[key[u]] = measured[u]
      BY <1>1, <2>3 DEF HolderKnown
    <3>4. n # 1
      <4> SUFFICES ASSUME n = 1 PROVE FALSE
        OBVIOUS
      <4>1. Resident = {key[u]}
        BY <3>2, <3>3 DEF Resident, ToSet
      <4>2. bytes = size[key[u]]
        <5>1. Resident \ {key[u]} = {} /\ key[u] \in Resident
          BY <4>1
        <5>2. size[key[u]] \in Nat
          BY <1>1, <5>1, SizesAreNat
        <5>3. SumFunctionOnSet(size, Resident \ {key[u]}) = 0
          BY <5>1, SumEmpty
        <5>4. bytes = size[key[u]] + SumFunctionOnSet(size, Resident \ {key[u]})
          BY <1>1, <5>1, EntryCounted
        <5> QED BY ONLY <5>2, <5>3, <5>4
      <4>3. bytes > MaxBytes /\ size[key[u]] <= MaxBytes
        BY <1>1, <1>6, <2>3, <4>1, SizesAreNat, CacheAssumption DEF Evict, OverBudget, CacheAssumption
      <4>4. size[key[u]] \in Nat
        BY <1>1, <4>1, SizesAreNat
      <4> QED BY <4>2, <4>3, <4>4, CacheAssumption DEF CacheAssumption
    <3>5. 1 \in 1 .. n - 1 /\ n # 1 /\ n \in 1 .. n /\ 1 \in 1 .. n
      BY ONLY <3>1, <3>4
    <3> HIDE DEF n
    <3>6. order' = Front(order) /\ size' = [size EXCEPT ![order[n]] = 0]
      BY <1>6, <3>1 DEF Evict
    <3>7. order'[1] = key[u] /\ order' # <<>>
      <4>1. order'[1] = key[u]
        BY <3>1, <3>3, <3>5, <3>6
      <4>2. Len(order') = n - 1
        BY <3>1, <3>6
      <4>3. Len(order') # 0
        BY <3>1, <3>4, <4>2
      <4> QED BY <4>1, <4>3, EmptySeq
    <3>8. order[n] # key[u]
      BY <3>2, <3>3, <3>5 DEF IsInjective
    <3>9. size'[key[u]] = measured[u]
      BY <1>1, <2>3, <3>3, <3>6, <3>8 DEF TypeOK, HolderKnown
    <3> QED BY <3>7, <3>9
  <2> QED BY <1>1, <2>1, <2>2, <2>3 DEF HolderKnown
<1>7. ASSUME NEW u \in Client, InsertReturns(u) PROVE HolderKnown'
  <2>1. /\ mu = u /\ mu' = None /\ at' = [at EXCEPT ![u] = "holding"] /\ key' = key
    BY <1>7 DEF InsertReturns
  <2>2. \A v \in Client : at'[v] \notin {"replacing", "inserting"}
    BY <1>1, <2>1 DEF HolderKnown, TypeOK
  <2> QED BY <1>1, <2>1, <2>2, CacheAssumption DEF HolderKnown, TypeOK, CacheAssumption
<1> QED BY <1>2, <1>3, <1>4, <1>5, <1>6, <1>7, NextSteps

(***************************************************************************)
(* Clients at work, and the disk                                           *)
(***************************************************************************)

(* Who is at work on k after each action.                                  *)
LEMMA WorkersStay ==
  ASSUME TypeOK, NEW u \in Client, key' = key,
         at'[u] \in Working <=> at[u] \in Working,
         \A v \in Client \ {u} : at'[v] = at[v]
  PROVE  \A k \in Key : Workers(k)' = Workers(k)
BY DEF Workers, TypeOK

LEMMA WorkersLeave ==
  ASSUME TypeOK, NEW u \in Client, at'[u] \notin Working,
         \A v \in Client \ {u} : at'[v] = at[v] /\ key'[v] = key[v]
  PROVE  \A k \in Key : Workers(k)' = Workers(k) \ {u}
BY DEF Workers, TypeOK

LEMMA WorkersJoin ==
  ASSUME TypeOK, NEW u \in Client, NEW k \in Key, GetMisses(u, k)
  PROVE  \A j \in Key : Workers(j)' = IF j = k THEN Workers(j) \cup {u} ELSE Workers(j)
<1>1. /\ at[u] = "idle" /\ at' = [at EXCEPT ![u] = "missed"] /\ key' = [key EXCEPT ![u] = k]
  BY DEF GetMisses, Go
<1> QED BY <1>1 DEF Workers, Working, TypeOK

LEMMA StepWhole ==
  ASSUME IndInv, [Next]_vars
  PROVE  WithinWhole'
<1>1. TypeOK /\ HolderKnown /\ WithinWhole
  BY DEF IndInv, Accounted
<1>2. TypeOK' /\ HolderKnown'
  BY StepTypes, StepHolder
<1>3. /\ \A k \in Key : size[k] <= SizeOf[k] /\ (disk[k] # None => disk[k] <= SizeOf[k])
      /\ \A u \in Client : Measured(u) => measured[u] <= SizeOf[key[u]]
  BY <1>1 DEF WithinWhole, Workers, Working, Measured, HolderKnown
<1> DEFINE Goal ==
      /\ \A k \in Key : size[k] <= SizeOf[k] /\ (disk[k] # None => disk[k] <= SizeOf[k])
      /\ \A u \in Client : Measured(u) => measured[u] <= SizeOf[key[u]]
<1>4. Goal'
  <2> USE <1>1, <1>3, CacheAssumption DEF TypeOK, CacheAssumption, Measured
  <2>1. CASE UNCHANGED vars
    BY <2>1 DEF vars, index, client
  <2>2. ASSUME NEW u \in Client, NEW k \in Key, GetHits(u, k) PROVE Goal'
    BY <2>2 DEF GetHits, Go
  <2>3. ASSUME NEW u \in Client, NEW k \in Key, GetMisses(u, k) PROVE Goal'
    BY <2>3 DEF GetMisses, Go, index
  <2>4. ASSUME NEW u \in Client, FetchBegins(u) PROVE Goal'
    BY <2>4 DEF FetchBegins, Go, index
  <2>5. ASSUME NEW u \in Client, FetchEnds(u) PROVE Goal'
    BY <2>5 DEF FetchEnds, Go, index
  <2>6. ASSUME NEW u \in Client, FetchFails(u) PROVE Goal'
    BY <2>6 DEF FetchFails, Leaves, Go, index
  <2>7. ASSUME NEW u \in Client, Measure(u) PROVE Goal'
    BY <2>7 DEF Measure, MayEnter, Go, index, HolderKnown
  <2>8. ASSUME NEW u \in Client, InsertRefused(u) PROVE Goal'
    BY <2>8 DEF InsertRefused, Leaves, Go, index
  <2>9. ASSUME NEW u \in Client, Lock(u) PROVE Goal'
    <3>1. /\ at[u] = "measured" /\ disk' = disk /\ key' = key /\ measured' = measured
          /\ \A v \in Client \ {u} : at'[v] = at[v]
          /\ size' = size \/ size' = [size EXCEPT ![key[u]] = measured[u]]
      BY <2>9 DEF Lock, Go, index
    <3>2. measured[u] <= SizeOf[key[u]]
      BY <3>1
    <3>3. \A k \in Key : size'[k] <= SizeOf[k]
      BY <3>1, <3>2
    <3> QED BY <3>1, <3>2, <3>3
  <2>10. ASSUME NEW u \in Client, Evict(u) PROVE Goal'
    <3>1. Last(order) \in Key
      BY <2>10, BooksHold, BooksAfterEvict, SizesAreNat
    <3> QED BY <2>10, <3>1 DEF Evict, client
  <2>11. ASSUME NEW u \in Client, InsertReturns(u) PROVE Goal'
    <3>1. /\ mu = u /\ disk' = disk /\ key' = key /\ at'[u] = "holding"
          /\ \A v \in Client \ {u} : at'[v] = at[v] /\ measured'[v] = measured[v]
          /\ size' = size \/ size' = [size EXCEPT ![key[u]] = measured[u]]
      BY <2>11 DEF InsertReturns, index
    <3>2. measured[u] <= SizeOf[key[u]]
      BY <3>1 DEF HolderKnown
    <3>3. \A k \in Key : size'[k] <= SizeOf[k]
      BY <3>1, <3>2
    <3> QED BY <3>1, <3>3
  <2>12. ASSUME NEW u \in Client, Release(u) PROVE Goal'
    BY <2>12 DEF Release, Leaves, Go, index
  <2> QED BY <2>1, <2>2, <2>3, <2>4, <2>5, <2>6, <2>7, <2>8, <2>9, <2>10, <2>11, <2>12 DEF Next
<1> QED BY <1>4 DEF WithinWhole, Workers, Measured

(* The books and the disk, as in Accounted.                                *)
Agree ==
  /\ \A k \in Resident \ overlap : disk[k] = size[k]
  /\ \A k \in Key : disk[k] # None => k \in Resident \cup leftover \/ Workers(k) # {}

(* Each action that touches neither the index nor the lock keeps both.     *)
LEMMA AsideKeeps ==
  ASSUME TypeOK, OneFetch, Agree, HolderKnown, NEW u \in Client, Aside(u)
  PROVE  OneFetch' /\ Agree'
<1>0. UNCHANGED <<order, size>> /\ Resident' = Resident
  BY AsideSteps
<1>1. CASE \E k \in Key : GetMisses(u, k)
  <2>1. PICK k \in Key : GetMisses(u, k)
    BY <1>1
  <2>2. \A j \in Key : Workers(j)' = IF j = k THEN Workers(j) \cup {u} ELSE Workers(j)
    BY <2>1, WorkersJoin
  <2>3. /\ at[u] = "idle" /\ at' = [at EXCEPT ![u] = "missed"] /\ UNCHANGED <<disk, measured, leftover>>
        /\ k \notin Resident /\ overlap' = IF Workers(k) # {} THEN overlap \cup {k} ELSE overlap
    BY <2>1 DEF GetMisses, Go
  <2>4. OneFetch'
    <3> SUFFICES ASSUME NEW j \in Key \ overlap'
                 PROVE  /\ \A v, w \in Workers(j)' : v = w
                        /\ j \in Resident' => Workers(j)' = {}
                        /\ \A v \in Workers(j)' : Measured(v)' => disk'[j] = measured'[v]
      BY DEF OneFetch
    <3>1. j \notin overlap
      BY <2>3
    <3>2. CASE j = k
      <4>1. Workers(j)' = {u} /\ ~Measured(u)'
        BY <2>2, <2>3, <3>2 DEF Measured, TypeOK
      <4> QED BY <1>0, <2>3, <3>2, <4>1
    <3>3. CASE j # k
      <4>1. Workers(j)' = Workers(j) /\ \A v \in Workers(j) : Measured(v)' => Measured(v)
        BY <2>2, <2>3, <3>3 DEF Measured, TypeOK, Workers
      <4> QED BY <1>0, <2>3, <3>1, <4>1 DEF OneFetch
    <3> QED BY <3>2, <3>3
  <2>5. Agree'
    BY <1>0, <2>2, <2>3 DEF Agree
  <2> QED BY <2>4, <2>5
<1>2. CASE FetchBegins(u) \/ FetchEnds(u) \/ Measure(u)
  <2>1. /\ key' = key /\ overlap' = overlap /\ at[u] \in Working /\ at'[u] \in Working
        /\ \A v \in Client \ {u} : at'[v] = at[v] /\ measured'[v] = measured[v]
        /\ \A k \in Key : k # key[u] => disk'[k] = disk[k]
        /\ leftover' = leftover \/ leftover' = leftover \ {key[u]}
        /\ Measured(u)' => disk'[key[u]] = measured'[u]
    <3>1. CASE FetchBegins(u)
      BY <3>1 DEF FetchBegins, Go, Working, Measured, TypeOK
    <3>2. CASE FetchEnds(u)
      BY <3>2 DEF FetchEnds, Go, Working, Measured, TypeOK
    <3>3. CASE Measure(u)
      BY <3>3 DEF Measure, Go, Working, Measured, TypeOK
    <3> QED BY <1>2, <3>1, <3>2, <3>3
  <2>2. \A k \in Key : Workers(k)' = Workers(k)
    BY <2>1, WorkersStay
  <2>3. key[u] \in Key /\ u \in Workers(key[u])
    BY <2>1 DEF Workers, Working, HolderKnown
  <2>4. OneFetch'
    <3>1. \A k \in Key : \A v \in Workers(k) : v \in Client /\ key[v] = k
      BY DEF Workers
    <3> QED BY <1>0, <2>1, <2>2, <2>3, <3>1 DEF OneFetch, Measured
  <2>5. Agree'
    <3>1. Resident \subseteq Key
      BY ToSetFinite DEF TypeOK, Resident
    <3> QED BY <1>0, <2>1, <2>2, <2>3, <3>1 DEF OneFetch, Agree
  <2> QED BY <2>4, <2>5
<1>3. CASE FetchFails(u) \/ InsertRefused(u)
  <2>1. /\ at[u] \in Working /\ at'[u] = "idle" /\ GivesUp(u, key[u]) /\ disk' = disk
        /\ \A v \in Client \ {u} : at'[v] = at[v] /\ key'[v] = key[v] /\ measured'[v] = measured[v]
    <3>1. CASE FetchFails(u)
      BY <3>1 DEF FetchFails, Leaves, Go, Working, TypeOK
    <3>2. CASE InsertRefused(u)
      BY <3>2 DEF InsertRefused, Leaves, Go, Working, TypeOK
    <3> QED BY <1>3, <3>1, <3>2
  <2>2. \A k \in Key : Workers(k)' = Workers(k) \ {u}
    BY <2>1, WorkersLeave DEF Working
  <2>3. key[u] \in Key /\ \A k \in Key : u \in Workers(k) <=> k = key[u]
    BY <2>1 DEF Workers, Working, HolderKnown
  <2>4. OneFetch'
    <3>1. \A k \in Key : \A v \in Workers(k) : v \in Client
      BY DEF Workers
    <3>2. \A k \in Key \ overlap' : k \in overlap => k \notin Resident /\ Workers(k)' = {}
      BY <2>1, <2>2 DEF GivesUp
    <3> QED BY <1>0, <2>1, <2>2, <3>1, <3>2 DEF OneFetch, Measured
  <2>5. Agree'
    BY <1>0, <2>1, <2>2, <2>3 DEF OneFetch, Agree, GivesUp
  <2> QED BY <2>4, <2>5
<1>4. CASE Release(u)
  <2>1. /\ at[u] = "holding" /\ at'[u] = "idle" /\ UNCHANGED <<disk, overlap, leftover>>
        /\ \A v \in Client \ {u} : at'[v] = at[v] /\ key'[v] = key[v] /\ measured'[v] = measured[v]
    BY <1>4 DEF Release, Leaves, Go, TypeOK
  <2>2. \A k \in Key : Workers(k)' = Workers(k) \ {u}
    BY <2>1, WorkersLeave DEF Working
  <2>3. \A k \in Key : u \notin Workers(k) /\ Workers(k) \subseteq Client
    BY <2>1 DEF Workers, Working
  <2> QED BY <1>0, <2>1, <2>2, <2>3 DEF OneFetch, Agree, Measured
<1> QED BY <1>1, <1>2, <1>3, <1>4 DEF Aside

LEMMA StepDisk ==
  ASSUME IndInv, [Next]_vars
  PROVE  OneFetch' /\ Agree'
<1>1. TypeOK /\ HolderKnown /\ OneFetch /\ Agree /\ Books
  BY BooksHold DEF IndInv, Accounted, Agree
<1>2. CASE UNCHANGED vars
  <2>1. \A k \in Key : Workers(k)' = Workers(k)
    BY <1>2 DEF vars, client, Workers
  <2> QED BY <1>1, <1>2, <2>1 DEF vars, index, client, OneFetch, Agree, Measured, Resident
<1>3. ASSUME NEW u \in Client, NEW k \in Key, GetHits(u, k) PROVE OneFetch' /\ Agree'
  <2>1. /\ at[u] = "idle" /\ at'[u] = "holding" /\ UNCHANGED <<disk, overlap, leftover, measured, size>>
        /\ \A v \in Client \ {u} : at'[v] = at[v] /\ key'[v] = key[v]
    BY <1>1, <1>3 DEF GetHits, Go, TypeOK
  <2>2. \A j \in Key : Workers(j)' = Workers(j) \ {u}
    BY <1>1, <2>1, WorkersLeave DEF Working
  <2>3. \A j \in Key : u \notin Workers(j) /\ Workers(j) \subseteq Client
    BY <2>1 DEF Workers, Working
  <2>4. Resident' = Resident
    BY <1>1, <1>3, BooksAfterMove DEF GetHits
  <2> QED BY <1>1, <2>1, <2>2, <2>3, <2>4 DEF OneFetch, Agree, Measured
<1>4. ASSUME NEW u \in Client, Aside(u) PROVE OneFetch' /\ Agree'
  BY <1>1, <1>4, AsideKeeps
<1>5. ASSUME NEW u \in Client, Lock(u) PROVE OneFetch' /\ Agree'
  <2> DEFINE k == key[u]
  <2>1. /\ at[u] = "measured" /\ at'[u] \in {"replacing", "inserting"}
        /\ UNCHANGED <<disk, overlap, key, measured>> /\ leftover' = leftover \ {k}
        /\ \A v \in Client \ {u} : at'[v] = at[v]
    BY <1>1, <1>5 DEF Lock, Go, TypeOK
  <2>2. \A j \in Key : Workers(j)' = Workers(j)
    BY <1>1, <2>1, WorkersStay DEF Working
  <2>3. k \in Key /\ u \in Workers(k)
    BY <1>1, <2>1 DEF Workers, Working, HolderKnown
  <2>4. Resident' = Resident /\ \A j \in Key : j # k => size'[j] = size[j]
    <3>1. CASE k \in Resident
      BY <1>1, <1>5, <3>1, BooksAfterMove DEF Lock, TypeOK
    <3>2. CASE k \notin Resident
      BY <1>5, <3>2 DEF Lock, index, Resident
    <3> QED BY <3>1, <3>2
  <2>5. k \in Resident => k \in overlap
    BY <1>1, <2>3 DEF OneFetch
  <2>6. OneFetch'
    <3>1. \A j \in Key : \A v \in Workers(j) : v \in Client /\ (Measured(v)' <=> Measured(v))
      BY <2>1 DEF Workers, Measured
    <3> QED BY <1>1, <2>1, <2>2, <2>4, <3>1 DEF OneFetch
  <2>7. Agree'
    <3>1. Resident \subseteq Key
      BY <1>1, ToSetFinite DEF Books, Resident
    <3> QED BY <1>1, <2>1, <2>2, <2>3, <2>4, <2>5, <3>1 DEF Agree
  <2> QED BY <2>6, <2>7
<1>6. ASSUME NEW u \in Client, Evict(u) PROVE OneFetch' /\ Agree'
  <2> DEFINE t == Last(order)
  <2>1. t \in Resident /\ Resident' = Resident \ {t}
    BY <1>1, <1>6, BooksAfterEvict
  <2>2. Resident \subseteq Key
    BY <1>1, ToSetFinite DEF Books, Resident
  <2>3. /\ disk' = [disk EXCEPT ![t] = None] /\ size' = [size EXCEPT ![t] = 0]
        /\ overlap' = IF Workers(t) # {} THEN overlap ELSE overlap \ {t}
        /\ UNCHANGED <<at, key, measured, leftover>>
    BY <1>6 DEF Evict, client
  <2>4. \A j \in Key : Workers(j)' = Workers(j)
    BY <2>3 DEF Workers
  <2> HIDE DEF t
  <2>5. \A j \in Key : j # t => disk'[j] = disk[j] /\ size'[j] = size[j]
    BY <1>1, <2>3 DEF TypeOK
  <2>6. disk'[t] = None
    BY <1>1, <2>1, <2>2, <2>3 DEF TypeOK
  <2>7. OneFetch'
    BY <1>1, <2>1, <2>2, <2>3, <2>4, <2>5 DEF OneFetch, Measured
  <2>8. Agree'
    BY <1>1, <2>1, <2>2, <2>3, <2>4, <2>5, <2>6 DEF Agree
  <2> QED BY <2>7, <2>8
<1>7. ASSUME NEW u \in Client, InsertReturns(u) PROVE OneFetch' /\ Agree'
  <2> DEFINE k == key[u]
  <2>1. /\ mu = u /\ at[u] \in {"replacing", "inserting"} /\ at'[u] = "holding"
        /\ UNCHANGED <<disk, overlap, leftover, key>>
        /\ \A v \in Client \ {u} : at'[v] = at[v] /\ key'[v] = key[v] /\ measured'[v] = measured[v]
    BY <1>1, <1>7 DEF InsertReturns, TypeOK, HolderKnown
  <2>2. \A j \in Key : Workers(j)' = Workers(j) \ {u}
    BY <1>1, <2>1, WorkersLeave DEF Working
  <2>3. k \in Key /\ \A j \in Key : Workers(j) \subseteq Client /\ (u \in Workers(j) <=> j = k)
    BY <1>1, <2>1 DEF Workers, Working, HolderKnown
  <2>4. k \in Resident' /\ Resident' = Resident \cup {k}
    <3>1. CASE at[u] = "inserting"
      <4>1. k \notin Resident /\ measured[u] \in 0 .. MaxBytes
        BY <1>1, <3>1 DEF HolderKnown, TypeOK
      <4>2. /\ order' = <<k>> \o order /\ size' = [size EXCEPT ![k] = measured[u]]
            /\ bytes' = bytes + measured[u]
        BY <1>7, <3>1 DEF InsertReturns
      <4> QED BY <1>1, <2>3, <4>1, <4>2, BooksAfterPush
    <3>2. CASE at[u] = "replacing"
      <4>1. order # <<>> /\ order[1] = k /\ order' = order
        BY <1>1, <1>7, <3>2 DEF HolderKnown, InsertReturns, index
      <4>2. k \in Resident
        BY <1>1, <4>1, FirstAfter, AfterMember DEF Books, Resident
      <4> QED BY <4>1, <4>2 DEF Resident
    <3> QED BY <2>1, <3>1, <3>2
  <2>5. \/ UNCHANGED size /\ at[u] = "replacing"
        \/ size' = [size EXCEPT ![k] = measured[u]] /\ at[u] = "inserting"
    BY <1>7, <2>1 DEF InsertReturns, index
  <2> HIDE DEF k
  <2>6. OneFetch'
    BY <1>1, <2>1, <2>2, <2>3, <2>4 DEF OneFetch, Measured
  <2>7. k \notin overlap => disk[k] = size'[k]
    <3>1. k \notin overlap => disk[k] = measured[u]
      BY <1>1, <2>1, <2>3 DEF OneFetch, Measured
    <3>2. at[u] = "replacing" => size[k] = measured[u]
      BY <1>1 DEF HolderKnown, k
    <3> QED BY <1>1, <2>3, <2>5, <3>1, <3>2 DEF TypeOK
  <2>8. Agree'
    <3>1. \A j \in Key : j # k => size'[j] = size[j]
      BY <1>1, <2>5 DEF TypeOK
    <3>2. Resident' \subseteq Key
      BY StepBooks
    <3> QED BY <1>1, <2>1, <2>2, <2>3, <2>4, <2>7, <3>1, <3>2 DEF Agree
  <2> QED BY <2>6, <2>8
<1> QED BY <1>2, <1>3, <1>4, <1>5, <1>6, <1>7, NextSteps

(***************************************************************************)
(* The budget                                                              *)
(***************************************************************************)

LEMMA StepBudget ==
  ASSUME IndInv, [Next]_vars
  PROVE  mu' = None => bytes' <= MaxBytes
<1>1. TypeOK /\ HolderKnown /\ Books /\ (mu = None => bytes <= MaxBytes)
  BY BooksHold DEF IndInv, Accounted
<1>2. CASE UNCHANGED vars
  BY <1>1, <1>2 DEF vars, index
<1>3. ASSUME NEW u \in Client, NEW k \in Key, GetHits(u, k) PROVE mu' = None => bytes' <= MaxBytes
  BY <1>1, <1>3 DEF GetHits
<1>4. ASSUME NEW u \in Client, Aside(u) PROVE mu' = None => bytes' <= MaxBytes
  BY <1>1, <1>4, AsideSteps
<1>5. ASSUME NEW u \in Client, Lock(u) \/ Evict(u) PROVE mu' = None => bytes' <= MaxBytes
  BY <1>5, CacheAssumption DEF Lock, Evict, CacheAssumption
<1>6. ASSUME NEW u \in Client, InsertReturns(u) PROVE mu' = None => bytes' <= MaxBytes
  <2>1. /\ measured[u] \in 0 .. MaxBytes /\ bytes \in Nat /\ MaxBytes \in Nat
        /\ at[u] \in {"replacing", "inserting"}
    BY <1>1, <1>6, CacheAssumption DEF TypeOK, CacheAssumption, HolderKnown, InsertReturns
  <2>2. order = <<>> => bytes = 0
    <3>1. order = <<>> => Resident = {}
      BY DEF Resident, ToSet
    <3> QED BY <1>1, <3>1, SumEmpty DEF Books
  <2>3. CASE at[u] = "inserting"
    <3>1. bytes' = bytes + measured[u]
      BY <1>6, <2>3 DEF InsertReturns
    <3>2. order = <<>> \/ ~(bytes + measured[u] > MaxBytes)
      BY <1>6, <2>3 DEF InsertReturns, OverBudget
    <3> QED BY <2>1, <2>2, <3>1, <3>2
  <2>4. CASE at[u] = "replacing"
    <3>1. bytes' = bytes /\ (order = <<>> \/ ~(bytes + 0 > MaxBytes))
      BY <1>6, <2>4 DEF InsertReturns, OverBudget, index
    <3> QED BY <2>1, <2>2, <3>1
  <2> QED BY <2>1, <2>3, <2>4
<1> QED BY <1>2, <1>3, <1>4, <1>5, <1>6, NextSteps

(***************************************************************************)
(* Recency                                                                 *)
(***************************************************************************)

LEMMA AheadIsAfter == ASSUME NEW k, NEW B PROVE Ahead(k, B) <=> After(order, k, B)
BY DEF Ahead, After

LEMMA AheadIsAfterNext == ASSUME NEW k, NEW B PROVE Ahead(k, B)' <=> After(order', k', B')
BY DEF Ahead, After

LEMMA AfterGrows ==
  ASSUME NEW s, NEW x, NEW B, NEW C, B \subseteq C, After(s, x, B)
  PROVE  After(s, x, C)
BY DEF After

(* With more bundles used since, less fits.                                *)
LEMMA WeightGrows ==
  ASSUME NEW B \in SUBSET Key, NEW C \in SUBSET Key, B \subseteq C,
         IsFiniteSet(C), NEW x \in Key
  PROVE  /\ SumFunctionOnSet(SizeOf, B \ {x}) <= SumFunctionOnSet(SizeOf, C \ {x})
         /\ SumFunctionOnSet(SizeOf, B \ {x}) \in Nat
         /\ SumFunctionOnSet(SizeOf, C \ {x}) \in Nat
<1>1. IsFiniteSet(C \ {x}) /\ IsFiniteSet(B \ {x}) /\ B \ {x} \in SUBSET (C \ {x})
  BY FS_Subset
<1>2. \A k \in Key : SizeOf[k] \in Nat /\ SizeOf[k] <= SizeOf[k]
  BY CacheAssumption DEF CacheAssumption
<1>3. SumFunctionOnSet(SizeOf, B \ {x}) <= SumFunctionOnSet(SizeOf, C \ {x})
  BY <1>1, <1>2, SumMonotone
<1> QED BY <1>1, <1>2, <1>3, SumNat

(* evictOneLocked never takes a bundle that is held and that fits: what    *)
(* else is resident, and the bundle being inserted, has been used since.   *)
LEMMA EvictSpares ==
  ASSUME IndInv, NEW u \in Client, Evict(u),
         NEW v \in Client, at[v] = "holding", Fits(v)
  PROVE  key[v] # Last(order)
<1> DEFINE t == Last(order)
           B == since[v]
<1>1. TypeOK /\ HolderKnown /\ Books /\ WithinWhole /\ Recent(v)
  BY BooksHold DEF IndInv, Accounted
<1> SUFFICES ASSUME key[v] = t PROVE FALSE
  OBVIOUS
<1>2. /\ IsFiniteSet(B) /\ B \subseteq Key
      /\ \A w \in Client : at[w] = "inserting" => key[w] \in B
      /\ After(order, t, B)
  BY <1>1, AheadIsAfter DEF Recent, TypeOK
<1>3. t \in Resident /\ t \in Key /\ Resident \subseteq Key /\ Resident \ {t} \subseteq B
  <2>1. t \in Resident /\ Resident \subseteq Key
    BY <1>1, BooksAfterEvict, SizesAreNat
  <2>2. order \in Seq(Key) /\ order # <<>> /\ IsInjective(order)
    BY <1>1 DEF Books, Evict, OverBudget
  <2>3. ToSet(order) \ {t} \subseteq B
    BY <1>2, <2>2, LastAfter
  <2> QED BY <2>1, <2>3 DEF Resident
<1>4. /\ SizeOf[t] + SumFunctionOnSet(SizeOf, B \ {t}) <= MaxBytes
      /\ bytes = size[t] + SumFunctionOnSet(size, Resident \ {t})
      /\ SumFunctionOnSet(size, Resident \ {t}) \in Nat
  BY <1>1, <1>3, EntryCounted DEF Fits
<1>5. \A k \in Key : size[k] \in Nat /\ SizeOf[k] \in Nat /\ size[k] <= SizeOf[k]
  BY <1>1, SizesAreNat DEF WithinWhole
<1>6. MaxBytes \in Nat /\ SumFunctionOnSet(SizeOf, B \ {t}) \in Nat
  BY <1>2, <1>3, WeightGrows, CacheAssumption DEF CacheAssumption
<1>7. mu = u /\ at[u] \in {"replacing", "inserting"}
  BY <1>1 DEF Evict, HolderKnown
<1> HIDE DEF t, B
<1>8. CASE at[u] = "replacing"
  <2>1. bytes > MaxBytes
    <3>1. bytes + 0 > MaxBytes
      BY <1>8 DEF Evict, OverBudget
    <3> QED BY <3>1, <1>1, SizesAreNat
  <2>2. SumFunctionOnSet(size, Resident \ {t}) <= SumFunctionOnSet(SizeOf, B \ {t})
    <3>1. IsFiniteSet(B \ {t}) /\ Resident \ {t} \in SUBSET (B \ {t}) /\ B \ {t} \subseteq Key
      BY <1>2, <1>3, FS_Subset
    <3> QED BY <1>5, <3>1, SumMonotone
  <2> QED BY <1>3, <1>4, <1>5, <1>6, <2>1, <2>2
<1>9. CASE at[u] = "inserting"
  <2> DEFINE k == key[u]
             D == (B \ {t}) \ {k}
  <2>1. k \in B /\ k \in Key /\ k \notin Resident
    BY <1>1, <1>2, <1>9 DEF HolderKnown
  <2>2. bytes + measured[u] > MaxBytes
    BY <1>9 DEF Evict, OverBudget
  <2>3. measured[u] <= SizeOf[k] /\ measured[u] \in Nat
    <3>1. u \in Workers(k) /\ Measured(u)
      BY <1>9 DEF Workers, Working, Measured
    <3> QED BY <1>1, <2>1, <3>1 DEF WithinWhole, TypeOK
  <2>4. k \in B \ {t} /\ IsFiniteSet(B \ {t}) /\ B \ {t} \subseteq Key
    BY <1>2, <1>3, <2>1, FS_Subset
  <2>5. IsFiniteSet(D) /\ D \subseteq Key /\ Resident \ {t} \in SUBSET D
    BY <1>3, <2>1, <2>4, FS_Subset
  <2> HIDE DEF k
  <2>6. SumFunctionOnSet(SizeOf, B \ {t}) = SizeOf[k] + SumFunctionOnSet(SizeOf, D)
    BY <1>5, <2>4, SumTakesOut
  <2> HIDE DEF D
  <2>7. SumFunctionOnSet(size, Resident \ {t}) <= SumFunctionOnSet(SizeOf, D)
    BY <1>5, <2>5, SumMonotone
  <2>8. SumFunctionOnSet(SizeOf, D) \in Nat
    BY <1>5, <2>5, SumNat
  <2>9. size[t] \in Nat /\ SizeOf[t] \in Nat /\ size[t] <= SizeOf[t] /\ SizeOf[k] \in Nat
    BY <1>3, <1>5, <2>1
  <2> QED BY ONLY <1>4, <1>6, <2>2, <2>3, <2>6, <2>7, <2>8, <2>9
<1> QED BY <1>7, <1>8, <1>9

(* k is used: every bundle held before fits no more easily than it did.    *)
LEMMA UsedGrows ==
  ASSUME TypeOK, NEW k \in Key, Used(k), NEW v \in Client, Recent(v),
         at[v] = "holding", key[v] \in Key, key'[v] = key[v]
  PROVE  /\ since'[v] = since[v] \cup {k} /\ IsFiniteSet(since'[v])
         /\ Fits(v)' => Fits(v)
<1>1. since'[v] = since[v] \cup {k} /\ since[v] \in SUBSET Key
  BY DEF Used, TypeOK
<1>2. IsFiniteSet(since[v] \cup {k})
  BY FS_AddElement DEF Recent
<1>3. /\ SumFunctionOnSet(SizeOf, since[v] \ {key[v]})
           <= SumFunctionOnSet(SizeOf, (since[v] \cup {k}) \ {key[v]})
      /\ SumFunctionOnSet(SizeOf, since[v] \ {key[v]}) \in Nat
      /\ SumFunctionOnSet(SizeOf, (since[v] \cup {k}) \ {key[v]}) \in Nat
  BY <1>1, <1>2, WeightGrows
<1>4. SizeOf[key[v]] \in Nat /\ MaxBytes \in Nat
  BY CacheAssumption DEF CacheAssumption
<1>5. Fits(v)' => Fits(v)
  <2>1. Fits(v)' <=>
          SizeOf[key[v]] + SumFunctionOnSet(SizeOf, (since[v] \cup {k}) \ {key[v]}) <= MaxBytes
    BY <1>1 DEF Fits
  <2> QED BY <1>3, <1>4, <2>1 DEF Fits
<1> QED BY <1>1, <1>2, <1>5

LEMMA StepRecent ==
  ASSUME IndInv, [Next]_vars, NEW v \in Client
  PROVE  Recent(v)'
<1>1. /\ TypeOK /\ HolderKnown /\ Books /\ \A w \in Client : Recent(w)
      /\ \A w \in Client : at[w] = "holding" => key[w] \in Key
  BY BooksHold DEF IndInv, Accounted, HolderKnown
<1>2. Books' /\ HolderKnown'
  BY StepBooks, StepHolder
<1>3. IsFiniteSet(since[v])
  BY <1>1 DEF Recent
<1> DEFINE Safe ==
      /\ IsFiniteSet(since[v])
      /\ at[v] = "holding" =>
           /\ \A w \in Client : at[w] = "inserting" => key[w] \in since[v]
           /\ Fits(v) => After(order, key[v], since[v])
<1>4. Safe
  BY <1>1, AheadIsAfter DEF Recent
<1>5. Safe' => Recent(v)'
  BY DEF Recent, Ahead, After
<1>6. CASE UNCHANGED vars
  BY <1>4, <1>5, <1>6 DEF vars, index, client, Fits
<1>7. ASSUME NEW u \in Client, NEW k \in Key, GetHits(u, k) PROVE Safe'
  <2>1. /\ order' \in Seq(Key) /\ order' # <<>> /\ order'[1] = k
        /\ \A x, B : After(order, x, B) => After(order', x, B \cup {k})
    BY <1>1, <1>7, BooksAfterMove DEF GetHits
  <2>2. /\ at[u] = "idle" /\ at' = [at EXCEPT ![u] = "holding"] /\ key' = [key EXCEPT ![u] = k]
        /\ Used(k)
    BY <1>7 DEF GetHits, Go
  <2>3. \A w \in Client : at'[w] # "inserting"
    BY <1>1, <1>7, <2>2, CacheAssumption DEF GetHits, HolderKnown, TypeOK, CacheAssumption
  <2>4. CASE v = u
    <3>1. since'[v] = {} /\ key'[v] = k
      BY <1>1, <2>2, <2>4 DEF Used, TypeOK
    <3>2. After(order', order'[1], {})
      BY <2>1, FirstAfter
    <3> QED BY <2>1, <2>3, <3>1, <3>2, FS_EmptySet
  <2>5. CASE v # u /\ at[v] = "holding"
    <3>1. key'[v] = key[v] /\ at'[v] = at[v] /\ key[v] \in Key
      BY <1>1, <2>2, <2>5 DEF TypeOK
    <3>2. since'[v] = since[v] \cup {k} /\ IsFiniteSet(since'[v]) /\ (Fits(v)' => Fits(v))
      BY <1>1, <2>2, <2>5, <3>1, UsedGrows
    <3> QED BY <1>4, <2>1, <2>3, <2>5, <3>1, <3>2
  <2>6. CASE v # u /\ at[v] # "holding"
    BY <1>1, <2>2, <2>6, FS_EmptySet DEF Used, TypeOK
  <2> QED BY <2>4, <2>5, <2>6
<1>8. ASSUME NEW u \in Client, Aside(u) PROVE Safe'
  <2>1. order' = order
    BY <1>8, AsideSteps
  <2>2. /\ \A w \in Client \ {u} : at'[w] = at[w] /\ key'[w] = key[w]
        /\ at'[u] \notin {"replacing", "inserting", "holding"}
    BY <1>1, <1>8, AsideMoves
  <2>3. since' = since \/ since' = [since EXCEPT ![u] = {}]
    BY <1>8 DEF Aside, GetMisses, FetchBegins, FetchEnds, FetchFails, Measure, InsertRefused, Release
  <2>4. CASE v = u
    <3>1. IsFiniteSet(since'[v])
      BY <1>1, <1>3, <2>3, <2>4, FS_EmptySet DEF TypeOK
    <3> QED BY <2>2, <2>4, <3>1
  <2>5. CASE v # u
    <3>1. since'[v] = since[v]
      BY <1>1, <2>3, <2>5 DEF TypeOK
    <3>2. Fits(v)' <=> Fits(v)
      BY <2>2, <2>5, <3>1 DEF Fits
    <3> QED BY <1>4, <2>1, <2>2, <2>5, <3>1, <3>2
  <2> QED BY <2>4, <2>5
<1>9. ASSUME NEW u \in Client, Lock(u) PROVE Safe'
  <2> DEFINE k == key[u]
  <2>1. /\ mu = None /\ at[u] = "measured" /\ key' = key /\ Used(k)
        /\ at' = [at EXCEPT ![u] = IF k \in Resident THEN "replacing" ELSE "inserting"]
    BY <1>9 DEF Lock, Go
  <2>2. k \in Key
    BY <1>1, <2>1 DEF HolderKnown
  <2>3. \A w \in Client : at'[w] = "inserting" => w = u
    BY <1>1, <2>1, CacheAssumption DEF HolderKnown, TypeOK, CacheAssumption
  <2>4. \A x, B : After(order, x, B) => After(order', x, B \cup {k})
    <3>1. CASE k \in Resident
      BY <1>1, <1>9, <3>1, BooksAfterMove DEF Lock
    <3>2. CASE k \notin Resident
      <4>1. order' = order
        BY <1>9, <3>2 DEF Lock, index
      <4> QED BY <4>1, AfterGrows
    <3> QED BY <3>1, <3>2
  <2> HIDE DEF k
  <2>5. CASE at[v] = "holding"
    <3>1. at'[v] = "holding" /\ key'[v] = key[v] /\ key[v] \in Key
      BY <1>1, <2>1, <2>5 DEF TypeOK
    <3>2. since'[v] = since[v] \cup {k} /\ IsFiniteSet(since'[v]) /\ (Fits(v)' => Fits(v))
      BY <1>1, <2>1, <2>2, <2>5, <3>1, UsedGrows
    <3>3. key'[u] = k
      BY <2>1 DEF k
    <3> QED BY <1>4, <2>3, <2>4, <2>5, <3>1, <3>2, <3>3
  <2>6. CASE at[v] # "holding"
    <3>1. since'[v] = {} /\ at'[v] # "holding"
      BY <1>1, <2>1, <2>6 DEF Used, TypeOK
    <3> QED BY <3>1, FS_EmptySet
  <2> QED BY <2>5, <2>6
<1>10. ASSUME NEW u \in Client, Evict(u) PROVE Safe'
  <2>1. /\ UNCHANGED <<at, key, since>> /\ (Fits(v)' <=> Fits(v))
    BY <1>10 DEF Evict, client, Fits
  <2>2. ASSUME at[v] = "holding", Fits(v) PROVE After(order', key[v], since[v])
    <3>1. key[v] # Last(order)
      BY <1>10, <2>2, EvictSpares
    <3> QED BY <1>1, <1>4, <1>10, <2>2, <3>1, BooksAfterEvict
  <2> QED BY <1>4, <2>1, <2>2
<1>11. ASSUME NEW u \in Client, InsertReturns(u) PROVE Safe'
  <2> DEFINE k == key[u]
  <2>1. /\ mu = u /\ mu' = None /\ key' = key /\ at' = [at EXCEPT ![u] = "holding"]
        /\ since' = [since EXCEPT ![u] = {}]
    BY <1>11 DEF InsertReturns
  <2>2. at[u] \in {"replacing", "inserting"} /\ k \in Key
    BY <1>1, <2>1 DEF HolderKnown
  <2>3. \A w \in Client : at'[w] # "inserting"
    BY <1>1, <2>1 DEF HolderKnown, TypeOK
  <2>4. /\ After(order', k, {})
        /\ \/ order' = order
           \/ at[u] = "inserting" /\ \A x, B : After(order, x, B) => After(order', x, B \cup {k})
    <3>1. CASE at[u] = "inserting"
      <4>1. k \notin Resident /\ measured[u] \in 0 .. MaxBytes
        BY <1>1, <3>1 DEF HolderKnown, TypeOK
      <4>2. /\ order' = <<k>> \o order /\ size' = [size EXCEPT ![k] = measured[u]]
            /\ bytes' = bytes + measured[u]
        BY <1>11, <3>1 DEF InsertReturns
      <4> QED BY <1>1, <2>2, <3>1, <4>1, <4>2, BooksAfterPush
    <3>2. CASE at[u] = "replacing"
      <4>1. order # <<>> /\ order[1] = k /\ order' = order
        BY <1>1, <1>11, <3>2 DEF HolderKnown, InsertReturns, index
      <4>2. After(order, order[1], {})
        BY <1>1, <4>1, FirstAfter DEF Books
      <4> QED BY <4>1, <4>2
    <3> QED BY <2>2, <3>1, <3>2
  <2>5. CASE v = u
    <3>1. since'[v] = {} /\ key'[v] = k
      BY <1>1, <2>1, <2>5 DEF TypeOK
    <3> QED BY <2>3, <2>4, <3>1, FS_EmptySet
  <2>6. CASE v # u
    <3>1. since'[v] = since[v] /\ key'[v] = key[v] /\ at'[v] = at[v]
      BY <1>1, <2>1, <2>6 DEF TypeOK
    <3>2. Fits(v)' <=> Fits(v)
      BY <3>1 DEF Fits
    <3>3. ASSUME at[v] = "holding", Fits(v) PROVE After(order', key[v], since[v])
      <4>1. After(order, key[v], since[v]) /\ (at[u] = "inserting" => k \in since[v])
        BY <1>4, <3>3
      <4>2. at[u] = "inserting" => since[v] \cup {k} = since[v]
        BY <4>1
      <4> HIDE DEF k
      <4> QED BY <2>4, <4>1, <4>2
    <3> QED BY <1>3, <2>3, <3>1, <3>2, <3>3
  <2> QED BY <2>5, <2>6
<1> HIDE DEF Safe
<1> QED BY <1>5, <1>6, <1>7, <1>8, <1>9, <1>10, <1>11, NextSteps

(***************************************************************************)
(* Theorems                                                                *)
(***************************************************************************)

(* The inductive invariant of the cache holds: books, lock, disk, clients  *)
(* at work and recency, which need one another (NewLocalCache, Get, Insert *)
(* and evictOneLocked).                                                    *)
THEOREM CacheInv == Spec => []IndInv
<1>1. ASSUME IndInv, [Next]_vars PROVE IndInv'
  <2>1. TypeOK' /\ Books' /\ (mu' = None => bytes' <= MaxBytes) /\ Agree'
    BY <1>1, StepTypes, StepBooks, StepBudget, StepDisk
  <2>2. Accounted'
    BY <2>1 DEF Accounted, Books, Agree
  <2>3. HolderKnown' /\ WithinWhole' /\ OneFetch'
    BY <1>1, StepHolder, StepWhole, StepDisk
  <2>4. \A u \in Client : Recent(u)'
    BY <1>1, StepRecent
  <2> QED BY <2>2, <2>3, <2>4 DEF IndInv
<1> QED BY <1>1, InitIndInv, PTL DEF Spec

(* Accounted, whatever the clients do: c.bytes is the sum of the entries   *)
(* and within the budget, and the entries agree with the directories.      *)
THEOREM BooksAgreeWithDisk == Spec => []Accounted
<1>1. IndInv => Accounted
  BY DEF IndInv
<1> QED BY <1>1, CacheInv, PTL

(* A path that Get or Insert has returned is not evicted while it and      *)
(* everything used since fit into the budget.                              *)
THEOREM HeldBundlesSurvive == Spec => []RecentSurvives
<1>1. IndInv => RecentSurvives
  BY AheadIsAfter, AfterMember DEF IndInv, Recent, RecentSurvives, Resident
<1> QED BY <1>1, CacheInv, PTL

(***************************************************************************)
(* The LRU index                                                           *)
(***************************************************************************)

(* What LruCache sees, and its operators in those of CacheLemmas.          *)
Seen == IF mu = None THEN IndexNow ELSE before
Weigh(q) == SumFunction([i \in DOMAIN q |-> q[i].size])
Incoming(u) == [key |-> key[u], size |-> measured[u]]

(* What the index is going to be, the entry that is still to come included. *)
Coming(u) == IF at[u] = "inserting" THEN <<Incoming(u)>> \o IndexNow ELSE IndexNow

LEMMA SeenIs ==
  /\ IndexNow = Listing(order, size)
  /\ \A e : Lru!ToTop(e) = Top(Seen, e)
  /\ \A q : Lru!Weight(q) = Weigh(q)
<1>1. IndexNow = Listing(order, size)
  BY DEF IndexNow, Listing
<1>2. ASSUME NEW e PROVE Lru!ToTop(e) = Top(Seen, e)
  BY Zenon DEF Lru!ToTop, Lru!Without, Lru!Of, Lru!RemoveAt, Top, Of, RemoveAt, Seen
<1>3. ASSUME NEW q PROVE Lru!Weight(q) = Weigh(q)
  BY Zenon DEF Lru!Weight, Lru!SumFunction, Lru!SumFunctionOnSet, Lru!FoldFunctionOnSet, Lru!MapThenFoldSet,
               Weigh, SumFunction, SumFunctionOnSet, FoldFunctionOnSet, MapThenFoldSet
<1> QED BY <1>1, <1>2, <1>3

LEMMA SizesTyped == ASSUME Books PROVE order \in Seq(Key) /\ IsInjective(order) /\ size \in [Key -> Nat]
BY CacheAssumption DEF Books, CacheAssumption

LEMMA IndexWeight == ASSUME Books PROVE Weigh(IndexNow) = bytes
<1>1. Weigh(Listing(order, size)) = SumFunctionOnSet(size, ToSet(order))
  BY SizesTyped, SumOfListing DEF Weigh
<1> QED BY <1>1, SeenIs DEF Books, Resident

LEMMA IndexTyped ==
  ASSUME Books
  PROVE  IndexNow \in Seq(EntrySet(Key)) /\ Len(IndexNow) = Len(order) /\ Len(order) \in Nat
<1>1. order \in Seq(Key) /\ size \in [Key -> Nat]
  BY SizesTyped
<1>2. Listing(order, size) \in Seq(EntrySet(Key)) /\ Len(Listing(order, size)) = Len(order)
  BY ONLY <1>1, ListingIsSeq
<1>3. Len(order) \in Nat
  BY <1>1, LenProperties
<1> QED BY <1>2, <1>3, SeenIs

(* The new entry is one more at the front.                                 *)
LEMMA ComingOfNew ==
  ASSUME Books, TypeOK, HolderKnown, NEW u \in Client, at[u] = "inserting"
  PROVE  /\ Coming(u) = Listing(<<key[u]>> \o order, [size EXCEPT ![key[u]] = measured[u]])
         /\ Coming(u) \in Seq(EntrySet(Key)) /\ Len(Coming(u)) = Len(order) + 1
         /\ Weigh(Coming(u)) = bytes + measured[u]
<1> DEFINE k == key[u]
           n == measured[u]
           y == [size EXCEPT ![k] = n]
<1>1. k \in Key /\ k \notin Resident /\ n \in Nat
  BY CacheAssumption DEF HolderKnown, TypeOK, CacheAssumption
<1>2. order \in Seq(Key) /\ IsInjective(order) /\ size \in [Key -> Nat] /\ k \notin ToSet(order)
  BY <1>1, SizesTyped DEF Resident
<1>3. y \in [Key -> Nat] /\ y[k] = n /\ \A j \in Resident : y[j] = size[j]
  BY <1>1, <1>2, SizesAreNat
<1>4. Coming(u) = <<[key |-> k, size |-> n]>> \o Listing(order, size)
  BY SeenIs DEF Coming, Incoming
<1>0. y = [size EXCEPT ![k] = n]
  OBVIOUS
<1> HIDE DEF y, k, n
<1>5. Listing(<<k>> \o order, y) = <<[key |-> k, size |-> n]>> \o Listing(order, size)
  BY ONLY <1>0, <1>1, <1>2, ListingPushed
<1>6. /\ <<k>> \o order \in Seq(Key) /\ Len(<<k>> \o order) = Len(order) + 1
      /\ ToSet(<<k>> \o order) = Resident \cup {k} /\ IsInjective(<<k>> \o order)
  <2>1. <<k>> \o order \in Seq(Key) /\ Len(<<k>> \o order) = Len(order) + 1
    BY ONLY <1>1, <1>2, FirstEffect
  <2>2. ToSet(<<k>> \o order) = ToSet(order) \cup {k} /\ IsInjective(<<k>> \o order)
    BY ONLY <1>1, <1>2, FirstKeeps
  <2> QED BY ONLY <2>1, <2>2 DEF Resident
<1> DEFINE t == <<k>> \o order
<1> HIDE DEF t
<1>7. t \in Seq(Key) /\ Len(t) = Len(order) + 1 /\ ToSet(t) = Resident \cup {k} /\ IsInjective(t)
  BY ONLY <1>6 DEF t
<1>8. Listing(t, y) \in Seq(EntrySet(Key)) /\ Len(Listing(t, y)) = Len(t)
  BY ONLY <1>3, <1>7, ListingIsSeq
<1>9. Weigh(Listing(t, y)) = SumFunctionOnSet(y, Resident \cup {k})
  <2>1. Weigh(Listing(t, y)) = SumFunctionOnSet(y, ToSet(t))
    BY ONLY <1>3, <1>7, SumOfListing DEF Weigh
  <2> QED BY ONLY <1>7, <2>1
<1>10. SumFunctionOnSet(y, Resident \cup {k}) = bytes + n
  <2>1. IsFiniteSet(Resident) /\ Resident \subseteq Key /\ bytes \in Nat
    BY SizesAreNat
  <2>2. SumFunctionOnSet(y, Resident \cup {k}) = y[k] + SumFunctionOnSet(y, Resident)
    <3>1. \A j \in Resident \cup {k} : y[j] \in Nat
      BY <1>1, <1>3, <2>1
    <3> QED BY <1>1, <2>1, <3>1, SumAdds
  <2>3. SumFunctionOnSet(y, Resident) = SumFunctionOnSet(size, Resident)
    BY ONLY <1>3, <2>1, SumSame
  <2>4. SumFunctionOnSet(size, Resident) = bytes
    BY DEF Books
  <2> QED BY ONLY <1>1, <1>3, <2>1, <2>2, <2>3, <2>4
<1>11. Coming(u) = Listing(t, y)
  BY ONLY <1>4, <1>5 DEF t
<1>12. Coming(u) \in Seq(EntrySet(Key)) /\ Len(Coming(u)) = Len(order) + 1 /\ Weigh(Coming(u)) = bytes + n
  BY ONLY <1>7, <1>8, <1>9, <1>10, <1>11
<1> QED BY ONLY <1>11, <1>12 DEF t, y, k, n

LEMMA ComingTyped ==
  ASSUME Books, TypeOK, HolderKnown, NEW u \in Client, mu = u
  PROVE  /\ Coming(u) \in Seq(EntrySet(Key)) /\ Len(Coming(u)) \in Nat \ {0}
         /\ Weigh(Coming(u)) = bytes + (IF at[u] = "inserting" THEN measured[u] ELSE 0)
<1>1. at[u] \in {"replacing", "inserting"} /\ bytes \in Nat
  BY DEF HolderKnown, TypeOK
<1>2. IndexNow \in Seq(EntrySet(Key)) /\ Len(IndexNow) = Len(order) /\ Len(order) \in Nat
  BY IndexTyped
<1>3. CASE at[u] = "inserting"
  <2>1. /\ Coming(u) \in Seq(EntrySet(Key)) /\ Len(Coming(u)) = Len(order) + 1
        /\ Weigh(Coming(u)) = bytes + measured[u]
    BY <1>3, ComingOfNew
  <2>2. Len(Coming(u)) \in Nat \ {0}
    BY ONLY <1>2, <2>1
  <2> QED BY <1>3, <2>1, <2>2
<1>4. CASE at[u] = "replacing"
  <2>1. Coming(u) = IndexNow
    BY <1>4 DEF Coming
  <2>2. Len(order) # 0
    <3>1. order # <<>> /\ order \in Seq(Key)
      BY <1>4 DEF HolderKnown, Books
    <3> QED BY ONLY <3>1, EmptySeq
  <2>3. Weigh(IndexNow) = bytes
    BY IndexWeight
  <2> QED BY <1>1, <1>2, <1>4, <2>1, <2>2, <2>3
<1> QED BY <1>1, <1>3, <1>4

TypedComing ==
  \A u \in Client :
    Books /\ TypeOK /\ HolderKnown /\ mu = u =>
      Coming(u) \in Seq(EntrySet(Key)) /\ Len(Coming(u)) \in Nat \ {0}

LEMMA TypedComingNext == TypedComing'
<1>1. TypedComing
  BY ComingTyped DEF TypedComing
<1> QED BY <1>1, PTL

(* While room is made, the index to come is a prefix of what the Insert    *)
(* began with, its own entry at the front, and a longer one was over the   *)
(* budget.                                                                 *)
Room(u) ==
  LET all == Top(Seen, Incoming(u))
      m == Len(Coming(u))
  IN  /\ all \in Seq(EntrySet(Key))
      /\ m \in 1 .. Len(all)
      /\ Coming(u) = SubSeq(all, 1, m)
      /\ m < Len(all) => Weigh(SubSeq(all, 1, m + 1)) > MaxBytes

RoomIsMade == \A u \in Client : mu = u => Room(u)

(* Insert begins with all the entries, its own at the front.               *)
LEMMA LockBegins ==
  ASSUME IndInv, NEW u \in Client, Lock(u)
  PROVE  Coming(u)' = Top(IndexNow, Incoming(u))
<1> DEFINE k == key[u]
           n == measured[u]
           e == [key |-> k, size |-> n]
<1>1. TypeOK /\ HolderKnown /\ Books
  BY BooksHold DEF IndInv, Accounted
<1>2. order \in Seq(Key) /\ IsInjective(order) /\ size \in [Key -> Nat]
  BY <1>1, SizesTyped
<1>3. /\ at[u] = "measured" /\ UNCHANGED <<key, measured>>
      /\ at'[u] = IF k \in Resident THEN "replacing" ELSE "inserting"
  BY <1>1 DEF Lock, Go, TypeOK
<1>4. k \in Key /\ n \in Nat
  BY <1>1, <1>3, CacheAssumption DEF HolderKnown, TypeOK, CacheAssumption
<1>5. e = Incoming(u) /\ e.key = k /\ e.size = n
  BY DEF Incoming
<1>6. IndexNow' = Listing(order', size')
  BY DEF IndexNow, Listing
<1>7. IndexNow = Listing(order, size)
  BY SeenIs
<1>8. CASE k \in Resident
  <2>1. PICK i \in DOMAIN order : order[i] = k /\ order' = ToFront(order, i)
    BY <1>8, ToFrontMoves DEF Lock
  <2>2. size' = [size EXCEPT ![order[i]] = n]
    BY <1>8, <2>1 DEF Lock
  <2>3. Coming(u)' = IndexNow'
    BY <1>3, <1>8 DEF Coming
  <2> HIDE DEF k, n
  <2>4. Listing(order', size') = Replaced(Listing(order, size), i, e)
    <3> DEFINE f == [key |-> order[i], size |-> n]
               o2 == order'
               y == size'
    <3>1. f = e
      BY <2>1
    <3>2. o2 = ToFront(order, i) /\ y = [size EXCEPT ![order[i]] = n]
      BY <2>1, <2>2
    <3> HIDE DEF o2, y
    <3>3. Listing(o2, y) = Replaced(Listing(order, size), i, f)
      BY ONLY <1>2, <1>4, <3>2, i \in DOMAIN order, ListingReplaced
    <3> QED BY ONLY <3>1, <3>3 DEF o2, y
  <2>5. Top(Listing(order, size), e) = Replaced(Listing(order, size), i, e)
    <3>1. e.key = order[i]
      BY <1>5, <2>1
    <3> HIDE DEF e
    <3> QED BY ONLY <1>2, <3>1, i \in DOMAIN order, TopOfOld
  <2> QED BY ONLY <1>5, <1>6, <1>7, <2>3, <2>4, <2>5
<1>9. CASE k \notin Resident
  <2>1. IndexNow' = IndexNow
    BY <1>9 DEF Lock, index, IndexNow
  <2>2. Coming(u)' = <<e>> \o IndexNow
    BY <1>3, <1>9, <2>1 DEF Coming, Incoming
  <2> HIDE DEF e
  <2>3. e.key \notin ToSet(order)
    BY <1>5, <1>9 DEF Resident
  <2>4. Top(Listing(order, size), e) = <<e>> \o Listing(order, size)
    BY ONLY <1>2, <2>3, TopOfNew
  <2> QED BY ONLY <1>5, <1>7, <2>2, <2>4
<1> QED BY <1>8, <1>9

LEMMA LockMakesRoom ==
  ASSUME IndInv, TypeOK', Books', HolderKnown', NEW u \in Client, Lock(u)
  PROVE  Room(u)'
<1>1. mu' = u /\ u # None /\ before' = IndexNow /\ Incoming(u)' = Incoming(u)
  BY CacheAssumption DEF Lock, CacheAssumption, Incoming
<1>2. Seen' = IndexNow
  BY <1>1 DEF Seen
<1>3. Coming(u)' = Top(IndexNow, Incoming(u))
  BY LockBegins
<1>4. Coming(u)' \in Seq(EntrySet(Key)) /\ Len(Coming(u)') \in Nat \ {0}
  BY <1>1, TypedComingNext DEF TypedComing
<1> DEFINE c == Coming(u)'
<1>5. Top(Seen, Incoming(u))' = c
  BY <1>1, <1>2, <1>3
<1> HIDE DEF c
<1>6. c \in Seq(EntrySet(Key)) /\ Len(c) \in Nat \ {0}
  BY <1>4 DEF c
<1>7. SubSeq(c, 1, Len(c)) = c
  BY ONLY <1>6, SubSeqFull
<1>8. Len(c) \in 1 .. Len(c) /\ ~(Len(c) < Len(c))
  BY ONLY <1>6
<1> QED BY <1>5, <1>6, <1>7, <1>8 DEF Room, c

LEMMA FrontOfPushed ==
  ASSUME NEW S, NEW s \in Seq(S), s # <<>>, NEW e \in S
  PROVE  Front(<<e>> \o s) = <<e>> \o Front(s)
<1> DEFINE n == Len(s)
           t == <<e>> \o s
           f == Front(t)
           g == <<e>> \o Front(s)
<1>1. /\ n \in Nat \ {0} /\ Front(s) \in Seq(S) /\ Len(Front(s)) = n - 1
      /\ \A i \in 1 .. n - 1 : Front(s)[i] = s[i]
  BY FrontEffect
<1>2. t \in Seq(S) /\ Len(t) = n + 1 /\ t[1] = e /\ \A i \in 1 .. n : t[i + 1] = s[i]
  BY FirstEffect
<1> HIDE DEF t
<1>3. t # <<>>
  BY <1>1, <1>2
<1>4. f \in Seq(S) /\ Len(f) = Len(t) - 1 /\ \A i \in 1 .. Len(t) - 1 : f[i] = t[i]
  BY ONLY <1>2, <1>3, FrontEffect
<1>5. /\ g \in Seq(S) /\ Len(g) = Len(Front(s)) + 1 /\ g[1] = e
      /\ \A i \in 1 .. Len(Front(s)) : g[i + 1] = Front(s)[i]
  BY <1>1, FirstEffect
<1> HIDE DEF n, f, g
<1>6. Len(f) = n /\ Len(g) = n
  BY <1>1, <1>2, <1>4, <1>5
<1>7. ASSUME NEW i \in 1 .. n PROVE f[i] = g[i]
  <2>1. CASE i = 1
    BY <1>1, <1>2, <1>4, <1>5, <2>1
  <2>2. CASE i # 1
    <3>1. i - 1 \in 1 .. n - 1 /\ i - 1 + 1 = i
      BY ONLY <1>1, <1>7, <2>2
    <3>2. g[i] = s[i - 1]
      BY ONLY <1>1, <1>5, <3>1
    <3>3. f[i] = s[i - 1]
      BY ONLY <1>1, <1>2, <1>4, <3>1, <1>7
    <3> QED BY <3>2, <3>3
  <2> QED BY <2>1, <2>2
<1>8. \A i \in 1 .. Len(f) : f[i] = g[i]
  BY <1>6, <1>7
<1> QED BY ONLY <1>4, <1>5, <1>6, <1>8, SeqEqual DEF f, g, t

LEMMA PrefixShrinks ==
  ASSUME NEW S, NEW all \in Seq(S), NEW m \in 1 .. Len(all), NEW c, c = SubSeq(all, 1, m),
         Len(Front(c)) \in Nat \ {0}
  PROVE  /\ Len(Front(c)) = m - 1 /\ m - 1 \in 1 .. Len(all)
         /\ Front(c) = SubSeq(all, 1, m - 1)
<1>1. Len(all) \in Nat /\ \A i \in 1 .. Len(all) : all[i] \in S
  BY LenProperties, ElementOfSeq
<1>2. m \in Nat \ {0} /\ m <= Len(all)
  BY <1>1
<1>3. c \in Seq(S) /\ Len(c) = m /\ \A i \in 1 .. m : c[i] = all[i]
  BY <1>1, <1>2, SubSeqProperties
<1>4. c # <<>>
  BY <1>2, <1>3
<1>5. /\ Front(c) \in Seq(S) /\ Len(Front(c)) = m - 1
      /\ \A i \in 1 .. m - 1 : Front(c)[i] = c[i]
  BY <1>3, <1>4, FrontEffect
<1>6. m - 1 \in 1 .. Len(all)
  BY ONLY <1>1, <1>2, <1>5, Len(Front(c)) \in Nat \ {0}
<1> DEFINE f == Front(c)
           g == SubSeq(all, 1, m - 1)
<1>7. g \in Seq(S) /\ Len(g) = m - 1 /\ \A i \in 1 .. m - 1 : g[i] = all[i]
  BY <1>1, <1>2, <1>6, SubSeqProperties
<1> HIDE DEF f, g
<1>8. f = g
  <2>1. f \in Seq(S) /\ Len(f) = Len(g) /\ \A i \in 1 .. Len(f) : f[i] = g[i]
    BY <1>2, <1>3, <1>5, <1>7 DEF f
  <2> QED BY ONLY <1>7, <2>1, SeqEqual
<1> QED BY <1>5, <1>6, <1>8 DEF f, g

(* An eviction takes the last entry, and there was no room with it.        *)
LEMMA EvictDropsLast ==
  ASSUME IndInv, NEW u \in Client, Evict(u)
  PROVE  Coming(u)' = Front(Coming(u))
<1>1. TypeOK /\ HolderKnown /\ Books
  BY BooksHold DEF IndInv, Accounted
<1>2. order \in Seq(Key) /\ IsInjective(order) /\ size \in [Key -> Nat] /\ order # <<>>
  BY <1>1, SizesTyped DEF Evict, OverBudget
<1>3. order' = Front(order) /\ size' = [size EXCEPT ![Last(order)] = 0] /\ UNCHANGED <<at, key, measured>>
  BY DEF Evict, client
<1>4. size' \in [Key -> Nat] /\ \A k \in Key : k # Last(order) => size'[k] = size[k]
  BY <1>2, <1>3
<1>5. IndexNow' = Listing(order', size') /\ IndexNow = Listing(order, size)
  BY SeenIs DEF IndexNow, Listing
<1>6. IndexNow' = Front(IndexNow)
  <2> DEFINE y == size'
  <2>1. y \in [Key -> Nat] /\ \A k \in Key : k # Last(order) => y[k] = size[k]
    BY <1>4
  <2> HIDE DEF y
  <2>2. Listing(Front(order), y) = Front(Listing(order, size))
    BY ONLY <1>2, <2>1, ListingFront
  <2> QED BY <1>3, <1>5, <2>2 DEF y
<1>7. IndexNow \in Seq(EntrySet(Key)) /\ IndexNow # <<>>
  <2>1. IndexNow \in Seq(EntrySet(Key)) /\ Len(IndexNow) = Len(order) /\ Len(order) # 0
    BY <1>1, <1>2, IndexTyped, EmptySeq
  <2> QED BY ONLY <2>1, EmptySeq
<1>8. CASE at[u] = "inserting"
  <2>1. Incoming(u) \in EntrySet(Key)
    BY <1>1, <1>8, CacheAssumption DEF HolderKnown, TypeOK, CacheAssumption, Incoming, EntrySet
  <2>2. Front(<<Incoming(u)>> \o IndexNow) = <<Incoming(u)>> \o Front(IndexNow)
    BY ONLY <1>7, <2>1, FrontOfPushed
  <2>3. Coming(u)' = <<Incoming(u)>> \o IndexNow'
    BY <1>3, <1>8 DEF Coming, Incoming
  <2> QED BY <1>6, <1>8, <2>2, <2>3 DEF Coming
<1>9. CASE at[u] # "inserting"
  BY <1>3, <1>6, <1>9 DEF Coming
<1> QED BY <1>8, <1>9

LEMMA EvictKeepsRoom ==
  ASSUME IndInv, TypeOK', Books', HolderKnown', NEW u \in Client, Room(u), Evict(u)
  PROVE  Room(u)'
<1> DEFINE all == Top(Seen, Incoming(u))
           c == Coming(u)
           m == Len(c)
<1>1. mu = u /\ mu' = u /\ u # None /\ Seen' = Seen /\ Incoming(u)' = Incoming(u)
  BY CacheAssumption DEF Evict, CacheAssumption, client, Incoming, Seen
<1>2. /\ all \in Seq(EntrySet(Key)) /\ m \in 1 .. Len(all)
      /\ c = SubSeq(all, 1, m)
  BY DEF Room
<1>3. Coming(u)' = Front(c)
  BY EvictDropsLast
<1>4. Len(Front(c)) \in Nat \ {0}
  <2>1. Len(Coming(u)') \in Nat \ {0}
    BY <1>1, TypedComingNext DEF TypedComing
  <2> QED BY <1>3, <2>1
<1>5. Weigh(SubSeq(all, 1, m)) > MaxBytes
  <2>1. Weigh(c) = bytes + (IF at[u] = "inserting" THEN measured[u] ELSE 0)
    BY <1>1, BooksHold, ComingTyped DEF IndInv, Accounted
  <2>2. bytes + (IF at[u] = "inserting" THEN measured[u] ELSE 0) > MaxBytes
    BY DEF Evict, OverBudget
  <2> QED BY <1>2, <2>1, <2>2
<1>6. Top(Seen, Incoming(u))' = all
  BY <1>1
<1> HIDE DEF all, c
<1>7. Len(Front(c)) = m - 1 /\ m - 1 \in 1 .. Len(all) /\ Front(c) = SubSeq(all, 1, m - 1)
  BY ONLY <1>2, <1>4, PrefixShrinks
<1>8. m - 1 + 1 = m
  BY <1>2
<1> HIDE DEF m
<1> QED BY <1>2, <1>3, <1>5, <1>6, <1>7, <1>8 DEF Room

LEMMA StepRoom ==
  ASSUME IndInv, IndInv', [Next]_vars, RoomIsMade
  PROVE  RoomIsMade'
<1>1. TypeOK /\ HolderKnown /\ TypeOK' /\ HolderKnown' /\ Books'
  BY StepBooks DEF IndInv, Accounted
<1> SUFFICES ASSUME NEW u \in Client, mu' = u
             PROVE  Room(u)'
  BY DEF RoomIsMade
<1>2. u # None
  BY CacheAssumption DEF CacheAssumption
<1>3. ASSUME mu = u, UNCHANGED <<order, size, mu, before>>,
             at'[u] = at[u], key'[u] = key[u], measured'[u] = measured[u]
      PROVE  Room(u)'
  <2>1. Room(u)
    BY <1>3 DEF RoomIsMade
  <2>2. Seen' = Seen /\ Incoming(u)' = Incoming(u) /\ Coming(u)' = Coming(u)
    BY <1>3 DEF Seen, Incoming, Coming, IndexNow
  <2> QED BY <2>1, <2>2 DEF Room
<1>4. CASE UNCHANGED vars
  BY <1>3, <1>4 DEF vars, index, client
<1>5. ASSUME NEW v \in Client, NEW k \in Key, GetHits(v, k) PROVE FALSE
  BY <1>2, <1>5 DEF GetHits
<1>6. ASSUME NEW v \in Client, Aside(v) PROVE Room(u)'
  <2>1. UNCHANGED <<order, size, mu, before>> /\ mu = u
    BY <1>6, AsideSteps
  <2>2. at[u] \in {"replacing", "inserting"}
    BY <1>1, <2>1 DEF HolderKnown
  <2>3. /\ \A w \in Client \ {v} : at'[w] = at[w] /\ key'[w] = key[w] /\ measured'[w] = measured[w]
        /\ at[v] \notin {"measured", "replacing", "inserting"}
    BY <1>1, <1>6, AsideMoves
  <2>4. at'[u] = at[u] /\ key'[u] = key[u] /\ measured'[u] = measured[u]
    BY <2>2, <2>3
  <2> QED BY <1>3, <2>1, <2>4
<1>7. ASSUME NEW v \in Client, Lock(v) PROVE Room(u)'
  <2>1. u = v
    BY <1>7 DEF Lock
  <2> QED BY <1>1, <1>7, <2>1, LockMakesRoom
<1>8. ASSUME NEW v \in Client, Evict(v) PROVE Room(u)'
  <2>1. u = v /\ mu = u
    BY <1>8 DEF Evict
  <2>2. Room(u)
    BY <2>1 DEF RoomIsMade
  <2> QED BY <1>1, <1>8, <2>1, <2>2, EvictKeepsRoom
<1>9. ASSUME NEW v \in Client, InsertReturns(v) PROVE FALSE
  BY <1>2, <1>9 DEF InsertReturns
<1> QED BY <1>4, <1>5, <1>6, <1>7, <1>8, <1>9, NextSteps

(* A hit is LruCache's Touch.                                              *)
LEMMA HitTouches ==
  ASSUME IndInv, NEW u \in Client, NEW k \in Key, GetHits(u, k)
  PROVE  Lru!Touch(k)
<1>1. order \in Seq(Key) /\ IsInjective(order) /\ size \in [Key -> Nat]
  BY BooksHold, SizesTyped
<1>2. PICK i \in DOMAIN order : order[i] = k /\ order' = ToFront(order, i)
  BY ToFrontMoves DEF GetHits
<1>3. size' = size /\ Seen = IndexNow /\ Seen' = IndexNow'
  BY DEF GetHits, Seen
<1>4. IndexNow' = Listing(order', size') /\ IndexNow = Listing(order, size)
  BY SeenIs DEF IndexNow, Listing
<1> DEFINE n == size[k]
           e == [key |-> order[i], size |-> n]
<1>5. Seen[i] = e /\ i \in DOMAIN Seen /\ e.key = k
  BY <1>2, <1>3, <1>4 DEF Listing
<1>6. n \in Nat /\ size = [size EXCEPT ![order[i]] = n]
  BY <1>1, <1>2
<1>7. e.key = order[i]
  OBVIOUS
<1>0. e = [key |-> order[i], size |-> n]
  OBVIOUS
<1> HIDE DEF n, e
<1>8. Listing(ToFront(order, i), size) = Replaced(Listing(order, size), i, [key |-> order[i], size |-> n])
  BY ONLY <1>1, <1>6, i \in DOMAIN order, ListingReplaced
<1>9. Top(Listing(order, size), e) = Replaced(Listing(order, size), i, e)
  BY ONLY <1>1, <1>7, i \in DOMAIN order, TopOfOld
<1>10. Seen' = Top(Seen, Seen[i])
  BY ONLY <1>0, <1>2, <1>3, <1>4, <1>5, <1>8, <1>9
<1>11. Seen' = Lru!ToTop(Seen[i])
  BY ONLY <1>10, SeenIs
<1>12. i \in DOMAIN Seen /\ Seen[i].key = k
  BY <1>5
<1> QED BY <1>11, <1>12 DEF Lru!Touch, Lru!Of, Seen

LEMMA WeightNext == (Books => Weigh(IndexNow) = bytes)'
<1>1. Books => Weigh(IndexNow) = bytes
  BY IndexWeight
<1> QED BY <1>1, PTL

(* An Insert that returns has been LruCache's Enter.                       *)
LEMMA ReturnEnters ==
  ASSUME IndInv, [Next]_vars, RoomIsMade, NEW u \in Client, InsertReturns(u)
  PROVE  key[u] \in Key /\ measured[u] \in 0 .. MaxBytes /\ Lru!Enter(key[u], measured[u])
<1>1. TypeOK /\ HolderKnown /\ Books
  BY BooksHold DEF IndInv, Accounted
<1>2. mu = u /\ mu' = None /\ at[u] \in {"replacing", "inserting"}
  BY <1>1 DEF InsertReturns, HolderKnown
<1>3. key[u] \in Key /\ measured[u] \in 0 .. MaxBytes
  BY <1>1, <1>2 DEF HolderKnown, TypeOK
<1>4. Seen' = IndexNow'
  BY <1>2 DEF Seen
<1>5. IndexNow' = Coming(u)
  <2>1. CASE at[u] = "inserting"
    <3>1. /\ order' = <<key[u]>> \o order
          /\ size' = [size EXCEPT ![key[u]] = measured[u]]
      BY <2>1 DEF InsertReturns
    <3>2. Coming(u) = Listing(<<key[u]>> \o order, [size EXCEPT ![key[u]] = measured[u]])
      BY <1>1, <2>1, ComingOfNew
    <3>3. IndexNow' = Listing(order', size')
      BY DEF IndexNow, Listing
    <3> QED BY ONLY <3>1, <3>2, <3>3
  <2>2. CASE at[u] # "inserting"
    BY <2>2 DEF InsertReturns, index, IndexNow, Coming
  <2> QED BY <2>1, <2>2
<1>6. Weigh(Seen') <= MaxBytes
  BY <1>2, <1>4, StepBooks, StepBudget, WeightNext
<1>7. Room(u)
  BY <1>2 DEF RoomIsMade
<1> DEFINE e == Incoming(u)
           all == Top(Seen, e)
           m == Len(Coming(u))
<1>8. /\ m \in 1 .. Len(all) /\ Seen' = SubSeq(all, 1, m)
      /\ m < Len(all) => Weigh(SubSeq(all, 1, m + 1)) > MaxBytes
  BY <1>4, <1>5, <1>7 DEF Room
<1>9. Lru!ToTop([key |-> key[u], size |-> measured[u]]) = all
  BY SeenIs DEF Incoming
<1> HIDE DEF all, m
<1>10. Lru!Weight(Seen') <= MaxBytes /\ (m < Len(all) => Lru!Weight(SubSeq(all, 1, m + 1)) > MaxBytes)
  BY <1>6, <1>8, SeenIs
<1>11. Lru!Enter(key[u], measured[u])
  BY <1>8, <1>9, <1>10 DEF Lru!Enter, Seen
<1> QED BY <1>3, <1>11

(* Every step is a step of LruCache or leaves what it sees as it was.      *)
LEMMA StepSeen ==
  ASSUME IndInv, IndInv', [Next]_vars, RoomIsMade
  PROVE  Lru!Next \/ Seen' = Seen
<1>1. TypeOK /\ HolderKnown
  BY DEF IndInv, Accounted
<1>2. CASE UNCHANGED vars
  BY <1>2 DEF vars, index, Seen, IndexNow
<1>3. ASSUME NEW u \in Client, NEW k \in Key, GetHits(u, k) PROVE Lru!Next
  BY <1>3, HitTouches DEF Lru!Next
<1>4. ASSUME NEW u \in Client, Aside(u) PROVE Seen' = Seen
  BY <1>4, AsideSteps DEF Seen, IndexNow
<1>5. ASSUME NEW u \in Client, Lock(u) PROVE Seen' = Seen
  BY <1>5, CacheAssumption DEF Lock, Seen, CacheAssumption
<1>6. ASSUME NEW u \in Client, Evict(u) PROVE Seen' = Seen
  BY <1>6, CacheAssumption DEF Evict, Seen, CacheAssumption
<1>7. ASSUME NEW u \in Client, InsertReturns(u) PROVE Lru!Next
  BY <1>7, ReturnEnters DEF Lru!Next
<1> QED BY <1>2, <1>3, <1>4, <1>5, <1>6, <1>7, NextSteps

(* Get and Insert together are an LRU index within its budget: Get moves   *)
(* its entry to the front; Insert puts its own there and drops the least   *)
(* recently used ones, no more of them than the budget asks for.           *)
THEOREM CacheImplementsLru == Spec => ImplementsLru
<1>1. Init => Seen = <<>> /\ RoomIsMade
  BY CacheAssumption DEF Init, Seen, IndexNow, RoomIsMade, CacheAssumption
<1>2. IndInv /\ IndInv' /\ [Next]_vars /\ RoomIsMade => RoomIsMade'
  BY StepRoom
<1>3. IndInv /\ IndInv' /\ [Next]_vars /\ RoomIsMade => (Lru!Next \/ Seen' = Seen)
  BY StepSeen
<1>4. Init => Lru!Init
  BY <1>1 DEF Lru!Init, Seen
<1>5. IndInv /\ IndInv' /\ [Next]_vars /\ RoomIsMade
        => [Lru!Next]_(IF mu = None THEN IndexNow ELSE before)
  BY <1>3 DEF Seen
<1> QED BY <1>1, <1>2, <1>4, <1>5, CacheInv, PTL DEF Spec, ImplementsLru, Lru!Spec
=============================================================================
