------------------------------ MODULE CacheLemmas ------------------------------
(***************************************************************************)
(* SumFunctionOnSet of the community modules, over any finite set: it is   *)
(* 0 on the empty set, and any element can be taken out of the sum.  The   *)
(* library defines the sum by recursion over subsets and leaves the order  *)
(* to CHOOSE; the inductions below are over the smallest subset for which  *)
(* a claim fails.                                                          *)
(***************************************************************************)
EXTENDS SequencesExt, FiniteSetTheorems, SequenceTheorems, TLAPS

(* A non-empty collection of subsets of a finite set has a smallest one.   *)
LEMMA SmallestSubset ==
  ASSUME NEW S, IsFiniteSet(S), NEW C \in SUBSET SUBSET S, C # {}
  PROVE  \E T \in C : \A U \in SUBSET T : U # T => U \notin C
<1>1. IsWellFoundedOn(StrictSubsetOrdering(S), SUBSET S)
  BY FS_StrictSubsetOrderingWellFounded, FS_FiniteSubsetsOfFinite
<1>2. PICK T \in C : \A U \in C : ~(<<U, T>> \in StrictSubsetOrdering(S))
  BY <1>1, WFMin, Zenon
<1>3. \A U \in SUBSET T : U # T => U \notin C
  BY <1>2 DEF StrictSubsetOrdering
<1> QED BY <1>3

(* The library's definition, unfolded: a table of the sums over all        *)
(* subsets, each from that of a smaller one.                               *)
Pick(s) == CHOOSE x \in s : TRUE
Entry(f, g, s) == IF s = {} THEN 0 ELSE f[Pick(s)] + g[s \ {Pick(s)}]
IsTable(f, g, S) == g = [s \in SUBSET S |-> Entry(f, g, s)]
SumTable(f, S) == CHOOSE g : IsTable(f, g, S)

LEMMA SumIsTable ==
  ASSUME NEW f, NEW S
  PROVE  SumFunctionOnSet(f, S) = SumTable(f, S)[S]
BY Zenon DEF SumFunctionOnSet, FoldFunctionOnSet, MapThenFoldSet, SumTable, IsTable, Entry, Pick

LEMMA PickIn == ASSUME NEW s, s # {} PROVE Pick(s) \in s
BY DEF Pick

(* There is at most one such table.                                        *)
LEMMA TableUnique ==
  ASSUME NEW S, IsFiniteSet(S), NEW f, NEW g, NEW h, IsTable(f, g, S), IsTable(f, h, S)
  PROVE  \A s \in SUBSET S : g[s] = h[s]
<1> DEFINE C == {s \in SUBSET S : g[s] # h[s]}
<1> SUFFICES ASSUME C # {} PROVE FALSE
  OBVIOUS
<1>1. PICK T \in C : \A U \in SUBSET T : U # T => U \notin C
  <2> HIDE DEF C
  <2>1. C \in SUBSET SUBSET S
    BY DEF C
  <2> QED BY <2>1, SmallestSubset
<1>2. \A U \in SUBSET T : U # T => g[U] = h[U]
  BY <1>1
<1>3. g[T] = Entry(f, g, T) /\ h[T] = Entry(f, h, T)
  BY DEF IsTable
<1>4. CASE T = {}
  BY <1>1, <1>3, <1>4 DEF Entry
<1>5. CASE T # {}
  <2>1. g[T \ {Pick(T)}] = h[T \ {Pick(T)}]
    BY <1>2, <1>5, PickIn
  <2> QED BY <1>1, <1>3, <1>5, <2>1 DEF Entry
<1> QED BY <1>4, <1>5

(* The sum unfolds once.                                                   *)
LEMMA SumUnfolds ==
  ASSUME NEW S, IsFiniteSet(S), NEW f
  PROVE  SumFunctionOnSet(f, S) =
           IF S = {} THEN 0
           ELSE f[Pick(S)] + SumFunctionOnSet(f, S \ {Pick(S)})
<1> DEFINE Sum(s) == SumFunctionOnSet(f, s)
           Unfolds(s) == Sum(s) = IF s = {} THEN 0 ELSE f[Pick(s)] + Sum(s \ {Pick(s)})
           C == {s \in SUBSET S : ~Unfolds(s)}
<1>0. SUFFICES ASSUME C # {} PROVE FALSE
  <2>1. C = {} => Unfolds(S)
    OBVIOUS
  <2> QED BY <2>1
<1>1. PICK T \in C : \A U \in SUBSET T : U # T => U \notin C
  <2>1. C \in SUBSET SUBSET S
    OBVIOUS
  <2> HIDE DEF C
  <2> QED BY <1>0, <2>1, SmallestSubset
<1>2. T \subseteq S /\ ~Unfolds(T) /\ \A U \in SUBSET T : U # T => Unfolds(U)
  BY <1>1
<1> HIDE DEF C
<1>3. IsFiniteSet(T)
  BY <1>2, FS_Subset
<1> DEFINE top == IF T = {} THEN 0 ELSE f[Pick(T)] + Sum(T \ {Pick(T)})
           G == [s \in SUBSET T |-> IF s = T THEN top ELSE Sum(s)]
<1>4. IsTable(f, G, T)
  <2> SUFFICES ASSUME NEW s \in SUBSET T PROVE G[s] = Entry(f, G, s)
    BY DEF IsTable
  <2>1. CASE s = {}
    <3>1. s = T => G[s] = 0
      BY <2>1
    <3>2. s # T => G[s] = 0
      BY <1>2, <2>1
    <3> QED BY <2>1, <3>1, <3>2 DEF Entry
  <2>2. CASE s # {}
    <3>1. s \ {Pick(s)} \in SUBSET T /\ s \ {Pick(s)} # T
      BY <2>2, PickIn
    <3>2. G[s \ {Pick(s)}] = Sum(s \ {Pick(s)})
      BY <3>1
    <3>3. G[s] = f[Pick(s)] + Sum(s \ {Pick(s)})
      BY <1>2, <2>2
    <3> QED BY <2>2, <3>2, <3>3 DEF Entry
  <2> QED BY <2>1, <2>2
<1>5. IsTable(f, SumTable(f, T), T)
  BY <1>4, Zenon DEF SumTable
<1>6. Sum(T) = top
  <2>1. SumTable(f, T)[T] = G[T]
    <3> HIDE DEF G
    <3> QED BY <1>3, <1>4, <1>5, TableUnique
  <2> QED BY <2>1, SumIsTable
<1> QED BY <1>2, <1>6

LEMMA SumEmpty ==
  ASSUME NEW f
  PROVE  SumFunctionOnSet(f, {}) = 0
BY SumUnfolds, FS_EmptySet

(***************************************************************************)
(* What the proofs use                                                     *)
(***************************************************************************)

(* A sum of naturals is a natural.                                         *)
LEMMA SumNat ==
  ASSUME NEW S, IsFiniteSet(S), NEW f, \A x \in S : f[x] \in Nat
  PROVE  SumFunctionOnSet(f, S) \in Nat
<1> DEFINE C == {s \in SUBSET S : SumFunctionOnSet(f, s) \notin Nat}
<1>0. SUFFICES ASSUME C # {} PROVE FALSE
  <2>1. C = {} => SumFunctionOnSet(f, S) \in Nat
    OBVIOUS
  <2> QED BY <2>1
<1>1. PICK T \in C : \A U \in SUBSET T : U # T => U \notin C
  <2>1. C \in SUBSET SUBSET S
    OBVIOUS
  <2> HIDE DEF C
  <2> QED BY <1>0, <2>1, SmallestSubset
<1>2. T \subseteq S /\ SumFunctionOnSet(f, T) \notin Nat /\ IsFiniteSet(T)
  BY <1>1, FS_Subset
<1>3. CASE T = {}
  BY <1>2, <1>3, SumEmpty
<1>4. CASE T # {}
  <2>1. Pick(T) \in T /\ SumFunctionOnSet(f, T \ {Pick(T)}) \in Nat
    BY <1>1, <1>4, PickIn
  <2>2. SumFunctionOnSet(f, T) = f[Pick(T)] + SumFunctionOnSet(f, T \ {Pick(T)})
    BY <1>2, <1>4, SumUnfolds
  <2>3. f[Pick(T)] \in Nat
    BY <1>2, <2>1
  <2> HIDE DEF C
  <2> QED BY <1>2, <2>1, <2>2, <2>3
<1> QED BY <1>3, <1>4

(* It depends only on the values on the set.                               *)
LEMMA SumSame ==
  ASSUME NEW S, IsFiniteSet(S), NEW f, NEW g, \A x \in S : f[x] = g[x]
  PROVE  SumFunctionOnSet(f, S) = SumFunctionOnSet(g, S)
<1> DEFINE C == {s \in SUBSET S : SumFunctionOnSet(f, s) # SumFunctionOnSet(g, s)}
<1>0. SUFFICES ASSUME C # {} PROVE FALSE
  <2>1. C = {} => SumFunctionOnSet(f, S) = SumFunctionOnSet(g, S)
    OBVIOUS
  <2> QED BY <2>1
<1>1. PICK T \in C : \A U \in SUBSET T : U # T => U \notin C
  <2>1. C \in SUBSET SUBSET S
    OBVIOUS
  <2> HIDE DEF C
  <2> QED BY <1>0, <2>1, SmallestSubset
<1>2. T \subseteq S /\ IsFiniteSet(T) /\ SumFunctionOnSet(f, T) # SumFunctionOnSet(g, T)
  BY <1>1, FS_Subset
<1>3. CASE T = {}
  BY <1>2, <1>3, SumEmpty
<1>4. CASE T # {}
  <2>1. /\ Pick(T) \in T
        /\ SumFunctionOnSet(f, T \ {Pick(T)}) = SumFunctionOnSet(g, T \ {Pick(T)})
    BY <1>1, <1>4, PickIn
  <2> HIDE DEF C
  <2> QED BY <1>2, <1>4, <2>1, SumUnfolds
<1> QED BY <1>3, <1>4

(* Any element can be taken out of the sum, whichever the library takes.   *)
LEMMA SumTakesOut ==
  ASSUME NEW S, IsFiniteSet(S), NEW f, \A y \in S : f[y] \in Nat, NEW x \in S
  PROVE  SumFunctionOnSet(f, S) = f[x] + SumFunctionOnSet(f, S \ {x})
<1> DEFINE Sum(s) == SumFunctionOnSet(f, s)
           Out(s) == \A y \in s : Sum(s) = f[y] + Sum(s \ {y})
           C == {s \in SUBSET S : ~Out(s)}
<1>0. SUFFICES ASSUME C # {} PROVE FALSE
  <2>1. C = {} => Out(S)
    OBVIOUS
  <2> QED BY <2>1
<1>1. PICK T \in C : \A U \in SUBSET T : U # T => U \notin C
  <2>1. C \in SUBSET SUBSET S
    OBVIOUS
  <2> HIDE DEF C
  <2> QED BY <1>0, <2>1, SmallestSubset
<1>2. T \subseteq S /\ ~Out(T) /\ \A U \in SUBSET T : U # T => Out(U)
  BY <1>1
<1> HIDE DEF C
<1>3. \A U \in SUBSET T : IsFiniteSet(U) /\ Sum(U) \in Nat
  <2> SUFFICES ASSUME NEW U \in SUBSET T PROVE IsFiniteSet(U) /\ Sum(U) \in Nat
    OBVIOUS
  <2>1. IsFiniteSet(U) /\ \A y \in U : f[y] \in Nat
    BY <1>2, FS_Subset
  <2> QED BY <2>1, SumNat
<1>4. PICK y \in T : Sum(T) # f[y] + Sum(T \ {y})
  BY <1>2
<1> DEFINE p == Pick(T)
<1>5. p \in T /\ Sum(T) = f[p] + Sum(T \ {p})
  BY <1>3, <1>4, PickIn, SumUnfolds
<1>6. y # p
  BY <1>4, <1>5
<1> HIDE DEF p
<1>7. Sum(T \ {p}) = f[y] + Sum((T \ {p}) \ {y})
  <2>1. T \ {p} \in SUBSET T /\ T \ {p} # T /\ y \in T \ {p}
    BY <1>5, <1>6
  <2> HIDE DEF Sum
  <2> QED BY <1>2, <2>1
<1>8. Sum(T \ {y}) = f[p] + Sum((T \ {y}) \ {p})
  <2>1. T \ {y} \in SUBSET T /\ T \ {y} # T /\ p \in T \ {y}
    BY <1>5, <1>6
  <2> HIDE DEF Sum
  <2> QED BY <1>2, <2>1
<1>9. (T \ {p}) \ {y} = (T \ {y}) \ {p}
  OBVIOUS
<1>10. f[p] \in Nat /\ f[y] \in Nat /\ Sum((T \ {y}) \ {p}) \in Nat
  BY <1>2, <1>3, <1>5
<1> HIDE DEF Sum
<1>11. /\ Sum(T) = f[p] + (f[y] + Sum((T \ {y}) \ {p}))
       /\ Sum(T \ {y}) = f[p] + Sum((T \ {y}) \ {p})
  BY ONLY <1>5, <1>7, <1>8, <1>9
<1> QED BY ONLY <1>4, <1>10, <1>11

(* A new element adds its value.                                           *)
LEMMA SumAdds ==
  ASSUME NEW S, IsFiniteSet(S), NEW f, NEW x, x \notin S,
         \A y \in S \cup {x} : f[y] \in Nat
  PROVE  SumFunctionOnSet(f, S \cup {x}) = f[x] + SumFunctionOnSet(f, S)
<1>1. IsFiniteSet(S \cup {x})
  BY FS_AddElement
<1>2. (S \cup {x}) \ {x} = S
  OBVIOUS
<1>3. x \in S \cup {x}
  OBVIOUS
<1>4. SumFunctionOnSet(f, S \cup {x}) = f[x] + SumFunctionOnSet(f, (S \cup {x}) \ {x})
  BY <1>1, <1>3, SumTakesOut
<1> QED BY <1>2, <1>4

(* Smaller values on a smaller set give no more.                           *)
LEMMA SumMonotone ==
  ASSUME NEW S, IsFiniteSet(S), NEW T \in SUBSET S, NEW f, NEW g,
         \A x \in S : f[x] \in Nat /\ g[x] \in Nat /\ f[x] <= g[x]
  PROVE  SumFunctionOnSet(f, T) <= SumFunctionOnSet(g, S)
<1> DEFINE F(s) == SumFunctionOnSet(f, s)
           G(s) == SumFunctionOnSet(g, s)
           C == {s \in SUBSET S : ~(F(s \cap T) <= G(s))}
<1>0. SUFFICES ASSUME C # {} PROVE FALSE
  <2>1. C = {} => F(S \cap T) <= G(S)
    OBVIOUS
  <2>2. S \cap T = T
    OBVIOUS
  <2> QED BY <2>1, <2>2
<1>1. PICK U \in C : \A V \in SUBSET U : V # U => V \notin C
  <2>1. C \in SUBSET SUBSET S
    OBVIOUS
  <2> HIDE DEF C
  <2> QED BY <1>0, <2>1, SmallestSubset
<1>2. /\ U \subseteq S /\ ~(F(U \cap T) <= G(U))
      /\ \A V \in SUBSET U : V # U => F(V \cap T) <= G(V)
  BY <1>1
<1> HIDE DEF C
<1>3. ASSUME NEW V \in SUBSET S
      PROVE  IsFiniteSet(V) /\ F(V) \in Nat /\ G(V) \in Nat
  <2>1. IsFiniteSet(V) /\ \A x \in V : f[x] \in Nat /\ g[x] \in Nat
    BY FS_Subset
  <2> QED BY <2>1, SumNat
<1>4. CASE U = {}
  <2>1. U \cap T = {} /\ F({}) = 0 /\ G({}) = 0
    BY <1>4, SumEmpty
  <2> HIDE DEF F, G
  <2> QED BY <1>2, <1>4, <2>1
<1>5. CASE U # {}
  <2>0. ~(F(U \cap T) <= G(U))
    BY <1>2
  <2>1. PICK x \in U : TRUE
    BY <1>5
  <2>2. G(U) = g[x] + G(U \ {x})
    <3>1. IsFiniteSet(U) /\ \A y \in U : g[y] \in Nat
      BY <1>2, <1>3
    <3> QED BY <3>1, SumTakesOut
  <2>3. F((U \ {x}) \cap T) <= G(U \ {x})
    <3> HIDE DEF F, G
    <3> QED BY <1>2
  <2>4. CASE x \in T
    <3>1. F(U \cap T) = f[x] + F((U \cap T) \ {x})
      <4>1. IsFiniteSet(U \cap T) /\ x \in U \cap T /\ \A y \in U \cap T : f[y] \in Nat
        BY <1>2, <1>3, <2>4
      <4> QED BY <4>1, SumTakesOut
    <3>2. (U \cap T) \ {x} = (U \ {x}) \cap T
      OBVIOUS
    <3>3. /\ F((U \ {x}) \cap T) \in Nat /\ G(U \ {x}) \in Nat
          /\ f[x] \in Nat /\ g[x] \in Nat /\ f[x] <= g[x]
      BY <1>2, <1>3
    <3>4. F(U \cap T) = f[x] + F((U \ {x}) \cap T)
      BY <3>1, <3>2
    <3> HIDE DEF F, G
    <3> QED BY <2>0, <2>2, <2>3, <3>3, <3>4
  <2>5. CASE x \notin T
    <3>1. U \cap T = (U \ {x}) \cap T
      BY <2>5
    <3>2. F((U \ {x}) \cap T) \in Nat /\ G(U \ {x}) \in Nat /\ g[x] \in Nat
      BY <1>2, <1>3
    <3>3. F(U \cap T) = F((U \ {x}) \cap T)
      BY <3>1
    <3> HIDE DEF F, G
    <3> QED BY <2>0, <2>2, <2>3, <3>2, <3>3
  <2> QED BY <2>4, <2>5
<1> QED BY <1>4, <1>5

(***************************************************************************)
(* Sequences of which an element goes: to the front, or for good           *)
(***************************************************************************)
LEMMA FrontEffect ==
  ASSUME NEW S, NEW s \in Seq(S), s # <<>>
  PROVE  /\ Len(s) \in Nat \ {0}
         /\ Last(s) = s[Len(s)]
         /\ Front(s) \in Seq(S)
         /\ Len(Front(s)) = Len(s) - 1
         /\ \A i \in 1 .. Len(s) - 1 : Front(s)[i] = s[i]
<1> DEFINE n == Len(s)
           f == SubSeq(s, 1, n - 1)
<1>1. n \in Nat \ {0}
  BY EmptySeq
<1>2. \A i \in 1 .. n - 1 : s[i] \in S
  BY <1>1, ElementOfSeq
<1>3. Front(s) = f /\ Last(s) = s[n]
  BY DEF Front, Last
<1> HIDE DEF n
<1>4. /\ f \in Seq(S)
      /\ Len(f) = IF 1 <= n - 1 THEN n - 1 - 1 + 1 ELSE 0
      /\ \A i \in 1 .. n - 1 - 1 + 1 : f[i] = s[1 + i - 1]
  BY ONLY <1>1, <1>2, SubSeqProperties, 1 \in Int, n - 1 \in Int
<1> HIDE DEF f
<1>5. Len(f) = n - 1
  BY <1>1, <1>4
<1>6. \A i \in 1 .. n - 1 : f[i] = s[i]
  <2> TAKE i \in 1 .. n - 1
  <2>1. i \in 1 .. n - 1 - 1 + 1 /\ 1 + i - 1 = i
    BY ONLY <1>1, i \in 1 .. n - 1
  <2> QED BY ONLY <1>4, <2>1
<1> QED BY <1>1, <1>3, <1>4, <1>5, <1>6 DEF n

LEMMA FirstEffect ==
  ASSUME NEW S, NEW s \in Seq(S), NEW k \in S
  PROVE  /\ <<k>> \o s \in Seq(S)
         /\ Len(<<k>> \o s) = Len(s) + 1
         /\ (<<k>> \o s)[1] = k
         /\ \A i \in 1 .. Len(s) : (<<k>> \o s)[i + 1] = s[i]
OBVIOUS

LEMMA RemoveAtEffect ==
  ASSUME NEW S, NEW s \in Seq(S), NEW i \in DOMAIN s
  PROVE  /\ RemoveAt(s, i) \in Seq(S)
         /\ Len(RemoveAt(s, i)) = Len(s) - 1
         /\ \A j \in 1 .. i - 1 : RemoveAt(s, i)[j] = s[j]
         /\ \A j \in i .. Len(s) - 1 : RemoveAt(s, i)[j] = s[j + 1]
<1> DEFINE a == SubSeq(s, 1, i - 1)
           b == SubSeq(s, i + 1, Len(s))
<1>1. i \in 1 .. Len(s) /\ Len(s) \in Nat
  OBVIOUS
<1>2. /\ \A j \in 1 .. i - 1 : s[j] \in S
      /\ \A j \in i + 1 .. Len(s) : s[j] \in S
  BY <1>1, ElementOfSeq
<1>3. /\ a \in Seq(S)
      /\ Len(a) = IF 1 <= i - 1 THEN i - 1 - 1 + 1 ELSE 0
      /\ \A j \in 1 .. i - 1 - 1 + 1 : a[j] = s[1 + j - 1]
  BY ONLY <1>1, <1>2, SubSeqProperties, 1 \in Int, i - 1 \in Int
<1>4. /\ b \in Seq(S)
      /\ Len(b) = IF i + 1 <= Len(s) THEN Len(s) - (i + 1) + 1 ELSE 0
      /\ \A j \in 1 .. Len(s) - (i + 1) + 1 : b[j] = s[i + 1 + j - 1]
  BY ONLY <1>1, <1>2, SubSeqProperties, i + 1 \in Int, Len(s) \in Int
<1> HIDE DEF a, b
<1>5. Len(a) = i - 1 /\ Len(b) = Len(s) - i
  BY <1>1, <1>3, <1>4
<1>6. /\ a \o b \in Seq(S)
      /\ Len(a \o b) = Len(a) + Len(b)
      /\ \A j \in 1 .. Len(a) + Len(b) :
           (a \o b)[j] = IF j <= Len(a) THEN a[j] ELSE b[j - Len(a)]
  BY <1>3, <1>4, ConcatProperties
<1>7. \A j \in 1 .. i - 1 : (a \o b)[j] = s[j]
  <2> TAKE j \in 1 .. i - 1
  <2>1. (a \o b)[j] = a[j]
    BY <1>1, <1>5, <1>6
  <2> QED BY <1>1, <1>3, <2>1
<1>8. \A j \in i .. Len(s) - 1 : (a \o b)[j] = s[j + 1]
  <2> TAKE j \in i .. Len(s) - 1
  <2>0. PICK p \in 1 .. Len(s) - i : j = i - 1 + p
    <3>1. j - (i - 1) \in 1 .. Len(s) - i /\ j = i - 1 + (j - (i - 1))
      BY ONLY <1>1, j \in i .. Len(s) - 1
    <3> QED BY <3>1
  <2>1. j \in 1 .. Len(a) + Len(b) /\ ~(j <= Len(a)) /\ j - Len(a) = p
    <3> DEFINE n == Len(s)
               la == Len(a)
               lb == Len(b)
    <3>1. i \in 1 .. n /\ n \in Nat /\ p \in 1 .. n - i
      BY <1>1
    <3>2. la = i - 1 /\ lb = n - i
      BY <1>5
    <3> HIDE DEF n, la, lb
    <3>3. j \in 1 .. la + lb
      BY ONLY <2>0, <3>1, <3>2
    <3>4. ~(j <= la)
      BY ONLY <2>0, <3>1, <3>2
    <3>5. j - la = p
      BY ONLY <2>0, <3>1, <3>2
    <3> QED BY ONLY <3>3, <3>4, <3>5 DEF la, lb
  <2>2. (a \o b)[j] = b[p]
    BY ONLY <1>6, <2>1
  <2>3. p \in 1 .. Len(s) - (i + 1) + 1 /\ i + 1 + p - 1 = j + 1
    BY ONLY <1>1, <2>0, p \in 1 .. Len(s) - i
  <2> QED BY ONLY <1>4, <2>2, <2>3
<1>9. Len(a \o b) = Len(s) - 1
  BY <1>1, <1>5, <1>6
<1>10. RemoveAt(s, i) = a \o b
  BY DEF RemoveAt, a, b
<1> QED BY <1>6, <1>7, <1>8, <1>9, <1>10

(* The i-th element goes, and e is put first.                              *)
Replaced(s, i, e) == <<e>> \o RemoveAt(s, i)
ToFront(s, i) == Replaced(s, i, s[i])

IsReplaced(t, s, i, e, S) ==
  /\ t \in Seq(S)
  /\ Len(t) = Len(s)
  /\ t[1] = e
  /\ \A j \in 1 .. i - 1 : t[j + 1] = s[j]
  /\ \A j \in i + 1 .. Len(s) : t[j] = s[j]

LEMMA ReplacedEffect ==
  ASSUME NEW S, NEW s \in Seq(S), NEW i \in DOMAIN s, NEW e \in S,
         NEW t, t = Replaced(s, i, e)
  PROVE  IsReplaced(t, s, i, e, S)
<1> DEFINE r == RemoveAt(s, i)
<1>1. i \in 1 .. Len(s) /\ Len(s) \in Nat
  OBVIOUS
<1>2. /\ r \in Seq(S)
      /\ Len(r) = Len(s) - 1
      /\ \A j \in 1 .. i - 1 : r[j] = s[j]
      /\ \A j \in i .. Len(s) - 1 : r[j] = s[j + 1]
  BY RemoveAtEffect
<1>3. t = <<e>> \o r
  BY DEF Replaced
<1> HIDE DEF r
<1>4. /\ t \in Seq(S)
      /\ Len(t) = Len(r) + 1
      /\ t[1] = e
      /\ \A j \in 1 .. Len(r) : t[j + 1] = r[j]
  BY ONLY <1>2, <1>3, FirstEffect, e \in S
<1>5. \A j \in i + 1 .. Len(s) : t[j] = s[j]
  <2> TAKE j \in i + 1 .. Len(s)
  <2>1. t[(j - 1) + 1] = r[j - 1]
    BY <1>1, <1>2, <1>4
  <2>2. r[j - 1] = s[(j - 1) + 1]
    BY <1>1, <1>2
  <2>3. (j - 1) + 1 = j
    BY <1>1
  <2> QED BY ONLY <2>1, <2>2, <2>3
<1> QED BY <1>1, <1>2, <1>4, <1>5 DEF IsReplaced

LEMMA ToFrontEffect ==
  ASSUME NEW S, NEW s \in Seq(S), NEW i \in DOMAIN s, NEW t, t = ToFront(s, i)
  PROVE  /\ t \in Seq(S)
         /\ Len(t) = Len(s)
         /\ t[1] = s[i]
         /\ \A j \in 1 .. i - 1 : t[j + 1] = s[j]
         /\ \A j \in i + 1 .. Len(s) : t[j] = s[j]
<1>1. s[i] \in S
  OBVIOUS
<1>2. t = Replaced(s, i, s[i])
  BY DEF ToFront
<1>3. IsReplaced(t, s, i, s[i], S)
  BY <1>1, <1>2, ReplacedEffect
<1> QED BY ONLY <1>3 DEF IsReplaced

LEMMA ToSetFinite ==
  ASSUME NEW S, NEW s \in Seq(S)
  PROVE  IsFiniteSet(ToSet(s)) /\ ToSet(s) \subseteq S
<1>1. s \in [1 .. Len(s) -> S] /\ Len(s) \in Nat /\ DOMAIN s = 1 .. Len(s)
  BY LenProperties
<1>2. IsFiniteSet(1 .. Len(s))
  BY <1>1, FS_Interval
<1>3. s \in Surjection(1 .. Len(s), ToSet(s))
  BY <1>1 DEF Surjection, ToSet
<1> QED BY ONLY <1>1, <1>2, <1>3, FS_Surjection DEF ToSet

LEMMA ToFrontKeeps ==
  ASSUME NEW S, NEW s \in Seq(S), IsInjective(s), NEW i \in DOMAIN s, NEW t,
         t = ToFront(s, i)
  PROVE  /\ t \in Seq(S)
         /\ ToSet(t) = ToSet(s)
         /\ IsInjective(t)
<1>1. /\ t \in Seq(S)
      /\ Len(t) = Len(s)
      /\ t[1] = s[i]
      /\ \A j \in 1 .. i - 1 : t[j + 1] = s[j]
      /\ \A j \in i + 1 .. Len(s) : t[j] = s[j]
  BY ToFrontEffect
<1>2. i \in 1 .. Len(s) /\ Len(s) \in Nat /\ DOMAIN s = 1 .. Len(s) /\ DOMAIN t = 1 .. Len(s)
  BY <1>1, LenProperties
<1> DEFINE From(j) == IF j = 1 THEN i ELSE IF j <= i THEN j - 1 ELSE j
<1>3. \A j \in 1 .. Len(s) : From(j) \in 1 .. Len(s) /\ t[j] = s[From(j)]
  <2> TAKE j \in 1 .. Len(s)
  <2>1. CASE j = 1
    BY ONLY <1>1, <1>2, <2>1
  <2>2. CASE j # 1 /\ j <= i
    <3>1. j - 1 \in 1 .. i - 1 /\ (j - 1) + 1 = j /\ j - 1 \in 1 .. Len(s)
      BY ONLY <1>2, <2>2, j \in 1 .. Len(s)
    <3> QED BY ONLY <1>1, <2>2, <3>1
  <2>3. CASE j # 1 /\ ~(j <= i)
    <3>1. j \in i + 1 .. Len(s)
      BY ONLY <1>2, <2>3, j \in 1 .. Len(s)
    <3> QED BY ONLY <1>1, <2>3, <3>1, j \in 1 .. Len(s)
  <2> QED BY ONLY <2>1, <2>2, <2>3
<1>4. \A j, l \in 1 .. Len(s) : From(j) = From(l) => j = l
  BY ONLY <1>2
<1>5. \A l \in 1 .. Len(s) : \E j \in 1 .. Len(s) : From(j) = l
  <2> TAKE l \in 1 .. Len(s)
  <2>1. CASE l = i
    <3>1. 1 \in 1 .. Len(s) /\ From(1) = l
      BY ONLY <1>2, <2>1
    <3> QED BY ONLY <3>1
  <2>2. CASE l < i
    <3>1. l + 1 \in 1 .. Len(s) /\ From(l + 1) = l
      BY ONLY <1>2, <2>2, l \in 1 .. Len(s)
    <3> QED BY ONLY <3>1
  <2>3. CASE l > i
    <3>1. l \in 1 .. Len(s) /\ From(l) = l
      BY ONLY <1>2, <2>3, l \in 1 .. Len(s)
    <3> QED BY ONLY <3>1
  <2> QED BY ONLY <1>2, <2>1, <2>2, <2>3, l \in 1 .. Len(s)
<1> HIDE DEF From
<1>6. ToSet(t) = ToSet(s)
  <2>1. ASSUME NEW x \in ToSet(t) PROVE x \in ToSet(s)
    BY ONLY <1>2, <1>3, <2>1 DEF ToSet
  <2>2. ASSUME NEW x \in ToSet(s) PROVE x \in ToSet(t)
    BY ONLY <1>2, <1>3, <1>5, <2>2 DEF ToSet
  <2> QED BY ONLY <2>1, <2>2
<1>7. IsInjective(t)
  BY ONLY <1>2, <1>3, <1>4, IsInjective(s) DEF IsInjective
<1> QED BY ONLY <1>1, <1>6, <1>7

LEMMA FrontKeeps ==
  ASSUME NEW S, NEW s \in Seq(S), s # <<>>, IsInjective(s)
  PROVE  /\ Last(s) \in ToSet(s)
         /\ ToSet(Front(s)) = ToSet(s) \ {Last(s)}
         /\ IsInjective(Front(s))
<1> DEFINE n == Len(s)
           f == Front(s)
<1>1. /\ n \in Nat \ {0}
      /\ Last(s) = s[n]
      /\ f \in Seq(S)
      /\ Len(f) = n - 1
      /\ \A i \in 1 .. n - 1 : f[i] = s[i]
  BY FrontEffect
<1>2. DOMAIN s = 1 .. n /\ DOMAIN f = 1 .. n - 1
  BY <1>1, LenProperties
<1> HIDE DEF n, f
<1>3. n \in 1 .. n /\ \A i \in 1 .. n : i \in 1 .. n - 1 \/ i = n
  BY ONLY <1>1
<1>4. \A i \in 1 .. n - 1 : i \in 1 .. n /\ i # n
  BY ONLY <1>1
<1>5. Last(s) \in ToSet(s)
  BY ONLY <1>1, <1>2, <1>3 DEF ToSet
<1>6. ToSet(f) = ToSet(s) \ {Last(s)}
  BY ONLY <1>1, <1>2, <1>3, <1>4, IsInjective(s) DEF ToSet, IsInjective
<1>7. IsInjective(f)
  BY ONLY <1>1, <1>2, <1>4, IsInjective(s) DEF IsInjective
<1> QED BY ONLY <1>5, <1>6, <1>7 DEF f

LEMMA FirstKeeps ==
  ASSUME NEW S, NEW s \in Seq(S), NEW k \in S
  PROVE  /\ ToSet(<<k>> \o s) = ToSet(s) \cup {k}
         /\ IsInjective(s) /\ k \notin ToSet(s) => IsInjective(<<k>> \o s)
<1> DEFINE n == Len(s)
           t == <<k>> \o s
<1>1. /\ t \in Seq(S)
      /\ Len(t) = n + 1
      /\ t[1] = k
      /\ \A i \in 1 .. n : t[i + 1] = s[i]
  BY FirstEffect
<1>2. n \in Nat /\ DOMAIN s = 1 .. n /\ DOMAIN t = 1 .. n + 1
  BY <1>1, LenProperties
<1> HIDE DEF n, t
<1>3. \A i \in 1 .. n + 1 : i = 1 \/ \E j \in 1 .. n : i = j + 1
  BY ONLY <1>2
<1>4. 1 \in 1 .. n + 1 /\ \A j \in 1 .. n : j + 1 \in 1 .. n + 1
  BY ONLY <1>2
<1>5. ToSet(t) = ToSet(s) \cup {k}
  <2>1. ASSUME NEW x \in ToSet(t) PROVE x \in ToSet(s) \cup {k}
    <3>1. PICK i \in 1 .. n + 1 : x = t[i]
      BY ONLY <1>2, <2>1 DEF ToSet
    <3>2. CASE i = 1
      BY ONLY <1>1, <3>1, <3>2
    <3>3. CASE i # 1
      <4>1. PICK j \in 1 .. n : i = j + 1
        BY ONLY <1>3, <3>3, i \in 1 .. n + 1
      <4>2. x = s[j]
        BY ONLY <1>1, <3>1, <4>1
      <4> QED BY ONLY <1>2, <4>2 DEF ToSet
    <3> QED BY ONLY <3>2, <3>3
  <2>2. ASSUME NEW x \in ToSet(s) \cup {k} PROVE x \in ToSet(t)
    BY ONLY <1>1, <1>2, <1>4, <2>2 DEF ToSet
  <2> QED BY ONLY <2>1, <2>2
<1>6. ASSUME IsInjective(s), k \notin ToSet(s) PROVE IsInjective(t)
  <2>1. \A j \in 1 .. n : s[j] # k
    BY ONLY <1>2, <1>6 DEF ToSet
  <2>2. \A i, j \in 1 .. n : s[i] = s[j] => i = j
    BY ONLY <1>2, <1>6 DEF IsInjective
  <2>3. ASSUME NEW i \in 1 .. n + 1, NEW j \in 1 .. n + 1, t[i] = t[j] PROVE i = j
    <3>1. CASE i = 1
      BY ONLY <1>1, <1>3, <2>1, <2>3, <3>1
    <3>2. CASE j = 1
      BY ONLY <1>1, <1>3, <2>1, <2>3, <3>2
    <3>3. CASE i # 1 /\ j # 1
      <4>1. PICK a \in 1 .. n, b \in 1 .. n : i = a + 1 /\ j = b + 1
        BY ONLY <1>3, <2>3, <3>3
      <4>2. s[a] = s[b]
        BY ONLY <1>1, <2>3, <4>1
      <4> QED BY ONLY <2>2, <4>1, <4>2
    <3> QED BY ONLY <3>1, <3>2, <3>3
  <2> QED BY ONLY <1>2, <2>3 DEF IsInjective
<1> QED BY ONLY <1>5, <1>6 DEF t

(***************************************************************************)
(* x is in s, and everything before it is in B                             *)
(***************************************************************************)
After(s, x, B) == \E j \in DOMAIN s : s[j] = x /\ \A i \in 1 .. j - 1 : s[i] \in B

LEMMA AfterMember == ASSUME NEW s, NEW x, NEW B, After(s, x, B) PROVE x \in ToSet(s)
BY DEF After, ToSet

LEMMA FirstAfter ==
  ASSUME NEW S, NEW s \in Seq(S), s # <<>>, NEW B
  PROVE  After(s, s[1], B)
<1>1. Len(s) \in Nat \ {0} /\ DOMAIN s = 1 .. Len(s)
  BY EmptySeq, LenProperties
<1>2. 1 \in 1 .. Len(s) /\ 1 .. 1 - 1 = {}
  BY ONLY <1>1
<1> QED BY ONLY <1>1, <1>2 DEF After

LEMMA PushedAfter ==
  ASSUME NEW S, NEW s \in Seq(S), NEW k \in S, NEW x, NEW B, After(s, x, B)
  PROVE  After(<<k>> \o s, x, B \cup {k})
<1> DEFINE n == Len(s)
           t == <<k>> \o s
<1>1. /\ t \in Seq(S)
      /\ Len(t) = n + 1
      /\ t[1] = k
      /\ \A i \in 1 .. n : t[i + 1] = s[i]
  BY FirstEffect
<1>2. n \in Nat /\ DOMAIN s = 1 .. n /\ DOMAIN t = 1 .. n + 1
  BY <1>1, LenProperties
<1> HIDE DEF n, t
<1>3. PICK j \in 1 .. n : s[j] = x /\ \A i \in 1 .. j - 1 : s[i] \in B
  BY ONLY <1>2, After(s, x, B) DEF After
<1>4. j + 1 \in 1 .. n + 1 /\ t[j + 1] = x
  BY ONLY <1>1, <1>2, <1>3
<1>5. ASSUME NEW i \in 1 .. (j + 1) - 1 PROVE t[i] \in B \cup {k}
  <2>1. CASE i = 1
    BY ONLY <1>1, <2>1
  <2>2. CASE i # 1
    <3>1. PICK l \in 1 .. j - 1 : i = l + 1
      <4>1. i - 1 \in 1 .. j - 1 /\ i = (i - 1) + 1
        BY ONLY <1>2, <2>2, i \in 1 .. (j + 1) - 1, j \in 1 .. n
      <4> QED BY ONLY <4>1
    <3>2. l \in 1 .. n
      BY ONLY <1>2, <3>1, j \in 1 .. n
    <3> QED BY ONLY <1>1, <1>3, <3>1, <3>2
  <2> QED BY ONLY <2>1, <2>2
<1>6. After(t, x, B \cup {k})
  BY ONLY <1>2, <1>4, <1>5 DEF After
<1> QED BY ONLY <1>6 DEF t

LEMMA FrontAfter ==
  ASSUME NEW S, NEW s \in Seq(S), s # <<>>, NEW x, NEW B, After(s, x, B), x # Last(s)
  PROVE  After(Front(s), x, B)
<1> DEFINE n == Len(s)
           f == Front(s)
<1>1. /\ n \in Nat \ {0}
      /\ Last(s) = s[n]
      /\ f \in Seq(S)
      /\ Len(f) = n - 1
      /\ \A i \in 1 .. n - 1 : f[i] = s[i]
  BY FrontEffect
<1>2. DOMAIN s = 1 .. n /\ DOMAIN f = 1 .. n - 1
  BY <1>1, LenProperties
<1> HIDE DEF n, f
<1>3. PICK j \in 1 .. n : s[j] = x /\ \A i \in 1 .. j - 1 : s[i] \in B
  BY ONLY <1>2, After(s, x, B) DEF After
<1>4. j \in 1 .. n - 1 /\ \A i \in 1 .. j - 1 : i \in 1 .. n - 1
  BY ONLY <1>1, <1>3, x # Last(s)
<1>5. After(f, x, B)
  BY ONLY <1>1, <1>2, <1>3, <1>4 DEF After
<1> QED BY ONLY <1>5 DEF f

(* If x is the last one, then B has all the others.                        *)
LEMMA LastAfter ==
  ASSUME NEW S, NEW s \in Seq(S), s # <<>>, IsInjective(s), NEW B, After(s, Last(s), B)
  PROVE  ToSet(s) \ {Last(s)} \subseteq B
<1> DEFINE n == Len(s)
<1>1. n \in Nat \ {0} /\ Last(s) = s[n]
  BY FrontEffect
<1>2. DOMAIN s = 1 .. n
  BY <1>1, LenProperties
<1> HIDE DEF n
<1>3. PICK j \in 1 .. n : s[j] = s[n] /\ \A i \in 1 .. j - 1 : s[i] \in B
  BY ONLY <1>1, <1>2, After(s, Last(s), B) DEF After
<1>4. n \in 1 .. n /\ j = n
  BY ONLY <1>1, <1>2, <1>3, IsInjective(s) DEF IsInjective
<1>5. \A i \in 1 .. n : i = n \/ i \in 1 .. j - 1
  BY ONLY <1>1, <1>4
<1> QED BY ONLY <1>1, <1>2, <1>3, <1>5 DEF ToSet

LEMMA ToFrontAfter ==
  ASSUME NEW S, NEW s \in Seq(S), NEW i \in DOMAIN s, NEW x, NEW B, After(s, x, B)
  PROVE  After(ToFront(s, i), x, B \cup {s[i]})
<1> DEFINE n == Len(s)
           t == ToFront(s, i)
<1>1. /\ t \in Seq(S)
      /\ Len(t) = n
      /\ t[1] = s[i]
      /\ \A j \in 1 .. i - 1 : t[j + 1] = s[j]
      /\ \A j \in i + 1 .. n : t[j] = s[j]
  BY ToFrontEffect
<1>2. n \in Nat /\ i \in 1 .. n /\ DOMAIN s = 1 .. n /\ DOMAIN t = 1 .. n
  BY <1>1, LenProperties
<1> HIDE DEF n, t
<1>3. PICK j \in 1 .. n : s[j] = x /\ \A l \in 1 .. j - 1 : s[l] \in B
  BY ONLY <1>2, After(s, x, B) DEF After
<1>4. CASE j < i
  <2>1. j \in 1 .. i - 1 /\ j + 1 \in 1 .. n
    BY ONLY <1>2, <1>4, j \in 1 .. n
  <2>2. t[j + 1] = x
    BY ONLY <1>1, <1>3, <2>1
  <2>3. ASSUME NEW l \in 1 .. (j + 1) - 1 PROVE t[l] \in B \cup {s[i]}
    <3>1. CASE l = 1
      BY ONLY <1>1, <3>1
    <3>2. CASE l # 1
      <4>1. PICK m \in 1 .. j - 1 : l = m + 1
        <5>1. l - 1 \in 1 .. j - 1 /\ l = (l - 1) + 1
          BY ONLY <1>2, <3>2, l \in 1 .. (j + 1) - 1, j \in 1 .. n
        <5> QED BY ONLY <5>1
      <4>2. m \in 1 .. i - 1
        BY ONLY <1>2, <1>4, <4>1, j \in 1 .. n
      <4> QED BY ONLY <1>1, <1>3, <4>1, <4>2
    <3> QED BY ONLY <3>1, <3>2
  <2> QED BY ONLY <1>2, <2>1, <2>2, <2>3 DEF After, t
<1>5. CASE j = i
  <2>1. 1 \in 1 .. n /\ 1 .. 1 - 1 = {}
    BY ONLY <1>2
  <2>2. t[1] = x
    BY ONLY <1>1, <1>3, <1>5
  <2> QED BY ONLY <1>2, <2>1, <2>2 DEF After, t
<1>6. CASE j > i
  <2>1. j \in i + 1 .. n
    BY ONLY <1>2, <1>6, j \in 1 .. n
  <2>2. t[j] = x
    BY ONLY <1>1, <1>3, <2>1
  <2>3. ASSUME NEW l \in 1 .. j - 1 PROVE t[l] \in B \cup {s[i]}
    <3>1. CASE l = 1
      BY ONLY <1>1, <3>1
    <3>2. CASE l # 1 /\ l <= i
      <4>1. PICK m \in 1 .. i - 1 : l = m + 1
        <5>1. l - 1 \in 1 .. i - 1 /\ l = (l - 1) + 1
          BY ONLY <1>2, <3>2, l \in 1 .. j - 1, j \in 1 .. n
        <5> QED BY ONLY <5>1
      <4>2. m \in 1 .. j - 1
        BY ONLY <1>2, <1>6, <4>1, j \in 1 .. n
      <4> QED BY ONLY <1>1, <1>3, <4>1, <4>2
    <3>3. CASE ~(l <= i)
      <4>1. l \in i + 1 .. n
        BY ONLY <1>2, <3>3, l \in 1 .. j - 1, j \in 1 .. n
      <4> QED BY ONLY <1>1, <1>3, <4>1, l \in 1 .. j - 1
    <3> QED BY ONLY <3>1, <3>2, <3>3
  <2> QED BY ONLY <1>2, <2>2, <2>3, j \in 1 .. n DEF After, t
<1> QED BY ONLY <1>2, <1>4, <1>5, <1>6, j \in 1 .. n

(***************************************************************************)
(* An index: keys in order, each with its size                             *)
(***************************************************************************)
EntrySet(S) == [key : S, size : Nat]
Listing(o, z) == [i \in DOMAIN o |-> [key |-> o[i], size |-> z[o[i]]]]

LEMMA FunctionIsSeq ==
  ASSUME NEW S, NEW n \in Nat, NEW f \in [1 .. n -> S]
  PROVE  f \in Seq(S) /\ Len(f) = n
<1>1. f \in Seq(S)
  BY SeqDef
<1>2. DOMAIN f = 1 .. Len(f) /\ DOMAIN f = 1 .. n /\ Len(f) \in Nat
  BY <1>1, LenProperties
<1>3. Len(f) = n
  <2> DEFINE m == Len(f)
  <2>1. 1 .. m = 1 .. n /\ m \in Nat
    BY <1>2
  <2> HIDE DEF m
  <2>2. \A j \in Int : j \in 1 .. m <=> j \in 1 .. n
    BY <2>1
  <2>3. m = n
    BY ONLY <2>1, <2>2, n \in Nat
  <2> QED BY <2>3 DEF m
<1> QED BY <1>1, <1>3

LEMMA ListingIsSeq ==
  ASSUME NEW S, NEW o \in Seq(S), NEW z \in [S -> Nat]
  PROVE  /\ Listing(o, z) \in Seq(EntrySet(S))
         /\ Len(Listing(o, z)) = Len(o) /\ DOMAIN Listing(o, z) = 1 .. Len(o)
         /\ \A i \in 1 .. Len(o) : Listing(o, z)[i] = [key |-> o[i], size |-> z[o[i]]]
<1>1. Len(o) \in Nat /\ DOMAIN o = 1 .. Len(o) /\ \A i \in 1 .. Len(o) : o[i] \in S
  BY LenProperties, ElementOfSeq
<1> DEFINE n == Len(o)
<1>2. Listing(o, z) \in [1 .. n -> EntrySet(S)]
  BY <1>1 DEF Listing, EntrySet
<1>3. n \in Nat
  BY <1>1
<1> HIDE DEF n
<1>4. Listing(o, z) \in Seq(EntrySet(S)) /\ Len(Listing(o, z)) = n
  BY ONLY <1>2, <1>3, FunctionIsSeq
<1> QED BY <1>1, <1>4 DEF Listing, n

(* An entry goes to the front, with another size.                          *)
LEMMA ListingReplaced ==
  ASSUME NEW S, NEW o \in Seq(S), IsInjective(o), NEW z \in [S -> Nat],
         NEW i \in DOMAIN o, NEW n \in Nat, NEW y, y = [z EXCEPT ![o[i]] = n]
  PROVE  Listing(ToFront(o, i), y)
           = Replaced(Listing(o, z), i, [key |-> o[i], size |-> n])
<1> DEFINE l == Len(o)
           t == ToFront(o, i)
           e == [key |-> o[i], size |-> n]
           L == Listing(o, z)
           R == Replaced(L, i, e)
           T == Listing(t, y)
<1>1. l \in Nat /\ i \in 1 .. l /\ DOMAIN o = 1 .. l /\ \A j \in 1 .. l : o[j] \in S
  BY LenProperties, ElementOfSeq
<1>2. /\ t \in Seq(S) /\ Len(t) = l /\ t[1] = o[i]
      /\ \A j \in 1 .. i - 1 : t[j + 1] = o[j]
      /\ \A j \in i + 1 .. l : t[j] = o[j]
  BY ToFrontEffect
<1>3. e \in EntrySet(S) /\ y \in [S -> Nat] /\ y[o[i]] = n
  BY <1>1 DEF EntrySet
<1>4. \A j \in 1 .. l : j # i => y[o[j]] = z[o[j]]
  BY <1>1 DEF IsInjective
<1>5. /\ L \in Seq(EntrySet(S)) /\ Len(L) = l /\ DOMAIN L = 1 .. l
      /\ \A j \in 1 .. l : L[j] = [key |-> o[j], size |-> z[o[j]]]
  BY ListingIsSeq
<1> HIDE DEF e, t, L
<1>6. /\ R \in Seq(EntrySet(S)) /\ Len(R) = l /\ R[1] = e
      /\ \A j \in 1 .. i - 1 : R[j + 1] = L[j]
      /\ \A j \in i + 1 .. l : R[j] = L[j]
  <2>1. i \in DOMAIN L
    BY ONLY <1>1, <1>5
  <2>2. R = Replaced(L, i, e)
    OBVIOUS
  <2> HIDE DEF R
  <2>3. IsReplaced(R, L, i, e, EntrySet(S))
    BY ONLY <1>3, <1>5, <2>1, <2>2, ReplacedEffect
  <2> HIDE DEF l
  <2> QED BY ONLY <1>5, <2>3 DEF IsReplaced
<1>7. /\ T \in Seq(EntrySet(S)) /\ Len(T) = l
      /\ \A j \in 1 .. l : T[j] = [key |-> t[j], size |-> y[t[j]]]
  BY ONLY <1>2, <1>3, ListingIsSeq
<1> HIDE DEF l, R, T
<1>8. ASSUME NEW j \in 1 .. l PROVE T[j] = R[j]
  <2>1. CASE j = 1
    BY ONLY <1>1, <1>2, <1>3, <1>6, <1>7, <2>1 DEF e
  <2>2. CASE j # 1 /\ j <= i
    <3>1. PICK p \in 1 .. i - 1 : j = p + 1
      <4>1. j - 1 \in 1 .. i - 1 /\ j = (j - 1) + 1
        BY ONLY <1>1, <2>2, j \in 1 .. l
      <4> QED BY ONLY <4>1
    <3>2. p \in 1 .. l /\ p # i
      BY ONLY <1>1, <3>1
    <3>3. R[j] = [key |-> o[p], size |-> z[o[p]]]
      BY ONLY <1>5, <1>6, <3>1, <3>2
    <3>4. t[j] = o[p] /\ y[o[p]] = z[o[p]]
      BY ONLY <1>2, <1>4, <3>1, <3>2
    <3>5. T[j] = [key |-> t[j], size |-> y[t[j]]]
      BY ONLY <1>7, j \in 1 .. l
    <3> QED BY ONLY <3>3, <3>4, <3>5
  <2>3. CASE ~(j <= i)
    <3>1. j \in i + 1 .. l /\ j # i
      BY ONLY <1>1, <2>3, j \in 1 .. l
    <3>2. R[j] = [key |-> o[j], size |-> z[o[j]]]
      BY ONLY <1>5, <1>6, <3>1, j \in 1 .. l
    <3>3. t[j] = o[j] /\ y[o[j]] = z[o[j]]
      BY ONLY <1>2, <1>4, <3>1, j \in 1 .. l
    <3>4. T[j] = [key |-> t[j], size |-> y[t[j]]]
      BY ONLY <1>7, j \in 1 .. l
    <3> QED BY ONLY <3>2, <3>3, <3>4
  <2> QED BY ONLY <2>1, <2>2, <2>3
<1>9. T = R
  BY ONLY <1>6, <1>7, <1>8, SeqEqual
<1> QED BY <1>9 DEF T, R, L, t, e

(* A new entry is put first.                                               *)
LEMMA ListingPushed ==
  ASSUME NEW S, NEW o \in Seq(S), NEW z \in [S -> Nat], NEW k \in S, k \notin ToSet(o),
         NEW n \in Nat, NEW y, y = [z EXCEPT ![k] = n]
  PROVE  Listing(<<k>> \o o, y) = <<[key |-> k, size |-> n]>> \o Listing(o, z)
<1> DEFINE l == Len(o)
           t == <<k>> \o o
           e == [key |-> k, size |-> n]
           L == Listing(o, z)
           R == <<e>> \o L
           T == Listing(t, y)
<1>1. l \in Nat /\ DOMAIN o = 1 .. l /\ \A j \in 1 .. l : o[j] \in S
  BY LenProperties, ElementOfSeq
<1>2. t \in Seq(S) /\ Len(t) = l + 1 /\ t[1] = k /\ \A j \in 1 .. l : t[j + 1] = o[j]
  BY FirstEffect
<1>3. e \in EntrySet(S) /\ y \in [S -> Nat] /\ y[k] = n
  BY DEF EntrySet
<1>4. \A j \in 1 .. l : y[o[j]] = z[o[j]]
  BY <1>1 DEF ToSet
<1>5. /\ L \in Seq(EntrySet(S)) /\ Len(L) = l
      /\ \A j \in 1 .. l : L[j] = [key |-> o[j], size |-> z[o[j]]]
  BY ListingIsSeq
<1> HIDE DEF e, t, L
<1>6. /\ R \in Seq(EntrySet(S)) /\ Len(R) = l + 1 /\ R[1] = e
      /\ \A j \in 1 .. l : R[j + 1] = L[j]
  <2> HIDE DEF l
  <2> QED BY ONLY <1>3, <1>5, FirstEffect
<1>7. /\ T \in Seq(EntrySet(S)) /\ Len(T) = l + 1
      /\ \A j \in 1 .. l + 1 : T[j] = [key |-> t[j], size |-> y[t[j]]]
  <2> HIDE DEF l
  <2> QED BY ONLY <1>2, <1>3, ListingIsSeq
<1> HIDE DEF l, R, T
<1>8. ASSUME NEW j \in 1 .. l + 1 PROVE T[j] = R[j]
  <2>1. CASE j = 1
    BY ONLY <1>1, <1>2, <1>3, <1>6, <1>7, <2>1, j \in 1 .. l + 1 DEF e
  <2>2. CASE j # 1
    <3>1. PICK p \in 1 .. l : j = p + 1
      <4>1. j - 1 \in 1 .. l /\ j = (j - 1) + 1
        BY ONLY <1>1, <2>2, j \in 1 .. l + 1
      <4> QED BY ONLY <4>1
    <3>2. R[j] = [key |-> o[p], size |-> z[o[p]]]
      BY ONLY <1>5, <1>6, <3>1, p \in 1 .. l
    <3>3. t[j] = o[p] /\ y[o[p]] = z[o[p]]
      BY ONLY <1>2, <1>4, <3>1, p \in 1 .. l
    <3>4. T[j] = [key |-> t[j], size |-> y[t[j]]]
      BY ONLY <1>7, j \in 1 .. l + 1
    <3> QED BY ONLY <3>2, <3>3, <3>4
  <2> QED BY ONLY <2>1, <2>2
<1>9. T = R
  BY ONLY <1>6, <1>7, <1>8, SeqEqual
<1> QED BY <1>9 DEF T, R, L, t, e

(* The last entry goes.                                                    *)
LEMMA ListingFront ==
  ASSUME NEW S, NEW o \in Seq(S), o # <<>>, NEW z \in [S -> Nat], NEW y \in [S -> Nat],
         IsInjective(o), \A k \in S : k # Last(o) => y[k] = z[k]
  PROVE  Listing(Front(o), y) = Front(Listing(o, z))
<1> DEFINE n == Len(o)
           f == Front(o)
           L == Listing(o, z)
           R == Front(L)
           T == Listing(f, y)
<1>1. /\ n \in Nat \ {0} /\ Last(o) = o[n]
      /\ f \in Seq(S) /\ Len(f) = n - 1
      /\ \A i \in 1 .. n - 1 : f[i] = o[i]
  BY FrontEffect
<1>2. DOMAIN o = 1 .. n /\ \A j \in 1 .. n : o[j] \in S
  BY LenProperties, ElementOfSeq
<1>3. /\ L \in Seq(EntrySet(S)) /\ Len(L) = n
      /\ \A j \in 1 .. n : L[j] = [key |-> o[j], size |-> z[o[j]]]
  BY ListingIsSeq
<1> HIDE DEF f, n
<1>4. \A j \in 1 .. n - 1 : j \in 1 .. n /\ j # n /\ n \in 1 .. n
  BY ONLY <1>1
<1>5. \A j \in 1 .. n - 1 : y[o[j]] = z[o[j]]
  BY <1>1, <1>2, <1>4 DEF IsInjective
<1>6. /\ T \in Seq(EntrySet(S)) /\ Len(T) = n - 1
      /\ \A j \in 1 .. n - 1 : T[j] = [key |-> f[j], size |-> y[f[j]]]
  <2> HIDE DEF T
  <2>0. f \in Seq(S) /\ T = Listing(f, y)
    BY <1>1 DEF T
  <2>1. /\ T \in Seq(EntrySet(S)) /\ Len(T) = Len(f)
        /\ \A j \in 1 .. Len(f) : T[j] = [key |-> f[j], size |-> y[f[j]]]
    BY ONLY <2>0, y \in [S -> Nat], ListingIsSeq
  <2> QED BY ONLY <1>1, <2>1
<1> HIDE DEF L, T
<1>7. R \in Seq(EntrySet(S)) /\ Len(R) = n - 1 /\ \A j \in 1 .. n - 1 : R[j] = L[j]
  <2>1. L # <<>>
    <3>1. Len(L) # 0
      BY ONLY <1>1, <1>3
    <3> QED BY ONLY <3>1, EmptySeq
  <2> QED BY ONLY <1>3, <2>1, FrontEffect
<1> HIDE DEF R
<1>8. \A j \in 1 .. n - 1 : T[j] = R[j]
  <2> TAKE j \in 1 .. n - 1
  <2>1. R[j] = [key |-> o[j], size |-> z[o[j]]]
    BY ONLY <1>3, <1>4, <1>7, j \in 1 .. n - 1
  <2>2. f[j] = o[j] /\ y[o[j]] = z[o[j]]
    BY ONLY <1>1, <1>5, j \in 1 .. n - 1
  <2>3. T[j] = [key |-> f[j], size |-> y[f[j]]]
    BY ONLY <1>6, j \in 1 .. n - 1
  <2> QED BY ONLY <2>1, <2>2, <2>3
<1>9. T = R
  BY ONLY <1>6, <1>7, <1>8, SeqEqual
<1> QED BY <1>9 DEF T, R, L, f

(* The sizes along an index add up to those of its keys.                   *)
LEMMA SumOfListing ==
  ASSUME NEW S, NEW o \in Seq(S), IsInjective(o), NEW z \in [S -> Nat]
  PROVE  SumFunction([i \in DOMAIN Listing(o, z) |-> Listing(o, z)[i].size])
           = SumFunctionOnSet(z, ToSet(o))
<1> DEFINE D == DOMAIN o
           g == [i \in D |-> z[o[i]]]
           Im(s) == {o[i] : i \in s}
           Good(s) == SumFunctionOnSet(g, s) = SumFunctionOnSet(z, Im(s))
           C == {s \in SUBSET D : ~Good(s)}
<1>1. D = 1 .. Len(o) /\ Len(o) \in Nat /\ \A i \in D : o[i] \in S
  BY LenProperties, ElementOfSeq
<1>2. IsFiniteSet(D)
  BY <1>1, FS_Interval
<1>3. SumFunction([i \in DOMAIN Listing(o, z) |-> Listing(o, z)[i].size]) = SumFunctionOnSet(g, D)
  <2>1. [i \in DOMAIN Listing(o, z) |-> Listing(o, z)[i].size] = g
    BY DEF Listing
  <2>2. DOMAIN g = D
    OBVIOUS
  <2> QED BY ONLY <2>1, <2>2 DEF SumFunction
<1>4. \A i \in D : g[i] \in Nat /\ g[i] = z[o[i]] /\ z[o[i]] \in Nat
  BY <1>1
<1>5. \A i, j \in D : o[i] = o[j] => i = j
  BY DEF IsInjective
<1> HIDE DEF D, g
<1>6. C = {}
  <2> SUFFICES ASSUME C # {} PROVE FALSE
    OBVIOUS
  <2>1. PICK T \in C : \A U \in SUBSET T : U # T => U \notin C
    <3>1. C \in SUBSET SUBSET D
      OBVIOUS
    <3> HIDE DEF C
    <3> QED BY <1>2, <3>1, SmallestSubset
  <2>2. T \subseteq D /\ ~Good(T) /\ \A U \in SUBSET T : U # T => Good(U)
    BY <2>1
  <2>3. CASE T = {}
    <3>1. Im(T) = {}
      BY <2>3
    <3> QED BY ONLY <2>2, <2>3, <3>1, SumEmpty
  <2>4. CASE T # {}
    <3>1. PICK i \in T : TRUE
      BY <2>4
    <3> DEFINE U == T \ {i}
    <3>2. Good(U)
      BY <2>2
    <3>3. IsFiniteSet(T) /\ IsFiniteSet(U) /\ \A j \in T : g[j] \in Nat
      BY <1>2, <1>4, <2>2, FS_Subset
    <3>4. SumFunctionOnSet(g, T) = g[i] + SumFunctionOnSet(g, U)
      BY <3>3, SumTakesOut
    <3>5. Im(T) = Im(U) \cup {o[i]} /\ o[i] \notin Im(U)
      BY <1>5, <2>2
    <3>6. \A x \in Im(U) \cup {o[i]} : z[x] \in Nat
      BY <1>4, <2>2
    <3>7. IsFiniteSet(Im(U))
      <4> DEFINE h == [j \in U |-> o[j]]
      <4>1. h \in Surjection(U, Im(U))
        BY DEF Surjection
      <4> HIDE DEF h, U
      <4> QED BY ONLY <3>3, <4>1, FS_Surjection
    <3> HIDE DEF U, Im
    <3>8. SumFunctionOnSet(z, Im(U) \cup {o[i]}) = z[o[i]] + SumFunctionOnSet(z, Im(U))
      BY ONLY <3>5, <3>6, <3>7, SumAdds
    <3>9. g[i] = z[o[i]]
      BY <1>4, <2>2
    <3> QED BY ONLY <2>2, <3>2, <3>4, <3>5, <3>8, <3>9
  <2> QED BY <2>3, <2>4
<1>7. Good(D)
  BY <1>6
<1>8. Im(D) = ToSet(o)
  BY DEF ToSet, D
<1> QED BY <1>3, <1>7, <1>8

(* An index with e in front, and no other entry of its key.                *)
Of(q, k) == {i \in DOMAIN q : q[i].key = k}
Top(q, e) == <<e>> \o (IF Of(q, e.key) = {} THEN q ELSE RemoveAt(q, CHOOSE i \in Of(q, e.key) : TRUE))

LEMMA TopOfOld ==
  ASSUME NEW S, NEW o \in Seq(S), IsInjective(o), NEW z \in [S -> Nat],
         NEW i \in DOMAIN o, NEW e, e.key = o[i]
  PROVE  Top(Listing(o, z), e) = Replaced(Listing(o, z), i, e)
<1>1. Of(Listing(o, z), e.key) = {i}
  BY DEF Of, Listing, IsInjective
<1>2. (CHOOSE j \in {i} : TRUE) = i
  OBVIOUS
<1> QED BY <1>1, <1>2, Zenon DEF Top, Replaced

LEMMA TopOfNew ==
  ASSUME NEW S, NEW o \in Seq(S), NEW z \in [S -> Nat], NEW e, e.key \notin ToSet(o)
  PROVE  Top(Listing(o, z), e) = <<e>> \o Listing(o, z)
<1>1. Of(Listing(o, z), e.key) = {}
  BY DEF Of, Listing, ToSet
<1> QED BY <1>1, Zenon DEF Top
=============================================================================
