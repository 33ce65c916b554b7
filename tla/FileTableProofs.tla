-------------------------- MODULE FileTableProofs ---------------------------
(***************************************************************************)
(* Proofs about FileTable.tla, for every header. The slice of a file of an *)
(* accepted table lies within its folder, so that SzArEx_Extract never     *)
(* takes a byte from outside of the unpacked folder, whatever sizes the    *)
(* header claims (IInv). The counts summed up while the header was skimmed *)
(* are the ones the loop meets, and its unchecked reads of digests and     *)
(* empty-file bits stay inside of what was measured then (HeaderInv).      *)
(*                                                                         *)
(* The second part is about what the table says: what is left of a header  *)
(* in an accepted table is what the header means, and it accepts exactly   *)
(* the headers that agree with themselves; every file is in its folder     *)
(* with its own substream, its own CRC and its own directory bit.  The     *)
(* invariant relates the loop to the reference: which folder a file is in  *)
(* (Placed), where folders and substreams are in the unpacked stream when  *)
(* no data is passed over (Spaced), and which bits are in the arrays and   *)
(* which still in the masks (FlagsInv).                                    *)
(*                                                                         *)
(* First come lemmas about the sums of the community modules               *)
(* (SumFunctionOnSet), about counting the elements of a set below a bound, *)
(* and about quotient and remainder.                                       *)
(***************************************************************************)
EXTENDS FileTable, TLAPS, FiniteSetTheorems, WellFoundedInduction

(* Sums over sets, counting below a bound, quotient and remainder, for any *)
(* set and function.  What has no least counterexample has none.           *)
(* Among subsets of a finite set there is a smallest one. *)
LEMMA FiniteMin ==
  ASSUME NEW S, IsFiniteSet(S), NEW T, T \subseteq SUBSET S, T # {}
  PROVE  \E s \in T : \A t \in T : ~ (t \subseteq s /\ t # s)
<1>1. T \subseteq FiniteSubsetsOf(S)
  BY FS_Subset DEF FiniteSubsetsOf
<1>2. \E s \in T : \A t \in T : ~ (<<t, s>> \in StrictSubsetOrdering(S))
  BY <1>1, WFMin, FS_StrictSubsetOrderingWellFounded
<1> QED BY <1>1, <1>2 DEF StrictSubsetOrdering

-----------------------------------------------------------------------------
(* SumFunctionOnSet as a function on the subsets, in the order of Pick.    *)
Pick(s) == CHOOSE x \in s : TRUE
Solves(g, f, S) ==
  g = [s \in SUBSET S |-> IF s = {} THEN 0 ELSE f[Pick(s)] + g[s \ {Pick(s)}]]

(* The sum is picked from what solves its recursion. *)
LEMMA SumIs ==
  ASSUME NEW f, NEW S
  PROVE  SumFunctionOnSet(f, S) = (CHOOSE g : Solves(g, f, S))[S]
BY DEF SumFunctionOnSet, FoldFunctionOnSet, MapThenFoldSet, Solves, Pick

(* What is picked of a set that is not empty is in it. *)
LEMMA PickIn ==
  ASSUME NEW s, s # {}
  PROVE  Pick(s) \in s
BY DEF Pick

(* A solution takes one element after another. *)
LEMMA SolvesStep ==
  ASSUME NEW f, NEW S, NEW g, Solves(g, f, S), NEW s \in SUBSET S
  PROVE  /\ s = {} => g[s] = 0
         /\ s # {} => g[s] = f[Pick(s)] + g[s \ {Pick(s)}]
BY DEF Solves

(* Two such functions agree where both are defined. *)
LEMMA SolvesAgree ==
  ASSUME NEW f, NEW S, NEW T, NEW U, IsFiniteSet(U), U \subseteq S, U \subseteq T,
         NEW g, NEW h, Solves(g, f, S), Solves(h, f, T)
  PROVE  g[U] = h[U]
<1> DEFINE bad == {s \in SUBSET U : g[s] # h[s]}
<1> SUFFICES ASSUME bad # {} PROVE FALSE
  OBVIOUS
<1>1. PICK s \in bad : \A t \in bad : ~ (t \subseteq s /\ t # s)
  <2>1. bad \subseteq SUBSET U
    OBVIOUS
  <2> HIDE DEF bad
  <2> QED BY <2>1, FiniteMin
<1>2. s # {}
  BY SolvesStep
<1> DEFINE r == s \ {Pick(s)}
<1>3. r \subseteq s /\ r # s
  BY <1>2, PickIn
<1>4. g[r] = h[r]
  BY <1>1, <1>3
<1>5. g[s] = f[Pick(s)] + g[r] /\ h[s] = f[Pick(s)] + h[r]
  BY <1>2, SolvesStep
<1> QED BY <1>4, <1>5

(* There is a solution. *)
LEMMA SolvesExists ==
  ASSUME NEW f, NEW U, IsFiniteSet(U)
  PROVE  \E g : Solves(g, f, U)
<1> DEFINE bad == {s \in SUBSET U : ~ \E g : Solves(g, f, s)}
<1> SUFFICES ASSUME bad # {} PROVE FALSE
  OBVIOUS
<1>1. PICK S \in bad : \A t \in bad : ~ (t \subseteq S /\ t # S)
  <2>1. bad \subseteq SUBSET U
    OBVIOUS
  <2> HIDE DEF bad
  <2> QED BY <2>1, FiniteMin
<1> DEFINE G(s) == CHOOSE g : Solves(g, f, s)
           val(s) == IF s = {} THEN 0 ELSE f[Pick(s)] + G(s \ {Pick(s)})[s \ {Pick(s)}]
           g == [s \in SUBSET S |-> val(s)]
<1>2. ASSUME NEW s, s \subseteq S, s # S
      PROVE  Solves(G(s), f, s)
  <2>1. \E h : Solves(h, f, s)
    BY <1>1, <1>2
  <2> QED BY <2>1
<1>3. ASSUME NEW s, s \subseteq S, s # S
      PROVE  g[s] = G(s)[s]
  <2>1. CASE s = {}
    <3>1. Solves(G(s), f, s) /\ g[s] = 0
      BY <1>2, <1>3, <2>1
    <3> HIDE DEF G, g
    <3> QED BY <2>1, <3>1, SolvesStep
  <2>2. CASE s # {}
    <3> DEFINE r == s \ {Pick(s)}
    <3>1. r \subseteq s /\ r # S /\ r \subseteq S
      BY <1>3, <2>2, PickIn
    <3>2. Solves(G(r), f, r) /\ Solves(G(s), f, s)
      BY <1>2, <1>3, <3>1
    <3>3. IsFiniteSet(r)
      BY <1>1, <3>1, FS_Subset
    <3> HIDE DEF G
    <3>4. G(s)[r] = G(r)[r]
      <4> HIDE DEF r
      <4> QED BY <3>1, <3>2, <3>3, SolvesAgree
    <3>5. G(s)[s] = f[Pick(s)] + G(s)[r]
      BY <2>2, <3>2, SolvesStep
    <3>6. g[s] = f[Pick(s)] + G(r)[r]
      BY <1>3, <2>2
    <3> QED BY <3>4, <3>5, <3>6
  <2> QED BY <2>1, <2>2
<1>4. Solves(g, f, S)
  <2>1. ASSUME NEW s \in SUBSET S, s # {}
        PROVE  g[s] = f[Pick(s)] + g[s \ {Pick(s)}]
    <3> DEFINE r == s \ {Pick(s)}
    <3>1. r \subseteq S /\ r # S
      BY <2>1, PickIn
    <3>2. g[r] = G(r)[r]
      BY <1>3, <3>1
    <3>3. g[s] = f[Pick(s)] + G(r)[r]
      BY <2>1
    <3> QED BY <3>2, <3>3
  <2>2. {} \in SUBSET S /\ g[{}] = 0
    OBVIOUS
  <2>3. g = [s \in SUBSET S |-> g[s]]
    OBVIOUS
  <2> HIDE DEF g
  <2> QED BY <2>1, <2>2, <2>3 DEF Solves
<1> QED BY <1>1, <1>4

-----------------------------------------------------------------------------
(* The sum over no indices, and over the others than the one picked.       *)
LEMMA SumPick ==
  ASSUME NEW f, NEW S, IsFiniteSet(S)
  PROVE  /\ S = {} => SumFunctionOnSet(f, S) = 0
         /\ S # {} => SumFunctionOnSet(f, S) = f[Pick(S)] + SumFunctionOnSet(f, S \ {Pick(S)})
<1> DEFINE g == CHOOSE g : Solves(g, f, S)
           r == S \ {Pick(S)}
           h == CHOOSE h : Solves(h, f, r)
<1>1. IsFiniteSet(r) /\ r \subseteq S
  BY FS_Subset
<1>2. Solves(g, f, S) /\ Solves(h, f, r)
  BY <1>1, SolvesExists
<1>3. SumFunctionOnSet(f, S) = g[S] /\ SumFunctionOnSet(f, r) = h[r]
  BY SumIs
<1>4. g[r] = h[r]
  <2> HIDE DEF g, h, r
  <2> QED BY <1>1, <1>2, SolvesAgree
<1>5. (S = {} => g[S] = 0) /\ (S # {} => g[S] = f[Pick(S)] + g[r])
  <2> HIDE DEF g
  <2> QED BY <1>2, SolvesStep
<1> QED BY <1>3, <1>4, <1>5

(* A sum of numbers is a number. *)
LEMMA SumNat ==
  ASSUME NEW S, IsFiniteSet(S), NEW f, \A x \in S : f[x] \in Nat
  PROVE  SumFunctionOnSet(f, S) \in Nat
<1> DEFINE bad == {s \in SUBSET S : SumFunctionOnSet(f, s) \notin Nat}
<1> SUFFICES ASSUME bad # {} PROVE FALSE
  OBVIOUS
<1>1. PICK s \in bad : \A t \in bad : ~ (t \subseteq s /\ t # s)
  <2>1. bad \subseteq SUBSET S
    OBVIOUS
  <2> HIDE DEF bad
  <2> QED BY <2>1, FiniteMin
<1>2. IsFiniteSet(s)
  BY <1>1, FS_Subset
<1>3. s # {}
  <2>1. ASSUME s = {} PROVE SumFunctionOnSet(f, s) = 0
    BY <1>2, <2>1, SumPick
  <2> QED BY <1>1, <2>1
<1>4. Pick(s) \in s /\ s \ {Pick(s)} \subseteq s /\ s \ {Pick(s)} # s
  BY <1>3, PickIn
<1>5. SumFunctionOnSet(f, s \ {Pick(s)}) \in Nat
  BY <1>1, <1>4
<1>6. SumFunctionOnSet(f, s) = f[Pick(s)] + SumFunctionOnSet(f, s \ {Pick(s)})
  BY <1>2, <1>3, SumPick
<1> QED BY <1>1, <1>4, <1>5, <1>6

(* The order of the indices does not matter. *)
LEMMA SumRemove ==
  ASSUME NEW S, IsFiniteSet(S), NEW f, \A x \in S : f[x] \in Nat, NEW x \in S
  PROVE  SumFunctionOnSet(f, S) = f[x] + SumFunctionOnSet(f, S \ {x})
<1> DEFINE ok(s) == \A y \in s : SumFunctionOnSet(f, s) = f[y] + SumFunctionOnSet(f, s \ {y})
           bad == {s \in SUBSET S : ~ ok(s)}
<1> SUFFICES ASSUME bad # {} PROVE FALSE
  OBVIOUS
<1>1. PICK s \in bad : \A t \in bad : ~ (t \subseteq s /\ t # s)
  <2>1. bad \subseteq SUBSET S
    OBVIOUS
  <2> HIDE DEF bad
  <2> QED BY <2>1, FiniteMin
<1>2. IsFiniteSet(s)
  BY <1>1, FS_Subset
<1>3. PICK y \in s : SumFunctionOnSet(f, s) # f[y] + SumFunctionOnSet(f, s \ {y})
  BY <1>1
<1> DEFINE p == Pick(s)
<1>4. p \in s
  BY <1>3, PickIn
<1>5. SumFunctionOnSet(f, s) = f[p] + SumFunctionOnSet(f, s \ {p})
  BY <1>2, <1>3, SumPick
<1> HIDE DEF p
<1>6. y # p
  BY <1>3, <1>5
<1>7. /\ SumFunctionOnSet(f, s \ {p}) = f[y] + SumFunctionOnSet(f, (s \ {p}) \ {y})
      /\ SumFunctionOnSet(f, s \ {y}) = f[p] + SumFunctionOnSet(f, (s \ {y}) \ {p})
  <2>1. ok(s \ {p}) /\ ok(s \ {y})
    BY <1>1, <1>3, <1>4
  <2> QED BY <1>3, <1>4, <1>6, <2>1
<1>8. (s \ {p}) \ {y} = (s \ {y}) \ {p}
  OBVIOUS
<1>9. SumFunctionOnSet(f, (s \ {p}) \ {y}) \in Nat /\ f[p] \in Nat /\ f[y] \in Nat
  <2>1. IsFiniteSet((s \ {p}) \ {y}) /\ (s \ {p}) \ {y} \subseteq S
    BY <1>1, <1>2, FS_Subset
  <2> QED BY <1>1, <1>3, <1>4, <2>1, SumNat
<1> DEFINE rest == SumFunctionOnSet(f, (s \ {p}) \ {y})
<1>a. SumFunctionOnSet(f, (s \ {y}) \ {p}) = rest
  BY <1>8
<1>b. SumFunctionOnSet(f, s) = f[p] + (f[y] + rest) /\ SumFunctionOnSet(f, s \ {y}) = f[p] + rest
  BY <1>5, <1>7, <1>a
<1>c. rest \in Nat
  BY <1>9
<1> HIDE DEF rest
<1>d. SumFunctionOnSet(f, s) = f[y] + (f[p] + rest)
  BY <1>9, <1>b, <1>c
<1> QED BY <1>3, <1>b, <1>d

(* The sum depends on what is summed only. *)
LEMMA SumSame ==
  ASSUME NEW S, IsFiniteSet(S), NEW f, NEW g, \A x \in S : f[x] = g[x]
  PROVE  SumFunctionOnSet(f, S) = SumFunctionOnSet(g, S)
<1> DEFINE bad == {s \in SUBSET S : SumFunctionOnSet(f, s) # SumFunctionOnSet(g, s)}
<1> SUFFICES ASSUME bad # {} PROVE FALSE
  OBVIOUS
<1>1. PICK s \in bad : \A t \in bad : ~ (t \subseteq s /\ t # s)
  <2>1. bad \subseteq SUBSET S
    OBVIOUS
  <2> HIDE DEF bad
  <2> QED BY <2>1, FiniteMin
<1>2. IsFiniteSet(s)
  BY <1>1, FS_Subset
<1>3. s # {}
  BY <1>1, <1>2, SumPick
<1>4. Pick(s) \in s /\ s \ {Pick(s)} \subseteq s /\ s \ {Pick(s)} # s
  BY <1>3, PickIn
<1>5. SumFunctionOnSet(f, s \ {Pick(s)}) = SumFunctionOnSet(g, s \ {Pick(s)})
  BY <1>1, <1>4
<1> QED BY <1>1, <1>2, <1>3, <1>4, <1>5, SumPick

(* Sums over the first indices. *)
LEMMA SumNext ==
  ASSUME NEW a \in Int, NEW n \in Int, a <= n, NEW f, \A k \in a .. n : f[k] \in Nat
  PROVE  SumFunctionOnSet(f, a .. n) = SumFunctionOnSet(f, a .. n - 1) + f[n]
<1>1. IsFiniteSet(a .. n) /\ IsFiniteSet(a .. n - 1)
  BY FS_Interval
<1>2. (a .. n) \ {n} = a .. n - 1 /\ n \in a .. n
  OBVIOUS
<1>3. SumFunctionOnSet(f, a .. n) = f[n] + SumFunctionOnSet(f, (a .. n) \ {n})
  BY <1>1, <1>2, SumRemove
<1>4. SumFunctionOnSet(f, a .. n - 1) \in Nat
  BY <1>1, SumNat
<1>5. f[n] \in Nat
  BY <1>2
<1> DEFINE before == SumFunctionOnSet(f, a .. n - 1)
<1>6. SumFunctionOnSet(f, a .. n) = f[n] + before
  BY <1>2, <1>3
<1>7. before \in Nat
  BY <1>4
<1> HIDE DEF before
<1>8. SumFunctionOnSet(f, a .. n) = before + f[n]
  BY <1>5, <1>6, <1>7
<1> QED BY <1>8 DEF before

(* The sum over nothing. *)
LEMMA SumNone ==
  ASSUME NEW a \in Int, NEW n \in Int, n < a, NEW f
  PROVE  SumFunctionOnSet(f, a .. n) = 0
<1>1. IsFiniteSet({}) /\ a .. n = {}
  BY FS_EmptySet
<1> QED BY <1>1, SumPick

(* More indices make no smaller sum. *)
LEMMA SumGrows ==
  ASSUME NEW T, IsFiniteSet(T), NEW f, \A x \in T : f[x] \in Nat, NEW S, S \subseteq T
  PROVE  SumFunctionOnSet(f, S) <= SumFunctionOnSet(f, T)
<1> DEFINE bad == {s \in SUBSET T : S \subseteq s /\ ~ (SumFunctionOnSet(f, S) <= SumFunctionOnSet(f, s))}
<1> SUFFICES ASSUME bad # {} PROVE FALSE
  OBVIOUS
<1>1. PICK s \in bad : \A t \in bad : ~ (t \subseteq s /\ t # s)
  <2>1. bad \subseteq SUBSET T
    OBVIOUS
  <2> HIDE DEF bad
  <2> QED BY <2>1, FiniteMin
<1>2. IsFiniteSet(s) /\ IsFiniteSet(S)
  BY <1>1, FS_Subset
<1>3. SumFunctionOnSet(f, S) \in Nat /\ SumFunctionOnSet(f, s) \in Nat
  BY <1>1, <1>2, SumNat
<1>4. PICK x \in s : x \notin S
  <2>1. S # s
    BY <1>1, <1>3
  <2> QED BY <1>1, <2>1
<1>5. S \subseteq s \ {x} /\ s \ {x} \subseteq s /\ s \ {x} # s
  BY <1>1, <1>4
<1>6. SumFunctionOnSet(f, S) <= SumFunctionOnSet(f, s \ {x})
  BY <1>1, <1>5
<1>7. SumFunctionOnSet(f, s) = f[x] + SumFunctionOnSet(f, s \ {x})
  BY <1>1, <1>2, <1>4, SumRemove
<1>8. SumFunctionOnSet(f, s \ {x}) \in Nat /\ f[x] \in Nat
  BY <1>1, <1>2, <1>4, <1>5, FS_Subset, SumNat
<1> QED BY <1>1, <1>3, <1>6, <1>7, <1>8

-----------------------------------------------------------------------------
(* How many elements of a set are below a bound. *)
LEMMA CountBelow ==
  ASSUME NEW S, S \subseteq Nat, IsFiniteSet(S)
  PROVE  /\ Cardinality({l \in S : l < 0}) = 0
         /\ \A k \in Nat : Cardinality({l \in S : l < k}) \in Nat
         /\ \A k \in Nat : Cardinality({l \in S : l < k}) <= Cardinality(S)
         /\ \A k \in Nat : Cardinality({l \in S : l < k + 1}) =
                           Cardinality({l \in S : l < k}) + IF k \in S THEN 1 ELSE 0
         /\ \A j, k \in Nat : j <= k =>
              Cardinality({l \in S : l < j}) <= Cardinality({l \in S : l < k})
<1>1. {l \in S : l < 0} = {}
  <2>1. \A l \in S : ~ (l < 0)
    OBVIOUS
  <2> QED BY <2>1
<1>2. ASSUME NEW k \in Nat
      PROVE  /\ IsFiniteSet({l \in S : l < k})
             /\ Cardinality({l \in S : l < k}) \in Nat
             /\ Cardinality({l \in S : l < k}) <= Cardinality(S)
  <2>1. {l \in S : l < k} \in SUBSET S
    OBVIOUS
  <2> QED BY <2>1, FS_Subset, FS_CardinalityType
<1>3. ASSUME NEW k \in Nat
      PROVE  Cardinality({l \in S : l < k + 1}) =
               Cardinality({l \in S : l < k}) + IF k \in S THEN 1 ELSE 0
  <2> DEFINE B == {l \in S : l < k}
  <2>1. CASE k \in S
    <3>1. {l \in S : l < k + 1} = B \cup {k} /\ k \notin B
      <4>1. \A l \in S : l < k + 1 <=> l < k \/ l = k
        OBVIOUS
      <4>2. ~ (k < k)
        OBVIOUS
      <4> QED BY <2>1, <4>1, <4>2
    <3>2. IsFiniteSet(B)
      BY <1>2
    <3> HIDE DEF B
    <3>3. Cardinality(B \cup {k}) = Cardinality(B) + 1
      BY <3>1, <3>2, FS_AddElement
    <3> QED BY <2>1, <3>1, <3>3 DEF B
  <2>2. CASE k \notin S
    <3>1. {l \in S : l < k + 1} = B
      <4>1. \A l \in S : l < k + 1 <=> l < k
        BY <2>2
      <4> QED BY <4>1
    <3>2. Cardinality(B) \in Nat
      BY <1>2
    <3> QED BY <2>2, <3>1, <3>2
  <2> QED BY <2>1, <2>2
<1>4. ASSUME NEW j \in Nat, NEW k \in Nat, j <= k
      PROVE  Cardinality({l \in S : l < j}) <= Cardinality({l \in S : l < k})
  <2>1. {l \in S : l < j} \in SUBSET {l \in S : l < k}
    <3>1. \A l \in S : l < j => l < k
      BY <1>4
    <3> QED BY <3>1
  <2>2. IsFiniteSet({l \in S : l < k})
    BY <1>2
  <2> QED BY <2>1, <2>2, FS_Subset
<1> QED BY <1>1, <1>2, <1>3, <1>4, FS_EmptySet

(* One bound further, that is one element more or none. *)
LEMMA CountNext ==
  ASSUME NEW S, S \subseteq Nat, IsFiniteSet(S), NEW k \in Nat
  PROVE  /\ Cardinality({l \in S : l < k}) \in Nat
         /\ Cardinality({l \in S : l < k + 1}) =
              Cardinality({l \in S : l < k}) + IF k \in S THEN 1 ELSE 0
<1>1. /\ \A n \in Nat : Cardinality({l \in S : l < n}) \in Nat
      /\ \A n \in Nat : Cardinality({l \in S : l < n + 1}) =
                        Cardinality({l \in S : l < n}) + IF n \in S THEN 1 ELSE 0
  BY CountBelow
<1> QED BY <1>1

-----------------------------------------------------------------------------
(* Bytes and bits. *)
LEMMA MulGap ==
  ASSUME NEW m \in Nat \ {0}, NEW a \in Nat, NEW b \in Nat, a < b
  PROVE  m * a + m <= m * b
<1>1. m * a + m = m * (a + 1)
  OBVIOUS
<1>2. m * (a + 1) <= m * b
  <2>1. PICK c \in Nat : b = (a + 1) + c
    <3>1. b - (a + 1) \in Nat /\ b = (a + 1) + (b - (a + 1))
      OBVIOUS
    <3> QED BY <3>1
  <2>2. m * b = m * (a + 1) + m * c
    BY <2>1
  <2>3. m * c \in Nat /\ m * (a + 1) \in Nat
    OBVIOUS
  <2> QED BY <2>2, <2>3
<1> QED BY <1>1, <1>2

(* Quotient and remainder. *)
LEMMA DivMod ==
  ASSUME NEW m \in Nat \ {0}, NEW x \in Nat
  PROVE  /\ x \div m \in Nat /\ x % m \in 0 .. m - 1
         /\ x = m * (x \div m) + (x % m)
<1>1. x \div m \in Nat
  OBVIOUS
<1>2. x % m \in 0 .. m - 1
  OBVIOUS
<1>3. x = m * (x \div m) + (x % m)
  <2>1. m \in Int /\ m > 0 /\ x \in Int
    OBVIOUS
  <2> QED BY <2>1
<1> QED BY <1>1, <1>2, <1>3

(* They are the only ones. *)
LEMMA DivModIs ==
  ASSUME NEW m \in Nat \ {0}, NEW q \in Nat, NEW r \in 0 .. m - 1, NEW x, x = m * q + r
  PROVE  x \div m = q /\ x % m = r
<1>1. x \in Nat
  <2>1. m * q \in Nat
    OBVIOUS
  <2> QED BY <2>1
<1>2. PICK d \in Nat, s \in 0 .. m - 1 : d = x \div m /\ s = x % m /\ x = m * d + s
  BY <1>1, DivMod
<1>3. m * q \in Nat /\ m * d \in Nat
  OBVIOUS
<1>4. ~ (d < q)
  <2> SUFFICES ASSUME d < q PROVE FALSE
    OBVIOUS
  <2>1. m * d + m <= m * q
    BY MulGap
  <2> QED BY <1>2, <1>3, <2>1
<1>5. ~ (q < d)
  <2> SUFFICES ASSUME q < d PROVE FALSE
    OBVIOUS
  <2>1. m * q + m <= m * d
    BY MulGap
  <2> QED BY <1>2, <1>3, <2>1
<1>6. d = q
  BY <1>4, <1>5
<1> QED BY <1>2, <1>3, <1>6

-----------------------------------------------------------------------------
(* What the proof needs of the header. *)
HdrOK ==
  /\ numFiles \in Nat /\ NumFolders \in Nat
  /\ hdr.folderSize \in [0 .. NumFolders - 1 -> Position]

(* The types of the variables the slices depend on. *)
TableOK ==
  /\ UnpackPositions \in [0 .. numFiles -> Position]
  /\ FolderToFile \in [0 .. NumFolders -> 0 .. numFiles]
  /\ FileToFolder \in [0 .. numFiles - 1 -> Int]
  /\ i \in 0 .. numFiles /\ folderIndex \in 0 .. NumFolders
  /\ unpackPos \in Position
  /\ sdSizes \in Seq(Position) /\ sdNumSubStreams \in Seq(Nat)
  /\ remSubStreams \in Nat

(* Where the loop is. *)
LoopOK ==
  /\ pc \in {"counts", "file", "folder", "substream", "rest", "done"}
  /\ pc # "done" => res = "none"
  /\ pc \in {"counts", "folder", "rest"} => remSubStreams = 0
  /\ pc \in {"folder", "substream"} => i < numFiles
  /\ pc = "substream" => remSubStreams # 0
  /\ pc = "counts" => i = 0
  /\ pc = "rest" => i = numFiles

(* The position where file k ends: the next file's, or the loop's own when *)
(* it is not stored yet.                                                   *)
Stored == pc \in {"folder", "substream", "rest"}
Start(f) == UnpackPositions[FolderToFile[f]]
End(k) == IF k + 1 < i \/ Stored THEN UnpackPositions[k + 1] ELSE unpackPos

(* The slice of each file the loop is through with is inside of its        *)
(* folder, or inside of what was read of it so far.                        *)
SliceOK(k) ==
  LET f == FileToFolder[k]
  IN  InFolder(k) =>
        /\ f \in 0 .. NumFolders - 1 /\ f <= folderIndex
        /\ FolderToFile[f] <= k
        /\ Start(f) <= UnpackPositions[k] /\ UnpackPositions[k] <= End(k)
        /\ f < folderIndex => End(k) <= Start(f) + hdr.folderSize[f]
        /\ f = folderIndex => remSubStreams # 0 /\ End(k) <= unpackPos

(* The folder that is not used up yet, and the position the loop is at.    *)
OpenOK ==
  /\ remSubStreams # 0 =>
       /\ folderIndex < NumFolders
       /\ FolderToFile[folderIndex] <= i
       /\ pc = "file" => FolderToFile[folderIndex] < i
       /\ Start(folderIndex) <= unpackPos
       /\ pc = "substream" => Start(folderIndex) <= UnpackPositions[i]
  /\ pc \in {"folder", "substream"} => UnpackPositions[i] <= unpackPos

IInv ==
  /\ HdrOK /\ TableOK /\ LoopOK
  /\ pc # "done" => OpenOK /\ \A k \in 0 .. i - 1 : SliceOK(k)
  /\ SlicesInFolder

-----------------------------------------------------------------------------
(* A sum that is not below what was added did not wrap. *)
LEMMA Plus64Fits ==
  ASSUME NEW a \in Position, NEW b \in Position
  PROVE  /\ Plus64(a, b) \in Position
         /\ b <= Plus64(a, b) => Plus64(a, b) = a + b
BY FileTableAssumption DEF Plus64, Position

(* A difference of positions in order did not wrap. *)
LEMMA Minus64Fits ==
  ASSUME NEW a \in Position, NEW b \in Position, b <= a
  PROVE  Minus64(a, b) = a - b
BY FileTableAssumption DEF Minus64, Position

(* The tables start empty. *)
LEMMA InitInv == Init => IInv
<1> SUFFICES ASSUME Init PROVE IInv
  OBVIOUS
<1>1. PICK crcs \in Crcs, nf \in 0 .. MaxFiles, m \in 0 .. MaxFolders :
        \E h \in Headers(nf, m, crcs) :
        \E n \in 0 .. MaxFolders * MaxSubStreams : \E sizes \in SeqsOf(SizesWith(crcs), n) :
           /\ hdr.numFiles = h.numFiles /\ hdr.numFolders = h.numFolders
           /\ hdr.folderSize = h.folderSize
           /\ sdNumSubStreams = h.nums /\ sdSizes = sizes
           /\ UnpackPositions = [k \in 0 .. h.numFiles |-> 0]
           /\ FolderToFile = [f \in 0 .. h.numFolders |-> 0]
           /\ FileToFolder = [k \in Range0(h.numFiles) |-> 0]
  BY DEF Init
<1>h. PICK h \in Headers(nf, m, crcs) : \E n \in 0 .. MaxFolders * MaxSubStreams :
        \E sizes \in SeqsOf(SizesWith(crcs), n) :
           /\ hdr.numFiles = h.numFiles /\ hdr.numFolders = h.numFolders
           /\ hdr.folderSize = h.folderSize
           /\ sdNumSubStreams = h.nums /\ sdSizes = sizes
           /\ UnpackPositions = [k \in 0 .. h.numFiles |-> 0]
           /\ FolderToFile = [f \in 0 .. h.numFolders |-> 0]
           /\ FileToFolder = [k \in Range0(h.numFiles) |-> 0]
  BY <1>1
<1>s. SizesWith(crcs) \subseteq Sizes
  BY FileTableAssumption DEF SizesWith
<1>2. /\ h.numFiles \in Nat /\ h.numFolders \in Nat
      /\ h.folderSize \in [Range0(h.numFolders) -> Sizes]
      /\ h.nums \in Seq(Nat)
  <2>1. /\ h.numFiles = nf /\ h.numFolders = m
        /\ h.folderSize \in [Range0(m) -> SizesWith(crcs)]
        /\ h.nums \in SeqsOf(0 .. MaxSubStreams, m) \cup {<< >>}
    BY <1>h DEF Headers
  <2>2. m \in Nat /\ nf \in Nat
    BY FileTableAssumption
  <2>3. SeqsOf(0 .. MaxSubStreams, m) \subseteq Seq(Nat)
    BY <2>2, FileTableAssumption DEF SeqsOf
  <2>4. << >> \in Seq(Nat)
    OBVIOUS
  <2>5. h.nums \in Seq(Nat)
    BY <2>1, <2>3, <2>4
  <2> QED BY <2>1, <2>2, <2>5, <1>s
<1>3. 0 \in Position /\ Sizes \subseteq Position
  BY FileTableAssumption DEF Position
<1>4. HdrOK
  BY <1>h, <1>2, <1>3 DEF HdrOK, numFiles, NumFolders, Range0
<1>5. sdSizes \in Seq(Position)
  BY <1>h, <1>3, <1>s DEF SeqsOf
<1>6. TableOK
  BY <1>h, <1>2, <1>3, <1>5 DEF TableOK, Init, numFiles, NumFolders, Range0
<1>7. LoopOK
  BY DEF LoopOK, Init
<1>8. OpenOK /\ (\A k \in 0 .. i - 1 : SliceOK(k)) /\ SlicesInFolder
  BY DEF OpenOK, Init, SlicesInFolder
<1> QED BY <1>4, <1>6, <1>7, <1>8 DEF IInv

(* Giving up keeps the invariant: the table is not used. *)
LEMMA FailInv == IInv /\ Fail => IInv'
BY DEF IInv, Fail, Return, HdrOK, TableOK, LoopOK, SlicesInFolder, positions, cursors, bits,
   numFiles, NumFolders, Position

(* The test of the counts moves nothing. *)
LEMMA CheckCountsInv == IInv /\ CheckCounts => IInv'
<1> SUFFICES ASSUME IInv, CheckCounts, ~ Fail PROVE IInv'
  BY FailInv
<1>1. /\ pc = "counts" /\ pc' = "file" /\ res' = res
      /\ UNCHANGED <<hdr, positions, cursors, i>>
  BY DEF CheckCounts, Goto
<1>2. HdrOK' /\ TableOK' /\ LoopOK'
  BY <1>1 DEF IInv, HdrOK, TableOK, LoopOK, positions, cursors, numFiles, NumFolders, Position
<1>3. OpenOK' /\ SlicesInFolder' /\ i' = 0
  BY <1>1 DEF IInv, LoopOK, OpenOK, SlicesInFolder, cursors
<1> QED BY <1>2, <1>3 DEF IInv

(* The facts about the state every step starts from. *)
LEMMA Facts ==
  ASSUME HdrOK, TableOK
  PROVE  /\ numFiles \in Nat /\ NumFolders \in Nat /\ i \in Nat /\ folderIndex \in Nat
         /\ unpackPos \in Position /\ Position \subseteq Nat /\ remSubStreams \in Nat
         /\ UnpackPositions \in [0 .. numFiles -> Position]
         /\ FolderToFile \in [0 .. NumFolders -> 0 .. numFiles]
         /\ FileToFolder \in [0 .. numFiles - 1 -> Int]
         /\ i <= numFiles /\ folderIndex <= NumFolders
BY FileTableAssumption DEF HdrOK, TableOK, Position

(* A file starts where the loop is; a file without data ends there. *)
LEMMA StartFileInv == IInv /\ StartFile => IInv'
<1> SUFFICES ASSUME IInv, StartFile PROVE IInv'
  OBVIOUS
<1>0. /\ HdrOK /\ TableOK /\ LoopOK /\ OpenOK /\ SlicesInFolder
      /\ \A k \in 0 .. i - 1 : SliceOK(k)
  BY DEF IInv, StartFile
<1>1. /\ pc = "file" /\ i < numFiles /\ res' = res
      /\ UnpackPositions' = [UnpackPositions EXCEPT ![i] = unpackPos]
      /\ UNCHANGED <<hdr, FolderToFile, cursors>>
  BY DEF StartFile, Goto
<1>2. \/ /\ i' = i + 1 /\ pc' = "file"
         /\ FileToFolder' = [FileToFolder EXCEPT ![i] =
                               IF remSubStreams = 0 THEN NoFolder ELSE folderIndex]
      \/ /\ i' = i /\ pc' = (IF remSubStreams = 0 THEN "folder" ELSE "substream")
         /\ FileToFolder' = FileToFolder
  BY DEF StartFile, Goto, NextFile
<1>3. /\ numFiles \in Nat /\ NumFolders \in Nat /\ i \in Nat /\ folderIndex \in Nat
      /\ unpackPos \in Position /\ Position \subseteq Nat /\ remSubStreams \in Nat
      /\ UnpackPositions \in [0 .. numFiles -> Position]
      /\ FolderToFile \in [0 .. NumFolders -> 0 .. numFiles]
      /\ FileToFolder \in [0 .. numFiles - 1 -> Int]
      /\ i <= numFiles /\ folderIndex <= NumFolders
  BY <1>0, Facts
<1>4. /\ numFiles' = numFiles /\ NumFolders' = NumFolders /\ hdr' = hdr
      /\ UNCHANGED <<FolderToFile, folderIndex, remSubStreams, unpackPos, sdSizes, sdNumSubStreams>>
  BY <1>1 DEF numFiles, NumFolders, cursors
<1>5. HdrOK'
  BY <1>0, <1>4 DEF HdrOK, Position
<1>6. TableOK'
  <2>1. UnpackPositions' \in [0 .. numFiles -> Position]
    BY <1>1, <1>3
  <2>2. FileToFolder' \in [0 .. numFiles - 1 -> Int] /\ i' \in 0 .. numFiles
    BY <1>1, <1>2, <1>3 DEF NoFolder
  <2> QED BY <1>0, <1>4, <2>1, <2>2 DEF TableOK, Position
<1>7. LoopOK'
  BY <1>0, <1>1, <1>2, <1>3, <1>4 DEF LoopOK
<1>8. OpenOK'
  <2>1. remSubStreams # 0 => Start(folderIndex)' = Start(folderIndex)
    BY <1>0, <1>1, <1>3, <1>4 DEF OpenOK, Start
  <2>2. UnpackPositions'[i] = unpackPos
    BY <1>1, <1>3
  <2> QED BY SMTT(30), <1>0, <1>1, <1>2, <1>3, <1>4, <2>1, <2>2 DEF OpenOK
<1>9. ASSUME NEW k \in 0 .. i - 1 PROVE SliceOK(k)'
  <2>1. /\ SliceOK(k) /\ FileToFolder'[k] = FileToFolder[k]
        /\ UnpackPositions'[k] = UnpackPositions[k]
    BY <1>0, <1>1, <1>2, <1>3
  <2>2. End(k)' = End(k)
    BY <1>1, <1>2, <1>3, <1>4 DEF End, Stored
  <2>3. InFolder(k) => Start(FileToFolder[k])' = Start(FileToFolder[k])
    BY <1>1, <1>3, <1>4, <2>1 DEF SliceOK, Start
  <2> QED BY <1>4, <2>1, <2>2, <2>3 DEF SliceOK, InFolder
<1>10. ASSUME NEW k \in Nat, k = i, i' = i + 1 PROVE SliceOK(k)'
  <2>1. /\ FileToFolder'[k] = (IF remSubStreams = 0 THEN NoFolder ELSE folderIndex)
        /\ UnpackPositions'[k] = unpackPos /\ End(k)' = unpackPos
    BY <1>1, <1>2, <1>3, <1>4, <1>10 DEF End, Stored
  <2>2. CASE remSubStreams = 0
    BY <2>1, <2>2 DEF SliceOK, InFolder
  <2>3. CASE remSubStreams # 0
    <3>1. /\ folderIndex \in 0 .. NumFolders - 1 /\ FolderToFile[folderIndex] < k
          /\ Start(folderIndex) <= unpackPos
      BY <1>0, <1>1, <1>3, <1>10, <2>3 DEF OpenOK
    <3>2. Start(folderIndex)' = Start(folderIndex)
      BY <1>1, <1>3, <1>4, <1>10, <3>1 DEF Start
    <3>3. FolderToFile[folderIndex] \in Nat
      BY <1>3, <3>1
    <3> HIDE DEF Start
    <3> QED BY SMTT(30), <1>3, <1>4, <2>1, <2>3, <3>1, <3>2, <3>3 DEF SliceOK, InFolder
  <2> QED BY <2>2, <2>3
<1>11. \A k \in 0 .. i' - 1 : SliceOK(k)'
  <2> SUFFICES ASSUME NEW k \in 0 .. i' - 1 PROVE SliceOK(k)'
    BY <1>2, <1>3
  <2>1. k \in 0 .. i - 1 \/ (k = i /\ i' = i + 1)
    BY <1>2, <1>3
  <2> QED BY <1>3, <1>9, <1>10, <2>1
<1>12. SlicesInFolder'
  BY <1>0, <1>1, <1>2 DEF SlicesInFolder, LoopOK
<1> QED BY <1>5, <1>6, <1>7, <1>8, <1>11, <1>12 DEF IInv

(* A folder starts at the file it is opened for; one without substreams is *)
(* passed over whole.                                                      *)
LEMMA OpenFolderInv == IInv /\ OpenFolder => IInv'
<1> SUFFICES ASSUME IInv, OpenFolder, ~ Fail PROVE IInv'
  BY FailInv
<1>0. /\ HdrOK /\ TableOK /\ LoopOK /\ OpenOK /\ SlicesInFolder
      /\ \A k \in 0 .. i - 1 : SliceOK(k)
  BY DEF IInv, OpenFolder
<1>1. /\ pc = "folder" /\ folderIndex < NumFolders /\ ~ NumsMissing /\ res' = res
      /\ FolderToFile' = [FolderToFile EXCEPT ![folderIndex] = i]
      /\ ReadNum /\ remSubStreams' = NextNum
      /\ UNCHANGED <<hdr, UnpackPositions, FileToFolder, sdSizes, i>>
      /\ \/ NextNum # 0 /\ pc' = "substream" /\ UNCHANGED <<unpackPos, folderIndex>>
         \/ /\ NextNum = 0 /\ pc' = "folder" /\ folderIndex' = folderIndex + 1
            /\ unpackPos' = Plus64(unpackPos, FolderUnpackSize)
            /\ ~ (Plus64(unpackPos, FolderUnpackSize) < FolderUnpackSize)
  <2>1. ~ (\/ folderIndex >= NumFolders
           \/ NumsMissing
           \/ NextNum = 0 /\ Plus64(unpackPos, FolderUnpackSize) < FolderUnpackSize)
    BY DEF OpenFolder
  <2> QED BY <1>0, <2>1, Facts DEF OpenFolder, Goto
<1>2. numFiles' = numFiles /\ NumFolders' = NumFolders
  BY <1>1 DEF numFiles, NumFolders
<1>3. /\ numFiles \in Nat /\ NumFolders \in Nat /\ i \in Nat /\ folderIndex \in Nat
      /\ unpackPos \in Position /\ Position \subseteq Nat
      /\ UnpackPositions \in [0 .. numFiles -> Position]
      /\ FolderToFile \in [0 .. NumFolders -> 0 .. numFiles]
      /\ FileToFolder \in [0 .. numFiles - 1 -> Int]
      /\ i < numFiles /\ remSubStreams = 0
  BY <1>0, <1>1, Facts DEF LoopOK
<1>4. FolderUnpackSize \in Position
  BY <1>0, <1>1, <1>3 DEF HdrOK, FolderUnpackSize
<1>5. unpackPos' \in Position /\ unpackPos <= unpackPos'
  <2>1. CASE UNCHANGED unpackPos
    BY <1>3, <2>1
  <2>2. CASE /\ unpackPos' = Plus64(unpackPos, FolderUnpackSize)
             /\ ~ (Plus64(unpackPos, FolderUnpackSize) < FolderUnpackSize)
    <3>1. Plus64(unpackPos, FolderUnpackSize) \in Position
      BY <1>3, <1>4, Plus64Fits
    <3>2. FolderUnpackSize <= Plus64(unpackPos, FolderUnpackSize)
      BY <1>4, <2>2, <3>1, FileTableAssumption DEF Position
    <3>3. unpackPos' = unpackPos + FolderUnpackSize
      BY <1>3, <1>4, <2>2, <3>2, Plus64Fits
    <3> QED BY <1>3, <1>4, <2>2, <3>1, <3>3, FileTableAssumption DEF Position
  <2> QED BY <1>1, <2>1, <2>2
<1>6. NextNum \in Nat /\ sdNumSubStreams' \in Seq(Nat)
  BY <1>0, <1>1 DEF TableOK, NextNum, ReadNum, NumsMissing
<1>7. HdrOK'
  BY <1>0, <1>1, <1>2 DEF HdrOK, Position
<1>8. TableOK'
  <2>1. FolderToFile' \in [0 .. NumFolders -> 0 .. numFiles] /\ folderIndex' \in 0 .. NumFolders
    BY <1>1, <1>3
  <2> QED BY <1>0, <1>1, <1>2, <1>5, <1>6, <2>1 DEF TableOK, Position
<1>9. LoopOK'
  BY <1>0, <1>1, <1>2, <1>3 DEF LoopOK
<1>10. OpenOK'
  <2>1. FolderToFile'[folderIndex] = i /\ UnpackPositions[i] <= unpackPos
    BY <1>0, <1>1, <1>3 DEF OpenOK
  <2>2. UnpackPositions[i] \in Nat /\ unpackPos \in Nat /\ unpackPos' \in Nat
    <3>1. UnpackPositions[i] \in Position
      BY <1>3
    <3> QED BY <1>3, <1>5, <3>1
  <2>3. UnpackPositions'[i'] <= unpackPos'
    BY <1>1, <1>5, <2>1, <2>2
  <2>4. folderIndex' = folderIndex => Start(folderIndex)' = UnpackPositions[i]
    BY <1>1, <2>1 DEF Start
  <2> HIDE DEF Start
  <2>5. CASE NextNum # 0
    BY <1>1, <1>2, <1>3, <2>1, <2>2, <2>3, <2>4, <2>5 DEF OpenOK
  <2>6. CASE NextNum = 0
    BY <1>1, <2>3, <2>6 DEF OpenOK
  <2> QED BY <2>5, <2>6
<1>11. ASSUME NEW k \in 0 .. i - 1 PROVE SliceOK(k)'
  <2>1. SliceOK(k) /\ FileToFolder'[k] = FileToFolder[k] /\ End(k)' = End(k)
    BY <1>0, <1>1, <1>3 DEF End, Stored
  <2>a. InFolder(k) => FileToFolder[k] < folderIndex /\ FileToFolder[k] \in 0 .. NumFolders - 1
    BY <1>3, <2>1 DEF SliceOK
  <2>2. InFolder(k) => FolderToFile'[FileToFolder[k]] = FolderToFile[FileToFolder[k]]
    BY <1>1, <1>3, <2>a
  <2>3. InFolder(k) => Start(FileToFolder[k])' = Start(FileToFolder[k])
    BY <1>1, <2>1, <2>2 DEF Start
  <2>4. folderIndex' \in {folderIndex, folderIndex + 1}
    BY <1>1
  <2> QED BY SMTT(30), <1>1, <1>2, <1>3, <2>1, <2>a, <2>2, <2>3, <2>4 DEF SliceOK, InFolder
<1>12. SlicesInFolder'
  BY <1>0, <1>1 DEF SlicesInFolder, LoopOK
<1> QED BY <1>1, <1>7, <1>8, <1>9, <1>10, <1>11, <1>12 DEF IInv

(* A substream ends within its folder: the wrap checks say so. *)
LEMMA TakeSubStreamInv == IInv /\ TakeSubStream => IInv'
<1> SUFFICES ASSUME IInv, TakeSubStream, ~ Fail PROVE IInv'
  BY FailInv
<1>0. /\ HdrOK /\ TableOK /\ LoopOK /\ OpenOK /\ SlicesInFolder
      /\ \A k \in 0 .. i - 1 : SliceOK(k)
  BY DEF IInv, TakeSubStream
<1>1. /\ pc = "substream" /\ SubStreamFits /\ res' = res /\ pc' = "file" /\ i' = i + 1
      /\ FileToFolder' = [FileToFolder EXCEPT ![i] = folderIndex]
      /\ remSubStreams' = remSubStreams - 1
      /\ unpackPos' = SubStreamEnd
      /\ IF remSubStreams = 1
         THEN folderIndex' = folderIndex + 1 /\ UNCHANGED sdSizes
         ELSE sdSizes' = Tail(sdSizes) /\ UNCHANGED folderIndex
      /\ UNCHANGED <<hdr, UnpackPositions, FolderToFile, sdNumSubStreams>>
  BY DEF TakeSubStream, Goto, NextFile
<1>2. numFiles' = numFiles /\ NumFolders' = NumFolders
  BY <1>1 DEF numFiles, NumFolders
<1>3. /\ numFiles \in Nat /\ NumFolders \in Nat /\ i \in Nat /\ folderIndex \in Nat
      /\ unpackPos \in Position /\ Position \subseteq Nat /\ remSubStreams \in Nat \ {0}
      /\ UnpackPositions \in [0 .. numFiles -> Position]
      /\ FolderToFile \in [0 .. NumFolders -> 0 .. numFiles]
      /\ FileToFolder \in [0 .. numFiles - 1 -> Int]
      /\ i < numFiles /\ folderIndex < NumFolders
  BY <1>0, <1>1, Facts DEF LoopOK, OpenOK
<1> DEFINE start == Start(folderIndex)
<1>4. FolderUnpackSize \in Position /\ FolderUnpackSize = hdr.folderSize[folderIndex]
  BY <1>0, <1>3 DEF HdrOK, FolderUnpackSize
<1>5. /\ start \in Position /\ start <= unpackPos /\ start <= UnpackPositions[i]
      /\ UnpackPositions[i] <= unpackPos /\ FolderToFile[folderIndex] <= i
      /\ UnpackPositions[i] \in Position
  BY <1>0, <1>1, <1>3 DEF OpenOK, Start
<1>6. /\ unpackPos' \in Position /\ unpackPos <= unpackPos'
      /\ remSubStreams = 1 => unpackPos' = start + FolderUnpackSize
      /\ sdSizes' \in Seq(Position)
  <2>1. CASE remSubStreams = 1
    <3>1. /\ Minus64(unpackPos, start) <= FolderUnpackSize
          /\ unpackPos' = Plus64(start, FolderUnpackSize)
          /\ FolderUnpackSize <= Plus64(start, FolderUnpackSize)
      BY <1>1, <2>1 DEF SubStreamFits, SubStreamEnd, StartFolderUnpackPos, Start
    <3>2. unpackPos' \in Position /\ unpackPos' = start + FolderUnpackSize
      BY <1>4, <1>5, <3>1, Plus64Fits
    <3>3. unpackPos - start <= FolderUnpackSize
      BY <1>3, <1>5, <3>1, Minus64Fits
    <3>4. start \in Nat /\ unpackPos \in Nat /\ FolderUnpackSize \in Nat
      BY <1>3, <1>4, <1>5
    <3>5. sdSizes' \in Seq(Position)
      BY <1>0, <1>1, <2>1 DEF TableOK
    <3> HIDE DEF start
    <3> QED BY <3>2, <3>3, <3>4, <3>5
  <2>2. CASE remSubStreams # 1
    <3>1. /\ sdSizes # << >> /\ unpackPos' = Plus64(unpackPos, Head(sdSizes))
          /\ Head(sdSizes) <= Plus64(unpackPos, Head(sdSizes))
          /\ sdSizes' = Tail(sdSizes)
      BY <1>1, <2>2 DEF SubStreamFits, SubStreamEnd
    <3>2. Head(sdSizes) \in Position /\ Tail(sdSizes) \in Seq(Position)
      BY <1>0, <3>1 DEF TableOK
    <3>3. unpackPos' \in Position /\ unpackPos' = unpackPos + Head(sdSizes)
      BY <1>3, <3>1, <3>2, Plus64Fits
    <3>4. Head(sdSizes) \in Nat /\ unpackPos \in Nat
      BY <1>3, <3>2
    <3> QED BY <2>2, <3>1, <3>2, <3>3, <3>4
  <2> QED BY <2>1, <2>2
<1>7. HdrOK'
  BY <1>0, <1>1, <1>2 DEF HdrOK, Position
<1>8. TableOK'
  <2>1. /\ FileToFolder' \in [0 .. numFiles - 1 -> Int] /\ i' \in 0 .. numFiles
        /\ folderIndex' \in 0 .. NumFolders /\ remSubStreams' \in Nat
    BY <1>1, <1>3
  <2> QED BY <1>0, <1>1, <1>2, <1>6, <2>1 DEF TableOK, Position
<1>9. LoopOK'
  BY <1>0, <1>1, <1>2, <1>3 DEF LoopOK
<1>10. OpenOK'
  <2>1. CASE remSubStreams = 1
    BY <1>1, <2>1 DEF OpenOK
  <2>2. CASE remSubStreams # 1
    <3>1. Start(folderIndex)' = start /\ folderIndex' = folderIndex
      BY <1>1, <2>2 DEF Start
    <3> HIDE DEF start
    <3> QED BY <1>1, <1>2, <1>3, <1>5, <1>6, <2>2, <3>1 DEF OpenOK
  <2> QED BY <2>1, <2>2
<1>11. ASSUME NEW k \in 0 .. i - 1 PROVE SliceOK(k)'
  <2> DEFINE f == FileToFolder[k]
  <2>1. SliceOK(k) /\ FileToFolder'[k] = f /\ End(k)' = End(k)
    BY <1>0, <1>1, <1>3 DEF End, Stored
  <2>2. Start(f)' = Start(f) /\ hdr.folderSize'[f] = hdr.folderSize[f]
    BY <1>1 DEF Start
  <2>3. CASE f = folderIndex
    <3>1. Start(f) = start /\ hdr.folderSize[f] = FolderUnpackSize
      BY <1>4, <2>3
    <3>2. End(k) \in Nat
      <4>1. End(k) = UnpackPositions[k + 1] /\ k + 1 \in 0 .. numFiles
        BY <1>1, <1>3 DEF End, Stored
      <4> QED BY <1>3, <4>1
    <3>3. InFolder(k)' <=> InFolder(k)
      BY <2>1 DEF InFolder
    <3>4. /\ unpackPos \in Nat /\ unpackPos' \in Nat /\ FolderUnpackSize \in Nat
          /\ start \in Nat
      BY <1>3, <1>4, <1>5, <1>6
    <3>5. remSubStreams # 1 => remSubStreams' # 0 /\ folderIndex' = folderIndex
      BY <1>1, <1>3
    <3>6. remSubStreams = 1 => folderIndex' = folderIndex + 1
      BY <1>1
    <3>7. UNCHANGED <<FolderToFile, UnpackPositions>> /\ FileToFolder'[k] = f
      BY <1>1, <2>1
    <3>8. InFolder(k) => End(k) <= unpackPos
      BY <2>1, <2>3 DEF SliceOK
    <3> HIDE DEF start
    <3> QED
      BY SMTT(60), <1>2, <1>3, <1>6, <2>1, <2>2, <2>3, <3>1, <3>2, <3>3, <3>4, <3>5, <3>6, <3>7, <3>8
      DEF SliceOK
  <2>4. CASE f # folderIndex
    <3>1. InFolder(k)' <=> InFolder(k)
      BY <2>1 DEF InFolder
    <3>2. folderIndex' \in {folderIndex, folderIndex + 1}
      BY <1>1
    <3>3. InFolder(k) => f < folderIndex /\ f \in 0 .. NumFolders - 1
      BY SMTT(30), <1>3, <2>1, <2>4 DEF SliceOK
    <3>4. UNCHANGED <<FolderToFile, UnpackPositions>> /\ FileToFolder'[k] = f
      BY <1>1, <2>1
    <3> HIDE DEF f
    <3> QED BY SMTT(30), <1>2, <1>3, <2>1, <2>2, <2>4, <3>1, <3>2, <3>3, <3>4 DEF SliceOK, f
  <2> QED BY <2>3, <2>4
<1>12. ASSUME NEW k \in Nat, k = i PROVE SliceOK(k)'
  <2>1. /\ FileToFolder'[k] = folderIndex /\ End(k)' = unpackPos'
        /\ UnpackPositions'[k] = UnpackPositions[i]
    BY <1>1, <1>3, <1>12 DEF End, Stored
  <2>2. Start(folderIndex)' = start \/ folderIndex' # folderIndex
    BY <1>1 DEF Start
  <2>3. UnpackPositions'[FolderToFile'[folderIndex]] = start
    BY <1>1 DEF Start
  <2>4. FolderToFile'[FileToFolder'[k]] <= k
    BY <1>1, <1>5, <1>12, <2>1
  <2>5. Start(FileToFolder[k])' = start
    BY <2>1, <2>3 DEF Start
  <2>6. remSubStreams # 1 => remSubStreams' # 0 /\ folderIndex' = folderIndex
    BY <1>1, <1>3
  <2>7. remSubStreams = 1 => folderIndex' = folderIndex + 1
    BY <1>1
  <2>8. /\ unpackPos \in Nat /\ unpackPos' \in Nat /\ UnpackPositions[i] \in Nat /\ start \in Nat
    BY <1>3, <1>5, <1>6
  <2>9. hdr'.folderSize[folderIndex] = FolderUnpackSize
    BY <1>1, <1>4
  <2> HIDE DEF start
  <2> QED
    BY SMTT(30), <1>2, <1>3, <1>5, <1>6, <2>1, <2>4, <2>5, <2>6, <2>7, <2>8, <2>9 DEF SliceOK
<1>13. \A k \in 0 .. i' - 1 : SliceOK(k)'
  <2> SUFFICES ASSUME NEW k \in 0 .. i' - 1 PROVE SliceOK(k)'
    BY <1>1, <1>3
  <2>1. k \in 0 .. i - 1 \/ k = i
    BY <1>1, <1>3
  <2> QED BY <1>3, <1>11, <1>12, <2>1
<1>14. SlicesInFolder'
  BY <1>0, <1>1 DEF SlicesInFolder, LoopOK
<1> QED BY <1>7, <1>8, <1>9, <1>10, <1>13, <1>14 DEF IInv

(* The last position of the table is where the loop is. *)
LEMMA EndFilesInv == IInv /\ EndFiles => IInv'
<1> SUFFICES ASSUME IInv, EndFiles PROVE IInv'
  OBVIOUS
<1>0. /\ HdrOK /\ TableOK /\ LoopOK /\ OpenOK /\ SlicesInFolder
      /\ \A k \in 0 .. i - 1 : SliceOK(k)
  BY DEF IInv, EndFiles
<1>1. /\ pc = "file" /\ i = numFiles
      /\ UnpackPositions' = [UnpackPositions EXCEPT ![i] = unpackPos]
      /\ IF remSubStreams # 0 THEN pc' = "done" /\ res' = "ARCHIVE"
         ELSE pc' = "rest" /\ res' = res
      /\ UNCHANGED <<hdr, FolderToFile, FileToFolder, cursors, i>>
  BY DEF EndFiles, Goto, Return
<1>2. /\ numFiles' = numFiles /\ NumFolders' = NumFolders /\ hdr' = hdr
      /\ UNCHANGED <<folderIndex, remSubStreams, unpackPos, sdSizes, sdNumSubStreams>>
  BY <1>1 DEF numFiles, NumFolders, cursors
<1>3. /\ numFiles \in Nat /\ NumFolders \in Nat /\ i \in Nat /\ folderIndex \in Nat
      /\ unpackPos \in Position /\ Position \subseteq Nat /\ remSubStreams \in Nat
      /\ UnpackPositions \in [0 .. numFiles -> Position]
      /\ FolderToFile \in [0 .. NumFolders -> 0 .. numFiles]
  BY <1>0, Facts
<1>4. HdrOK'
  BY <1>0, <1>2 DEF HdrOK, Position
<1>5. TableOK'
  <2>1. UnpackPositions' \in [0 .. numFiles -> Position]
    BY <1>1, <1>3
  <2> QED BY <1>0, <1>1, <1>2, <2>1 DEF TableOK, Position
<1>6. LoopOK'
  BY <1>0, <1>1, <1>2 DEF LoopOK
<1>7. pc' # "done" => OpenOK'
  BY <1>1, <1>2 DEF OpenOK
<1>8. ASSUME NEW k \in 0 .. i - 1, pc' # "done" PROVE SliceOK(k)'
  <2>1. SliceOK(k) /\ UnpackPositions'[k] = UnpackPositions[k]
    BY <1>0, <1>1, <1>3
  <2>2. End(k)' = End(k)
    BY <1>1, <1>2, <1>3, <1>8 DEF End, Stored
  <2>3. InFolder(k) => Start(FileToFolder[k])' = Start(FileToFolder[k])
    BY <1>1, <1>3, <2>1 DEF SliceOK, Start
  <2> QED BY <1>1, <1>2, <2>1, <2>2, <2>3 DEF SliceOK, InFolder
<1>9. SlicesInFolder'
  BY <1>0, <1>1 DEF SlicesInFolder, LoopOK
<1> QED BY <1>1, <1>4, <1>5, <1>6, <1>7, <1>8, <1>9 DEF IInv

(* The folders behind the last file hold none. *)
LEMMA RestOfFoldersInv == IInv /\ RestOfFolders => IInv'
<1> SUFFICES ASSUME IInv, RestOfFolders PROVE IInv'
  OBVIOUS
<1>0. /\ HdrOK /\ TableOK /\ LoopOK /\ OpenOK
      /\ \A k \in 0 .. i - 1 : SliceOK(k)
  BY DEF IInv, RestOfFolders
<1>1. /\ pc = "rest" /\ i = numFiles /\ remSubStreams = 0
      /\ FolderToFile' = [FolderToFile EXCEPT ![folderIndex] = i]
      /\ UNCHANGED <<hdr, UnpackPositions, FileToFolder, i, unpackPos, sdSizes, remSubStreams>>
  BY <1>0 DEF RestOfFolders, LoopOK, cursors
<1>2. \/ pc' = "done" /\ UNCHANGED <<folderIndex, sdNumSubStreams>>
      \/ /\ pc' = "rest" /\ res' = res /\ folderIndex < NumFolders
         /\ folderIndex' = folderIndex + 1 /\ sdNumSubStreams' \in Seq(Nat)
  <2>1. NumFolders \in Nat /\ folderIndex \in Nat /\ sdNumSubStreams \in Seq(Nat)
    BY <1>0, Facts DEF TableOK
  <2>2. CASE folderIndex >= NumFolders
    BY <2>2 DEF RestOfFolders, Return, cursors
  <2>3. CASE folderIndex < NumFolders /\ (~ hdr.hasNums \/ NumsMissing \/ NextNum # 0)
    BY <2>1, <2>3 DEF RestOfFolders, Return, cursors
  <2>4. CASE folderIndex < NumFolders /\ ~ (~ hdr.hasNums \/ NumsMissing \/ NextNum # 0)
    <3>1. ReadNum /\ folderIndex' = folderIndex + 1 /\ pc' = "rest" /\ res' = res
      BY <2>1, <2>4 DEF RestOfFolders, Goto
    <3>2. sdNumSubStreams' \in Seq(Nat)
      BY <2>1, <2>4, <3>1 DEF ReadNum, NumsMissing
    <3> QED BY <2>4, <3>1, <3>2
  <2> QED BY <2>1, <2>2, <2>3, <2>4
<1>3. /\ numFiles \in Nat /\ NumFolders \in Nat /\ i \in Nat /\ folderIndex \in Nat
      /\ Position \subseteq Nat /\ folderIndex <= NumFolders
      /\ UnpackPositions \in [0 .. numFiles -> Position]
      /\ FolderToFile \in [0 .. NumFolders -> 0 .. numFiles]
  BY <1>0, Facts
<1>4. numFiles' = numFiles /\ NumFolders' = NumFolders
  BY <1>1 DEF numFiles, NumFolders
<1>5. HdrOK'
  BY <1>0, <1>1, <1>4 DEF HdrOK, Position
<1>6. TableOK'
  <2>1. FolderToFile' \in [0 .. NumFolders -> 0 .. numFiles] /\ folderIndex' \in 0 .. NumFolders
    BY <1>1, <1>2, <1>3
  <2> QED BY <1>0, <1>1, <1>2, <1>4, <2>1 DEF TableOK, Position
<1>7. LoopOK'
  BY <1>0, <1>1, <1>2, <1>4 DEF LoopOK
<1>8. pc' # "done" => OpenOK'
  BY <1>1, <1>2 DEF OpenOK
<1>9. ASSUME NEW k \in 0 .. i - 1, InFolder(k)
      PROVE  /\ FileToFolder[k] \in 0 .. NumFolders - 1 /\ FileToFolder[k] < folderIndex
             /\ Start(FileToFolder[k])' = Start(FileToFolder[k])
             /\ FolderToFile'[FileToFolder[k]] = FolderToFile[FileToFolder[k]]
  <2>1. FileToFolder[k] \in 0 .. NumFolders - 1 /\ FileToFolder[k] < folderIndex
    BY <1>0, <1>1, <1>3, <1>9 DEF SliceOK
  <2>2. FolderToFile'[FileToFolder[k]] = FolderToFile[FileToFolder[k]]
    BY <1>1, <1>3, <2>1
  <2> QED BY <1>1, <2>1, <2>2 DEF Start
<1>10. ASSUME NEW k \in 0 .. i - 1, pc' # "done" PROVE SliceOK(k)'
  <2>1. SliceOK(k) /\ FileToFolder'[k] = FileToFolder[k]
    BY <1>0, <1>1
  <2>2. End(k)' = End(k)
    BY <1>1, <1>2, <1>10 DEF End, Stored
  <2>3. folderIndex' = folderIndex + 1
    BY <1>2, <1>10
  <2> QED BY <1>1, <1>3, <1>4, <1>9, <2>1, <2>2, <2>3 DEF SliceOK, InFolder
<1>11. SlicesInFolder'
  <2> SUFFICES ASSUME NEW k \in 0 .. numFiles - 1, InFolder(k)
               PROVE  /\ Start(FileToFolder[k])' <= UnpackPositions[k]
                      /\ UnpackPositions[k] <= UnpackPositions[k + 1]
                      /\ Offset(k)' + Size(k)' <= hdr.folderSize[FileToFolder[k]]
    BY <1>1, <1>4 DEF SlicesInFolder, InFolder, Files, Range0, Start
  <2> DEFINE s == Start(FileToFolder[k])
  <2>1. /\ s <= UnpackPositions[k] /\ UnpackPositions[k] <= UnpackPositions[k + 1]
        /\ UnpackPositions[k + 1] <= s + hdr.folderSize[FileToFolder[k]]
    BY <1>0, <1>1, <1>3, <1>9 DEF SliceOK, End, Stored
  <2>2. /\ s \in Position /\ UnpackPositions[k] \in Position /\ UnpackPositions[k + 1] \in Position
        /\ hdr.folderSize[FileToFolder[k]] \in Position
    BY SMTT(30), <1>0, <1>1, <1>3, <1>9 DEF Start, HdrOK
  <2>3. Offset(k)' = UnpackPositions[k] - s
    BY <1>1, <1>9, <2>1, <2>2, Minus64Fits DEF Offset, Start
  <2>4. Size(k)' = UnpackPositions[k + 1] - UnpackPositions[k]
    BY <1>1, <2>1, <2>2, Minus64Fits DEF Size
  <2>5. s \in Nat /\ UnpackPositions[k] \in Nat /\ UnpackPositions[k + 1] \in Nat
        /\ hdr.folderSize[FileToFolder[k]] \in Nat
    BY <1>3, <2>2
  <2>6. Start(FileToFolder[k])' = s
    BY <1>1, <1>9
  <2> HIDE DEF s
  <2> QED BY <2>1, <2>3, <2>4, <2>5, <2>6
<1> QED BY <1>1, <1>5, <1>6, <1>7, <1>8, <1>10, <1>11 DEF IInv

-----------------------------------------------------------------------------
(* The types of all variables; a bit is set only below MaskBits.           *)
MaskOK == pc \in {"folder", "substream"} => mask < MaskBits

(* The types, as Init has them. *)
LEMMA InitType == Init => TypeOK /\ MaskOK
<1> SUFFICES ASSUME Init PROVE TypeOK /\ MaskOK
  OBVIOUS
<1>1. IInv
  BY InitInv
<1>2. PICK h, garbage :
        /\ hdr.numFiles = h.numFiles /\ garbage \subseteq Range0(MaskBits)
        /\ IsDirs = [b \in Bytes(h) |-> garbage] /\ CrcDefs = [b \in Bytes(h) |-> garbage]
        /\ CrcVals = [k \in Range0(h.numFiles) |-> NoCrc]
        /\ FileToFolder = [k \in Range0(h.numFiles) |-> 0]
  <2>1. PICK crcs \in Crcs, nf \in 0 .. MaxFiles, m \in 0 .. MaxFolders :
          \E h \in Headers(nf, m, crcs) :
          \E n \in 0 .. MaxFolders * MaxSubStreams : \E sizes \in SeqsOf(SizesWith(crcs), n) :
            /\ hdr.numFiles = h.numFiles
            /\ \E garbage \in IF crcs THEN {{}, Range0(MaskBits)} ELSE {{}} :
                 /\ IsDirs = [b \in Bytes(h) |-> garbage]
                 /\ CrcDefs = [b \in Bytes(h) |-> garbage]
            /\ CrcVals = [k \in Range0(h.numFiles) |-> NoCrc]
            /\ FileToFolder = [k \in Range0(h.numFiles) |-> 0]
    BY SMTT(60) DEF Init
  <2>2. PICK h \in Headers(nf, m, crcs) :
            /\ hdr.numFiles = h.numFiles
            /\ \E garbage \in IF crcs THEN {{}, Range0(MaskBits)} ELSE {{}} :
                 IsDirs = [b \in Bytes(h) |-> garbage] /\ CrcDefs = [b \in Bytes(h) |-> garbage]
            /\ CrcVals = [k \in Range0(h.numFiles) |-> NoCrc]
            /\ FileToFolder = [k \in Range0(h.numFiles) |-> 0]
    BY <2>1
  <2>3. PICK garbage \in IF crcs THEN {{}, Range0(MaskBits)} ELSE {{}} :
           IsDirs = [b \in Bytes(h) |-> garbage] /\ CrcDefs = [b \in Bytes(h) |-> garbage]
    BY <2>2
  <2>4. garbage \subseteq Range0(MaskBits)
    BY <2>3
  <2> QED BY <2>2, <2>3, <2>4
<1>3. Bytes(h) = Bytes(hdr)
  BY <1>2 DEF Bytes
<1>4. /\ IsDirs \in [Bytes(hdr) -> SUBSET Range0(MaskBits)]
      /\ CrcDefs \in [Bytes(hdr) -> SUBSET Range0(MaskBits)]
  BY <1>2, <1>3
<1>5. CrcVals \in [Files -> {"none", "folder", "digest"} \X Nat]
  BY <1>2 DEF NoCrc, Files, numFiles
<1>6. FileToFolder \in [Files -> Folders \cup {0, NoFolder}]
  BY <1>2 DEF Files, numFiles
<1>7. /\ UnpackPositions \in [0 .. numFiles -> Position]
      /\ FolderToFile \in [0 .. NumFolders -> 0 .. numFiles]
      /\ i \in 0 .. numFiles /\ folderIndex \in 0 .. NumFolders /\ unpackPos \in Position
  BY <1>1 DEF IInv, TableOK
<1>8. /\ remSubStreams = 0 /\ numSubStreams = 0 /\ emptyFileIndex = 0
      /\ digestIndex = 0 /\ digestsVals = 0 /\ mask = 0 /\ isDirMask = {} /\ crcMask = {}
      /\ pc = "counts" /\ res = "none"
  BY DEF Init
<1> QED BY <1>4, <1>5, <1>6, <1>7, <1>8, FileTableAssumption DEF TypeOK, MaskOK

(* Every step keeps the types. *)
LEMMA TypeInv == IInv /\ TypeOK /\ MaskOK /\ [Next]_vars => TypeOK' /\ MaskOK'
<1> SUFFICES ASSUME IInv, TypeOK, MaskOK, [Next]_vars PROVE TypeOK' /\ MaskOK'
  OBVIOUS
<1>1. /\ HdrOK /\ TableOK /\ LoopOK
      /\ pc # "done" => OpenOK
  BY DEF IInv
<1> USE DEF positions, cursors, bits
<1>2. CASE UNCHANGED vars
  BY <1>2 DEF vars, TypeOK, MaskOK, Files, Folders, numFiles, NumFolders
<1>3. CASE Fail
  BY <1>3 DEF Fail, Return, TypeOK, MaskOK, Files, Folders, numFiles, NumFolders
<1>4. CASE CheckCounts /\ ~ Fail
  BY <1>4 DEF CheckCounts, Goto, TypeOK, MaskOK, Files, Folders, numFiles, NumFolders
<1>5. CASE StartFile
  <2>0. /\ i \in 0 .. numFiles - 1 /\ numFiles \in Nat /\ emptyFileIndex \in Nat /\ unpackPos \in Position
    BY <1>1, <1>5 DEF StartFile, HdrOK, TableOK, TypeOK
  <2>1. MaskBit \in 0 .. MaskBits - 1 /\ DirMask \subseteq Range0(MaskBits)
    BY FileTableAssumption DEF TypeOK, MaskBit, DirMask
  <2>2. /\ IsDirs' \in [Bytes(hdr) -> SUBSET Range0(MaskBits)]
        /\ CrcDefs' \in [Bytes(hdr) -> SUBSET Range0(MaskBits)]
        /\ crcMask' \subseteq Range0(MaskBits)
    <3>1. /\ StoredDirs \in [Bytes(hdr) -> SUBSET Range0(MaskBits)]
          /\ StoredCrcs \in [Bytes(hdr) -> SUBSET Range0(MaskBits)]
      BY DEF StoredDirs, StoredCrcs, TypeOK
    <3> QED BY <1>5, <3>1 DEF StartFile, FlushMasks, TypeOK
  <2>3. FileToFolder' \in [Files -> Folders \cup {0, NoFolder}]
    <3>1. remSubStreams # 0 => folderIndex \in Folders
      BY <1>1, <1>5 DEF StartFile, OpenOK, HdrOK, TableOK, Folders, Range0
    <3> QED BY <1>5, <3>1 DEF StartFile, TypeOK
  <2>4. CrcVals' \in [Files -> {"none", "folder", "digest"} \X Nat]
    BY <1>5 DEF StartFile, TypeOK, NoCrc
  <2>5. UnpackPositions' \in [0 .. numFiles -> Position]
    BY <1>5, <2>0 DEF StartFile, TypeOK
  <2>6. isDirMask' \subseteq Range0(MaskBits)
    BY <1>5, <2>1 DEF StartFile, Range0
  <2>7. /\ i' \in 0 .. numFiles /\ emptyFileIndex' \in Nat
        /\ mask' \in 0 .. MaskBits /\ pc' \in {"file", "folder", "substream"} /\ res' = res
        /\ pc' # "file" => mask' < MaskBits
    BY <1>5, <2>0, <2>1, FileTableAssumption DEF StartFile, NextFile, Goto
  <2> QED BY <1>5, <2>2, <2>3, <2>4, <2>5, <2>6, <2>7
          DEF StartFile, TypeOK, MaskOK, Files, Folders, numFiles, NumFolders
<1>6. CASE OpenFolder /\ ~ Fail
  <2>1. NextNum \in Nat
    BY <1>1, <1>6 DEF OpenFolder, NextNum, NumsMissing, TableOK
  <2>2. TableOK'
    BY <1>6, OpenFolderInv DEF OpenFolder, IInv
  <2>3. numSubStreams' = NextNum /\ remSubStreams' = NextNum /\ pc' \in {"folder", "substream"} /\ res' = res
    BY <1>6 DEF OpenFolder, Goto
  <2>4. UNCHANGED <<hdr, UnpackPositions, FileToFolder, bits, i>>
    BY <1>6 DEF OpenFolder
  <2>5. mask < MaskBits
    BY <1>6 DEF OpenFolder, MaskOK
  <2> QED BY <2>1, <2>2, <2>3, <2>4, <2>5
          DEF TypeOK, TableOK, MaskOK, Files, Folders, numFiles, NumFolders
<1>7. CASE TakeSubStream /\ ~ Fail
  <2>1. TableOK'
    BY <1>7, TakeSubStreamInv DEF TakeSubStream, IInv
  <2>2. /\ folderIndex \in Folders /\ folderIndex \in Nat /\ remSubStreams \in Nat \ {0}
        /\ mask \in 0 .. MaskBits - 1
    BY <1>1, <1>7, FileTableAssumption
    DEF TakeSubStream, OpenOK, TypeOK, HdrOK, LoopOK, TableOK, MaskOK, Folders, Range0
  <2>3. /\ CrcVals' \in [Files -> {"none", "folder", "digest"} \X Nat]
        /\ crcMask' \subseteq Range0(MaskBits)
        /\ digestIndex' \in Nat /\ digestsVals' \in Nat
    <3>1. SetCrc
      BY <1>7 DEF TakeSubStream
    <3>2. /\ crcMask \subseteq Range0(MaskBits) /\ digestIndex \in Nat /\ digestsVals \in Nat
          /\ CrcVals \in [Files -> {"none", "folder", "digest"} \X Nat]
      BY DEF TypeOK
    <3>3. mask \in Range0(MaskBits)
      BY <2>2 DEF Range0
    <3>4. /\ <<"folder", folderIndex>> \in {"none", "folder", "digest"} \X Nat
          /\ <<"digest", digestsVals>> \in {"none", "folder", "digest"} \X Nat
      BY <2>2, <3>2
    <3> DEFINE Kept == /\ UNCHANGED <<CrcVals, crcMask, digestsVals>>
                       /\ digestIndex' \in {digestIndex, digestIndex + 1}
               Own  == /\ crcMask' = crcMask \cup {mask} /\ UNCHANGED <<digestIndex, digestsVals>>
                       /\ CrcVals' = [CrcVals EXCEPT ![i] = <<"folder", folderIndex>>]
               Next1 == /\ crcMask' = crcMask \cup {mask}
                        /\ digestIndex' = digestIndex + 1 /\ digestsVals' = digestsVals + 1
                        /\ CrcVals' = [CrcVals EXCEPT ![i] = <<"digest", digestsVals>>]
               Typed == /\ CrcVals' \in [Files -> {"none", "folder", "digest"} \X Nat]
                        /\ crcMask' \subseteq Range0(MaskBits)
                        /\ digestIndex' \in Nat /\ digestsVals' \in Nat
    <3>5. SetCrc => Kept \/ Own \/ Next1
      BY DEF SetCrc
    <3>6. Kept => Typed
      BY <3>2
    <3>7. ASSUME Own PROVE Typed
      <4>1. CrcVals' \in [Files -> {"none", "folder", "digest"} \X Nat]
        BY <3>2, <3>4, <3>7
      <4> QED BY <3>2, <3>3, <3>7, <4>1
    <3>8. ASSUME Next1 PROVE Typed
      <4>1. CrcVals' \in [Files -> {"none", "folder", "digest"} \X Nat]
        BY <3>2, <3>4, <3>8
      <4> QED BY <3>2, <3>3, <3>8, <4>1
    <3>9. Typed
      <4> HIDE DEF Kept, Own, Next1, Typed
      <4> QED BY <3>1, <3>5, <3>6, <3>7, <3>8
    <3> QED BY <3>9
  <2>4. FileToFolder' \in [Files -> Folders \cup {0, NoFolder}]
    BY <1>7, <2>2 DEF TakeSubStream, TypeOK
  <2>5. /\ remSubStreams' = remSubStreams - 1 /\ numSubStreams' = numSubStreams /\ mask' = mask + 1
        /\ pc' = "file" /\ res' = res
        /\ UNCHANGED <<hdr, IsDirs, CrcDefs, emptyFileIndex, isDirMask>>
    BY <1>7 DEF TakeSubStream, NextFile, Goto
  <2>6. /\ remSubStreams' \in Nat /\ numSubStreams' \in Nat /\ remSubStreams' <= numSubStreams'
        /\ mask' \in 0 .. MaskBits /\ MaskOK'
    BY <2>2, <2>5, FileTableAssumption DEF TypeOK, MaskOK
  <2>7. /\ Files' = Files /\ Folders' = Folders /\ Bytes(hdr') = Bytes(hdr)
    BY <2>5 DEF Files, Folders, numFiles, NumFolders
  <2> QED BY <2>1, <2>3, <2>4, <2>5, <2>6, <2>7 DEF TypeOK, TableOK
<1>8. CASE EndFiles
  <2>1. /\ IsDirs' \in [Bytes(hdr) -> SUBSET Range0(MaskBits)]
        /\ CrcDefs' \in [Bytes(hdr) -> SUBSET Range0(MaskBits)]
    BY <1>8 DEF EndFiles, StoredDirs, StoredCrcs, TypeOK
  <2> QED BY <1>8, <2>1
          DEF EndFiles, Goto, Return, TypeOK, MaskOK, Files, Folders, numFiles, NumFolders
<1>9. CASE RestOfFolders
  <2>1. TableOK'
    BY <1>9, RestOfFoldersInv DEF IInv
  <2> QED BY SMTT(30), <1>1, <1>9, <2>1
          DEF RestOfFolders, Goto, Return, LoopOK, TypeOK, TableOK, MaskOK, Files, Folders,
              numFiles, NumFolders
<1> QED BY <1>2, <1>3, <1>4, <1>5, <1>6, <1>7, <1>8, <1>9
        DEF Next, Done, CheckCounts, OpenFolder, TakeSubStream

-----------------------------------------------------------------------------
(* Every step keeps the slices within their folders. *)
LEMMA NextInv == IInv /\ [Next]_vars => IInv'
<1> SUFFICES ASSUME IInv, [Next]_vars PROVE IInv'
  OBVIOUS
<1>1. CASE UNCHANGED vars
  BY <1>1 DEF IInv, HdrOK, TableOK, LoopOK, OpenOK, SliceOK, InFolder, SlicesInFolder, Start,
     End, Stored, Offset, Size, Files, numFiles, NumFolders, Position, vars, positions, cursors
<1>2. CASE Next
  BY <1>1, <1>2, CheckCountsInv, StartFileInv, OpenFolderInv, TakeSubStreamInv, EndFilesInv,
     RestOfFoldersInv DEF Next, Done
<1> QED BY <1>1, <1>2

(* An accepted table cuts every file out of its own folder: the test that   *)
(* makes SzArEx_Extract return SZ_ERROR_FAIL (7zArcIn.c:1669) can never be  *)
(* true, for any header, any sizes and any width of the positions.          *)
THEOREM SlicesSafe == Spec => []SlicesInFolder
<1>1. IInv => SlicesInFolder
  BY DEF IInv
<1> QED BY InitInv, NextInv, <1>1, PTL DEF Spec

(* The pass stays within its tables and its masks: every position is a      *)
(* UInt64, every folder index is one of the header's folders, and no bit    *)
(* is set above the byte of a bit array that is being filled.               *)
THEOREM TypeCorrect == Spec => []TypeOK
BY InitInv, NextInv, InitType, TypeInv, PTL DEF Spec

-----------------------------------------------------------------------------
NumStreams(f) == NumStreamsOf(hdr, f)
NumSizes(f) == IF NumStreams(f) = 0 THEN 0 ELSE NumStreams(f) - 1
NumDigests(f) == IF NumStreams(f) = 1 /\ f \in hdr.folderCrcs THEN 0 ELSE NumStreams(f)
DigestsBefore(f) == SumFunctionOnSet([g \in Folders |-> NumDigests(g)], Range0(f))
SpaceBefore(f) == SumFunctionOnSet(hdr.folderSize, Range0(f))

(* What the sections of the header are. *)
HdrTyped ==
  /\ numFiles \in Nat /\ NumFolders \in Nat
  /\ hdr.empty \subseteq Files
  /\ hdr.hasNums \in BOOLEAN
  /\ hdr.hasNums => hdr.nums \in Seq(Nat) /\ Len(hdr.nums) = NumFolders
  /\ ~ hdr.hasNums => hdr.nums = << >>
  /\ hdr.folderSize \in [Folders -> Position]
  /\ hdr.sizes \in Seq(Position) /\ Len(hdr.sizes) \in {0, NumSizesInData(hdr)}
  /\ hdr.digests \subseteq Range0(NumSubDigests(hdr))

Taken == IF remSubStreams = 0 THEN 0 ELSE numSubStreams - remSubStreams
Opened == IF remSubStreams = 0 THEN folderIndex ELSE folderIndex + 1

(* What was read of the substreams' section, and for what. *)
ReadOK ==
  /\ remSubStreams # 0 => /\ folderIndex < NumFolders
                          /\ numSubStreams = NumStreams(folderIndex)
                          /\ remSubStreams <= numSubStreams
  /\ Len(sdNumSubStreams) = IF hdr.hasNums THEN NumFolders - Opened ELSE 0
  /\ \A j \in 1 .. Len(sdNumSubStreams) : sdNumSubStreams[j] = hdr.nums[Opened + j]
  /\ Len(sdSizes) = Len(hdr.sizes) - SizesBefore(folderIndex) - Taken
  /\ \A j \in 1 .. Len(sdSizes) : sdSizes[j] = hdr.sizes[SizesBefore(folderIndex) + Taken + j]

CountOK ==
  /\ Nth(i) = StreamsBefore(folderIndex) + Taken
  /\ emptyFileIndex = Cardinality({l \in hdr.empty : l < i})
  /\ digestIndex = IF hdr.hasDigests THEN DigestsBefore(folderIndex) + Taken ELSE 0
  /\ digestsVals = Cardinality({d \in hdr.digests : d < digestIndex})
  /\ pc \notin {"counts", "done"} => Cardinality(DataFiles) = NumTotalSubStreams(hdr)
  /\ pc \in {"folder", "substream"} => i \in DataFiles

-----------------------------------------------------------------------------
(* Sums over the first folders. *)
LEMMA Prefixes ==
  ASSUME NEW n \in Nat, NEW F \in [Range0(n) -> Nat]
  PROVE  /\ SumFunctionOnSet(F, Range0(0)) = 0
         /\ \A f \in 0 .. n : SumFunctionOnSet(F, Range0(f)) \in Nat
         /\ \A f \in 0 .. n - 1 :
              SumFunctionOnSet(F, Range0(f + 1)) = SumFunctionOnSet(F, Range0(f)) + F[f]
         /\ \A f, g \in 0 .. n : f <= g =>
              SumFunctionOnSet(F, Range0(f)) <= SumFunctionOnSet(F, Range0(g))
<1>1. SumFunctionOnSet(F, Range0(0)) = 0
  BY SumNone DEF Range0
<1>2. ASSUME NEW f \in 0 .. n PROVE IsFiniteSet(Range0(f)) /\ \A x \in Range0(f) : F[x] \in Nat
  <2>1. f \in Nat /\ 0 \in Int /\ f - 1 \in Int /\ Range0(f) \subseteq Range0(n)
    BY <1>2 DEF Range0
  <2>2. IsFiniteSet(0 .. f - 1)
    BY <2>1, FS_Interval
  <2> QED BY <2>1, <2>2 DEF Range0
<1>3. ASSUME NEW f \in 0 .. n PROVE SumFunctionOnSet(F, Range0(f)) \in Nat
  BY <1>2, <1>3, SumNat
<1>4. ASSUME NEW f \in 0 .. n - 1
      PROVE  SumFunctionOnSet(F, Range0(f + 1)) = SumFunctionOnSet(F, Range0(f)) + F[f]
  <2>1. 0 \in Int /\ f \in Int /\ 0 <= f /\ \A k \in 0 .. f : F[k] \in Nat
    BY <1>4 DEF Range0
  <2>2. SumFunctionOnSet(F, 0 .. f) = SumFunctionOnSet(F, 0 .. f - 1) + F[f]
    BY <2>1, SumNext
  <2>3. Range0(f + 1) = 0 .. f /\ Range0(f) = 0 .. f - 1
    BY <1>4 DEF Range0
  <2> QED BY <2>2, <2>3
<1>5. ASSUME NEW f \in 0 .. n, NEW g \in 0 .. n, f <= g
      PROVE  SumFunctionOnSet(F, Range0(f)) <= SumFunctionOnSet(F, Range0(g))
  <2>1. Range0(f) \subseteq Range0(g)
    BY <1>5 DEF Range0
  <2> QED BY <1>2, <2>1, SumGrows
<1> QED BY <1>1, <1>3, <1>4, <1>5

-----------------------------------------------------------------------------
(* The header's counts. *)
LEMMA Streams ==
  ASSUME HdrTyped
  PROVE  /\ \A f \in Folders : NumStreams(f) \in Nat
         /\ [g \in Folders |-> NumStreams(g)] \in [Folders -> Nat]
         /\ [g \in Folders |-> NumSizes(g)] \in [Folders -> Nat]
         /\ [g \in Folders |-> NumDigests(g)] \in [Folders -> Nat]
         /\ hdr.folderSize \in [Folders -> Nat]
         /\ NumFolders \in Nat
<1>1. \A f \in Folders : NumStreams(f) \in Nat
  BY DEF HdrTyped, NumStreams, NumStreamsOf, Folders, Range0
<1>2. Position \subseteq Nat
  BY FileTableAssumption DEF Position
<1>3. \A f \in Folders : NumSizes(f) \in Nat /\ NumDigests(f) \in Nat
  BY <1>1 DEF NumSizes, NumDigests
<1> QED BY <1>1, <1>2, <1>3 DEF HdrTyped

(* The substreams before a folder. *)
LEMMA Befores ==
  ASSUME HdrTyped
  PROVE  /\ StreamsBefore(0) = 0
         /\ \A f \in 0 .. NumFolders : StreamsBefore(f) \in Nat
         /\ \A f \in 0 .. NumFolders - 1 : StreamsBefore(f + 1) = StreamsBefore(f) + NumStreams(f)
         /\ \A f, g \in 0 .. NumFolders : f <= g => StreamsBefore(f) <= StreamsBefore(g)
         /\ NumTotalSubStreams(hdr) = StreamsBefore(NumFolders)
<1>1. [g \in Folders |-> NumStreams(g)] \in [Range0(NumFolders) -> Nat] /\ NumFolders \in Nat
  BY Streams DEF Folders
<1>2. \A f : StreamsBefore(f) = SumFunctionOnSet([g \in Folders |-> NumStreams(g)], Range0(f))
  BY DEF StreamsBefore, NumStreams
<1>3. \A f \in 0 .. NumFolders - 1 : [g \in Folders |-> NumStreams(g)][f] = NumStreams(f)
  BY DEF Folders, Range0
<1>4. NumTotalSubStreams(hdr) = SumFunctionOnSet([g \in Folders |-> NumStreams(g)], Range0(NumFolders))
  BY DEF NumTotalSubStreams, NumStreams, Folders, NumFolders
<1> QED BY <1>1, <1>2, <1>3, <1>4, Prefixes

(* The sizes in the header before a folder's. *)
LEMMA SizesBefores ==
  ASSUME HdrTyped
  PROVE  /\ SizesBefore(0) = 0
         /\ \A f \in 0 .. NumFolders : SizesBefore(f) \in Nat
         /\ \A f \in 0 .. NumFolders - 1 : SizesBefore(f + 1) = SizesBefore(f) + NumSizes(f)
         /\ \A f, g \in 0 .. NumFolders : f <= g => SizesBefore(f) <= SizesBefore(g)
         /\ NumSizesInData(hdr) = SizesBefore(NumFolders)
<1>1. [g \in Folders |-> NumSizes(g)] \in [Range0(NumFolders) -> Nat] /\ NumFolders \in Nat
  BY Streams DEF Folders
<1>2. \A f : SizesBefore(f) = SumFunctionOnSet([g \in Folders |-> NumSizes(g)], Range0(f))
  BY DEF SizesBefore, NumSizes, NumStreams
<1>3. \A f \in 0 .. NumFolders - 1 : [g \in Folders |-> NumSizes(g)][f] = NumSizes(f)
  BY DEF Folders, Range0
<1>4. NumSizesInData(hdr) = SumFunctionOnSet([g \in Folders |-> NumSizes(g)], Range0(NumFolders))
  BY DEF NumSizesInData, NumSizes, NumStreams, Folders, NumFolders
<1> QED BY <1>1, <1>2, <1>3, <1>4, Prefixes

(* The digests before a folder's. *)
LEMMA DigestsBefores ==
  ASSUME HdrTyped
  PROVE  /\ DigestsBefore(0) = 0
         /\ \A f \in 0 .. NumFolders : DigestsBefore(f) \in Nat
         /\ \A f \in 0 .. NumFolders - 1 : DigestsBefore(f + 1) = DigestsBefore(f) + NumDigests(f)
         /\ \A f, g \in 0 .. NumFolders : f <= g => DigestsBefore(f) <= DigestsBefore(g)
         /\ NumSubDigests(hdr) = DigestsBefore(NumFolders)
<1>1. [g \in Folders |-> NumDigests(g)] \in [Range0(NumFolders) -> Nat] /\ NumFolders \in Nat
  BY Streams DEF Folders
<1>2. \A f : DigestsBefore(f) = SumFunctionOnSet([g \in Folders |-> NumDigests(g)], Range0(f))
  BY DEF DigestsBefore
<1>3. \A f \in 0 .. NumFolders - 1 : [g \in Folders |-> NumDigests(g)][f] = NumDigests(f)
  BY DEF Folders, Range0
<1>4. NumSubDigests(hdr) = SumFunctionOnSet([g \in Folders |-> NumDigests(g)], Range0(NumFolders))
  BY DEF NumSubDigests, NumDigests, NumStreams, Folders, NumFolders
<1> QED BY <1>1, <1>2, <1>3, <1>4, Prefixes

(* Where a folder starts in the unpacked stream. *)
LEMMA SpaceBefores ==
  ASSUME HdrTyped
  PROVE  /\ SpaceBefore(0) = 0
         /\ \A f \in 0 .. NumFolders : SpaceBefore(f) \in Nat
         /\ \A f \in 0 .. NumFolders - 1 : SpaceBefore(f + 1) = SpaceBefore(f) + hdr.folderSize[f]
         /\ \A f, g \in 0 .. NumFolders : f <= g => SpaceBefore(f) <= SpaceBefore(g)
<1>1. hdr.folderSize \in [Range0(NumFolders) -> Nat] /\ NumFolders \in Nat
  BY Streams DEF Folders
<1> QED BY <1>1, Prefixes DEF SpaceBefore

(* The files with data before a file, and the files without. *)
LEMMA FileCounts ==
  ASSUME HdrTyped
  PROVE  /\ IsFiniteSet(DataFiles) /\ DataFiles \subseteq Nat /\ Cardinality(DataFiles) \in Nat
         /\ IsFiniteSet(hdr.empty) /\ hdr.empty \subseteq Nat /\ Cardinality(hdr.empty) \in Nat
         /\ Nth(0) = 0 /\ \A k \in Nat : Nth(k) \in Nat
         /\ \A k \in Nat : Nth(k + 1) = Nth(k) + IF k \in DataFiles THEN 1 ELSE 0
         /\ \A j, k \in Nat : j <= k => Nth(j) <= Nth(k)
         /\ \A k \in Nat : Nth(k) <= Cardinality(DataFiles)
         /\ Nth(numFiles) = Cardinality(DataFiles)
         /\ numFiles - Cardinality(hdr.empty) = Cardinality(DataFiles)
<1>1. IsFiniteSet(Files) /\ Files \subseteq Nat /\ Cardinality(Files) = numFiles /\ numFiles \in Nat
  <2>1. numFiles \in Nat /\ 0 \in Int /\ numFiles - 1 \in Int
    BY DEF HdrTyped
  <2>2. IsFiniteSet(0 .. numFiles - 1) /\ Cardinality(0 .. numFiles - 1) = numFiles
    BY <2>1, FS_Interval
  <2> QED BY <2>1, <2>2 DEF Files, Range0
<1>2. /\ IsFiniteSet(DataFiles) /\ DataFiles \subseteq Nat
      /\ IsFiniteSet(hdr.empty) /\ hdr.empty \subseteq Nat
  BY <1>1, FS_Subset DEF HdrTyped, DataFiles
<1>3. Cardinality(DataFiles) \in Nat /\ Cardinality(hdr.empty) \in Nat
  BY <1>2, FS_CardinalityType
<1>4. numFiles - Cardinality(hdr.empty) = Cardinality(DataFiles)
  <2>1. Files \cap hdr.empty = hdr.empty
    BY DEF HdrTyped
  <2>2. Cardinality(Files \ hdr.empty) = Cardinality(Files) - Cardinality(Files \cap hdr.empty)
    BY <1>1, FS_Difference
  <2> QED BY <1>1, <2>1, <2>2 DEF DataFiles
<1>5. {l \in DataFiles : l < numFiles} = DataFiles
  <2>1. \A l \in DataFiles : l < numFiles
    BY <1>1 DEF DataFiles, Files, Range0
  <2> QED BY <2>1
<1> QED BY <1>1, <1>2, <1>3, <1>4, <1>5, CountBelow DEF Nth

-----------------------------------------------------------------------------
(* The header does not change, nor does what is computed from it.          *)
LEMMA HdrStays ==
  ASSUME hdr' = hdr
  PROVE  /\ numFiles' = numFiles /\ NumFolders' = NumFolders
         /\ Files' = Files /\ Folders' = Folders /\ DataFiles' = DataFiles
         /\ HdrTyped' = HdrTyped
         /\ NumTotalSubStreams(hdr') = NumTotalSubStreams(hdr)
         /\ NumSizesInData(hdr') = NumSizesInData(hdr)
         /\ NumSubDigests(hdr') = NumSubDigests(hdr)
         /\ \A f : /\ NumStreams(f)' = NumStreams(f)
                   /\ NumSizes(f)' = NumSizes(f)
                   /\ StreamsBefore(f)' = StreamsBefore(f)
                   /\ SizesBefore(f)' = SizesBefore(f)
                   /\ DigestsBefore(f)' = DigestsBefore(f)
                   /\ SpaceBefore(f)' = SpaceBefore(f)
         /\ \A k : Nth(k)' = Nth(k) /\ FolderOf(k)' = FolderOf(k)
                   /\ SubStreamOffset(k)' = SubStreamOffset(k)
                   /\ SubStreamSize(k)' = SubStreamSize(k)
         /\ \A f, n : SumOfSizes(f, n)' = SumOfSizes(f, n)
         /\ SkipsData' = SkipsData
<1>1. numFiles' = numFiles /\ NumFolders' = NumFolders
  BY DEF numFiles, NumFolders
<1>2. Files' = Files /\ Folders' = Folders /\ DataFiles' = DataFiles
  BY <1>1 DEF Files, Folders, DataFiles
<1>3. HdrTyped' = HdrTyped
  BY <1>1, <1>2 DEF HdrTyped, Position
<1>4. \A f : NumStreams(f)' = NumStreams(f)
  BY DEF NumStreams
<1>5. \A f : NumSizes(f)' = NumSizes(f) /\ NumDigests(f)' = NumDigests(f)
  BY <1>4 DEF NumSizes, NumDigests
<1>6. \A f : /\ StreamsBefore(f)' = StreamsBefore(f)
             /\ SizesBefore(f)' = SizesBefore(f)
             /\ DigestsBefore(f)' = DigestsBefore(f)
             /\ SpaceBefore(f)' = SpaceBefore(f)
  BY <1>2, <1>5 DEF StreamsBefore, SizesBefore, DigestsBefore, SpaceBefore
<1>7. \A k : Nth(k)' = Nth(k)
  BY <1>2 DEF Nth
<1>8. \A k : FolderOf(k)' = FolderOf(k)
  BY <1>2, <1>6, <1>7 DEF FolderOf
<1>9. \A f, n : SumOfSizes(f, n)' = SumOfSizes(f, n)
  BY <1>6 DEF SumOfSizes
<1>10. \A k : /\ SubStreamOffset(k)' = SubStreamOffset(k)
              /\ SubStreamSize(k)' = SubStreamSize(k)
  BY <1>6, <1>7, <1>8, <1>9 DEF SubStreamOffset, SubStreamSize
<1>11. SkipsData' = SkipsData
  BY <1>2 DEF SkipsData
<1> QED BY <1>1, <1>2, <1>3, <1>4, <1>5, <1>6, <1>7, <1>8, <1>9, <1>10, <1>11

(* The sections of the header, as Init has them. *)
LEMMA InitHdr == Init => HdrTyped /\ sdNumSubStreams = hdr.nums /\ sdSizes = hdr.sizes
<1> SUFFICES ASSUME Init PROVE HdrTyped /\ sdNumSubStreams = hdr.nums /\ sdSizes = hdr.sizes
  OBVIOUS
<1> DEFINE Has(h, sizes, digests) ==
             /\ hdr.numFiles = h.numFiles /\ hdr.numFolders = h.numFolders /\ hdr.empty = h.empty
             /\ hdr.hasNums = h.hasNums /\ hdr.nums = h.nums /\ hdr.folderSize = h.folderSize
             /\ hdr.folderCrcs = h.folderCrcs /\ hdr.sizes = sizes /\ hdr.digests = digests
             /\ sdNumSubStreams = h.nums /\ sdSizes = sizes
<1>1. PICK crcs \in Crcs, nf \in 0 .. MaxFiles, m \in 0 .. MaxFolders :
     \E h \in Headers(nf, m, crcs) :
     \E n \in 0 .. MaxFolders * MaxSubStreams : n \in {0, NumSizesInData(h)} /\
     \E sizes \in SeqsOf(SizesWith(crcs), n) :
     \E digests \in IF crcs THEN SUBSET Range0(NumSubDigests(h)) ELSE {{}} : Has(h, sizes, digests)
  BY SMTT(60) DEF Init
<1> HIDE DEF Has
<1>2. PICK h \in Headers(nf, m, crcs) :
     \E n \in 0 .. MaxFolders * MaxSubStreams : n \in {0, NumSizesInData(h)} /\
     \E sizes \in SeqsOf(SizesWith(crcs), n) :
     \E digests \in IF crcs THEN SUBSET Range0(NumSubDigests(h)) ELSE {{}} : Has(h, sizes, digests)
  BY <1>1
<1>3. PICK n \in 0 .. MaxFolders * MaxSubStreams : n \in {0, NumSizesInData(h)} /\
     \E sizes \in SeqsOf(SizesWith(crcs), n) :
     \E digests \in IF crcs THEN SUBSET Range0(NumSubDigests(h)) ELSE {{}} : Has(h, sizes, digests)
  BY <1>2
<1>4. PICK sizes \in SeqsOf(SizesWith(crcs), n),
          digests \in IF crcs THEN SUBSET Range0(NumSubDigests(h)) ELSE {{}} : Has(h, sizes, digests)
  BY <1>3
<1>5. /\ hdr.numFiles = h.numFiles /\ hdr.numFolders = h.numFolders /\ hdr.empty = h.empty
      /\ hdr.hasNums = h.hasNums /\ hdr.nums = h.nums /\ hdr.folderSize = h.folderSize
      /\ hdr.folderCrcs = h.folderCrcs /\ hdr.sizes = sizes /\ hdr.digests = digests
      /\ sdNumSubStreams = h.nums /\ sdSizes = sizes
  BY <1>4 DEF Has
<1>6. /\ h.numFiles = nf /\ h.numFolders = m /\ h.empty \in SUBSET Range0(nf)
      /\ h.folderSize \in [Range0(m) -> SizesWith(crcs)]
      /\ \/ h.hasNums = TRUE /\ h.nums \in SeqsOf(0 .. MaxSubStreams, m)
         \/ h.hasNums = FALSE /\ h.nums = << >>
  BY <1>2 DEF Headers
<1>7. m \in Nat /\ nf \in Nat /\ SizesWith(crcs) \subseteq Position
  BY FileTableAssumption DEF SizesWith, Position
<1>8. \A s \in SeqsOf(0 .. MaxSubStreams, m) : s \in Seq(Nat) /\ Len(s) = m
  BY <1>7, FileTableAssumption DEF SeqsOf
<1>9. sizes \in Seq(Position) /\ Len(sizes) = n
  <2>1. n \in Nat
    <3>1. MaxFolders * MaxSubStreams \in Nat
      BY FileTableAssumption
    <3> QED BY <3>1
  <2>2. sizes \in [1 .. n -> Position]
    BY <1>7 DEF SeqsOf
  <2> QED BY <2>1, <2>2
<1>10. /\ NumSizesInData(hdr) = NumSizesInData(h) /\ NumSubDigests(hdr) = NumSubDigests(h)
  BY <1>5 DEF NumSizesInData, NumSubDigests, NumStreamsOf
<1>11. hdr.digests \subseteq Range0(NumSubDigests(hdr))
  BY <1>4, <1>5, <1>10
<1>12. hdr.sizes \in Seq(Position) /\ Len(hdr.sizes) \in {0, NumSizesInData(hdr)}
  BY <1>3, <1>5, <1>9, <1>10
<1>13. hdr.empty \subseteq Files /\ hdr.folderSize \in [Folders -> Position]
  BY <1>5, <1>6, <1>7 DEF Files, Folders, numFiles, NumFolders
<1>14. /\ hdr.hasNums \in BOOLEAN
       /\ hdr.hasNums => hdr.nums \in Seq(Nat) /\ Len(hdr.nums) = NumFolders
       /\ ~ hdr.hasNums => hdr.nums = << >>
  BY <1>5, <1>6, <1>8 DEF NumFolders
<1> QED BY <1>5, <1>6, <1>7, <1>11, <1>12, <1>13, <1>14 DEF HdrTyped, numFiles, NumFolders

-----------------------------------------------------------------------------
(* What was read of the header so far is what the files so far call for.   *)
HeaderInv == HdrTyped /\ ReadOK /\ CountOK

(* Nothing is read yet. *)
LEMMA InitHeader == Init => HeaderInv
<1> SUFFICES ASSUME Init PROVE HeaderInv
  OBVIOUS
<1>1. HdrTyped /\ sdNumSubStreams = hdr.nums /\ sdSizes = hdr.sizes
  BY InitHdr
<1>2. /\ i = 0 /\ folderIndex = 0 /\ remSubStreams = 0 /\ numSubStreams = 0
      /\ emptyFileIndex = 0 /\ digestIndex = 0 /\ digestsVals = 0 /\ pc = "counts"
  BY DEF Init
<1>3. Opened = 0 /\ Taken = 0
  BY <1>2 DEF Opened, Taken
<1>4. SizesBefore(0) = 0 /\ StreamsBefore(0) = 0 /\ DigestsBefore(0) = 0
  BY <1>1, SizesBefores, Befores, DigestsBefores
<1>5. Len(hdr.nums) = IF hdr.hasNums THEN NumFolders ELSE 0
  BY <1>1 DEF HdrTyped
<1>6. ReadOK
  <2>1. NumFolders \in Nat /\ Len(hdr.sizes) \in Nat /\ Len(hdr.nums) \in Nat
    BY <1>1, <1>5 DEF HdrTyped
  <2> QED BY <1>1, <1>2, <1>3, <1>4, <1>5, <2>1 DEF ReadOK
<1>7. CountOK
  <2>1. Nth(0) = 0 /\ Cardinality({l \in hdr.empty : l < 0}) = 0
    BY <1>1, FileCounts, CountBelow
  <2>2. Cardinality({d \in hdr.digests : d < 0}) = 0
    <3>1. \A d \in hdr.digests : ~ (d < 0)
      BY <1>1 DEF HdrTyped, Range0
    <3>2. {d \in hdr.digests : d < 0} = {}
      BY <3>1
    <3> QED BY <3>2, FS_EmptySet
  <2> QED BY <1>2, <1>3, <1>4, <2>1, <2>2 DEF CountOK
<1> QED BY <1>1, <1>6, <1>7 DEF HeaderInv

(* A step that moves neither among the folders nor among the files. *)
LEMMA HeaderStays ==
  ASSUME HeaderInv, hdr' = hdr, i' = i, UNCHANGED cursors,
         UNCHANGED <<emptyFileIndex, digestIndex, digestsVals>>,
         pc' \in {"counts", "folder", "substream"} => pc' = pc,
         pc' \notin {"counts", "done"} => Cardinality(DataFiles) = NumTotalSubStreams(hdr)
  PROVE  HeaderInv'
<1>1. UNCHANGED <<folderIndex, remSubStreams, numSubStreams, sdNumSubStreams, sdSizes>>
  BY DEF cursors
<1>2. HdrTyped' /\ NumFolders' = NumFolders /\ DataFiles' = DataFiles
      /\ NumTotalSubStreams(hdr') = NumTotalSubStreams(hdr)
  BY HdrStays DEF HeaderInv
<1>3. Opened' = Opened /\ Taken' = Taken
  BY <1>1 DEF Opened, Taken
<1>4. /\ NumStreams(folderIndex)' = NumStreams(folderIndex)
      /\ SizesBefore(folderIndex)' = SizesBefore(folderIndex)
      /\ StreamsBefore(folderIndex)' = StreamsBefore(folderIndex)
      /\ DigestsBefore(folderIndex)' = DigestsBefore(folderIndex)
      /\ Nth(i)' = Nth(i)
  <2>1. ASSUME NEW f, f = folderIndex
        PROVE  /\ NumStreams(f)' = NumStreams(folderIndex)'
               /\ SizesBefore(f)' = SizesBefore(folderIndex)'
               /\ StreamsBefore(f)' = StreamsBefore(folderIndex)'
               /\ DigestsBefore(f)' = DigestsBefore(folderIndex)'
    BY <1>1, <2>1
  <2>2. ASSUME NEW k, k = i PROVE Nth(k)' = Nth(i)'
    BY <2>2
  <2> QED BY <2>1, <2>2, HdrStays
<1>5. ReadOK'
  BY <1>1, <1>2, <1>3, <1>4 DEF HeaderInv, ReadOK
<1>6. CountOK'
  BY <1>1, <1>2, <1>3, <1>4 DEF HeaderInv, CountOK
<1> QED BY <1>2, <1>5, <1>6 DEF HeaderInv

(* The sums at the folder a step reaches, in the next state. *)
LEMMA HdrAt ==
  ASSUME hdr' = hdr, NEW f, folderIndex' = f, NEW k, i' = k
  PROVE  /\ StreamsBefore(folderIndex)' = StreamsBefore(f)
         /\ SizesBefore(folderIndex)' = SizesBefore(f)
         /\ DigestsBefore(folderIndex)' = DigestsBefore(f)
         /\ SpaceBefore(folderIndex)' = SpaceBefore(f)
         /\ NumStreams(folderIndex)' = NumStreams(f)
         /\ Nth(i)' = Nth(k)
<1>1. /\ StreamsBefore(f)' = StreamsBefore(folderIndex)'
      /\ SizesBefore(f)' = SizesBefore(folderIndex)'
      /\ DigestsBefore(f)' = DigestsBefore(folderIndex)'
      /\ SpaceBefore(f)' = SpaceBefore(folderIndex)'
      /\ NumStreams(f)' = NumStreams(folderIndex)'
      /\ Nth(k)' = Nth(i)'
  OBVIOUS
<1> QED BY <1>1, HdrStays

(* A file without data takes none of the substreams. *)
LEMMA StartFileHeader ==
  ASSUME IInv, HeaderInv, StartFile
  PROVE  HeaderInv'
<1>1. /\ pc = "file" /\ i < numFiles /\ UNCHANGED <<hdr, cursors, digestIndex, digestsVals>>
      /\ \/ /\ i \in hdr.empty /\ emptyFileIndex' = emptyFileIndex + 1 /\ i' = i + 1 /\ pc' = "file"
         \/ /\ i \notin hdr.empty /\ UNCHANGED <<emptyFileIndex, i>>
            /\ pc' = IF remSubStreams = 0 THEN "folder" ELSE "substream"
  BY DEF StartFile, NextFile, Goto
<1>2. UNCHANGED <<folderIndex, remSubStreams, numSubStreams, sdNumSubStreams, sdSizes>>
  BY <1>1 DEF cursors
<1>3. /\ HdrTyped' /\ NumFolders' = NumFolders /\ DataFiles' = DataFiles
      /\ NumTotalSubStreams(hdr') = NumTotalSubStreams(hdr) /\ HdrTyped
  BY <1>1, HdrStays DEF HeaderInv
<1>4. i \in Nat /\ i \in Files
  BY <1>1, <1>3, FileTableAssumption DEF IInv, TableOK, HdrTyped, Files, Range0
<1>5. PICK f, k : f = folderIndex /\ k = i'
  OBVIOUS
<1>6. /\ NumStreams(folderIndex)' = NumStreams(folderIndex)
      /\ SizesBefore(folderIndex)' = SizesBefore(folderIndex)
      /\ StreamsBefore(folderIndex)' = StreamsBefore(folderIndex)
      /\ DigestsBefore(folderIndex)' = DigestsBefore(folderIndex)
      /\ Nth(i)' = Nth(k)
  BY <1>1, <1>2, <1>5, HdrAt
<1>7. Opened' = Opened /\ Taken' = Taken
  BY <1>2 DEF Opened, Taken
<1>8. ReadOK'
  BY <1>1, <1>2, <1>3, <1>6, <1>7 DEF HeaderInv, ReadOK
<1>9. Nth(k) = Nth(i)
  <2>1. CASE i \in hdr.empty /\ k = i + 1
    <3>1. i \notin DataFiles
      BY <2>1 DEF DataFiles
    <3>2. Nth(i + 1) = Nth(i) + 0 /\ Nth(i) \in Nat
      BY <1>3, <1>4, <3>1, FileCounts
    <3> QED BY <2>1, <3>2
  <2>2. CASE k = i
    BY <2>2
  <2> QED BY <1>1, <1>5, <2>1, <2>2
<1>10. emptyFileIndex' = Cardinality({l \in hdr.empty : l < i'})
  <2>1. CASE i \in hdr.empty /\ emptyFileIndex' = emptyFileIndex + 1 /\ i' = i + 1
    <3>1. Cardinality({l \in hdr.empty : l < i + 1}) = Cardinality({l \in hdr.empty : l < i}) + 1
      <4>1. hdr.empty \subseteq Nat /\ IsFiniteSet(hdr.empty)
        BY <1>3, FileCounts
      <4> QED BY <1>4, <2>1, <4>1, CountBelow
    <3> QED BY <2>1, <3>1 DEF HeaderInv, CountOK
  <2>2. CASE UNCHANGED <<emptyFileIndex, i>>
    BY <2>2 DEF HeaderInv, CountOK
  <2> QED BY <1>1, <2>1, <2>2
<1>11. pc' \in {"folder", "substream"} => i' \in DataFiles
  BY <1>1, <1>4 DEF DataFiles
<1>12. CountOK'
  <2>1. digestIndex' = IF hdr'.hasDigests THEN DigestsBefore(folderIndex)' + Taken' ELSE 0
    BY <1>1, <1>6, <1>7 DEF HeaderInv, CountOK
  <2>2. digestsVals' = Cardinality({d \in hdr'.digests : d < digestIndex'})
    BY <1>1 DEF HeaderInv, CountOK
  <2>3. Nth(i)' = StreamsBefore(folderIndex)' + Taken'
    BY <1>6, <1>7, <1>9 DEF HeaderInv, CountOK
  <2>4. emptyFileIndex' = Cardinality({l \in hdr'.empty : l < i'})
    BY <1>1, <1>10
  <2>5. pc' \notin {"counts", "done"} => Cardinality(DataFiles') = NumTotalSubStreams(hdr')
    BY <1>1, <1>3 DEF HeaderInv, CountOK
  <2>6. pc' \in {"folder", "substream"} => i' \in DataFiles'
    BY <1>3, <1>11
  <2> QED BY <2>1, <2>2, <2>3, <2>4, <2>5, <2>6 DEF CountOK
<1> QED BY <1>3, <1>8, <1>12 DEF HeaderInv

(* The number read for a folder is the header's. *)
LEMMA NextNumIs ==
  ASSUME IInv, HeaderInv, remSubStreams = 0, folderIndex < NumFolders
  PROVE  /\ folderIndex \in Folders /\ folderIndex \in 0 .. NumFolders - 1
         /\ ~ NumsMissing /\ NextNum = NumStreams(folderIndex) /\ NextNum \in Nat
<1>1. folderIndex \in 0 .. NumFolders - 1 /\ NumFolders \in Nat
  BY DEF IInv, TableOK, HeaderInv, HdrTyped
<1>2. folderIndex \in Folders
  BY <1>1 DEF Folders, Range0
<1>3. Opened = folderIndex /\ sdNumSubStreams \in Seq(Nat)
  BY DEF Opened, IInv, TableOK
<1>4. CASE hdr.hasNums
  <2>1. Len(sdNumSubStreams) = NumFolders - folderIndex
    BY <1>3, <1>4 DEF HeaderInv, ReadOK
  <2>2. 1 \in 1 .. Len(sdNumSubStreams)
    BY <1>1, <2>1
  <2>3. sdNumSubStreams[1] = hdr.nums[folderIndex + 1]
    BY <1>3, <2>2 DEF HeaderInv, ReadOK
  <2>4. sdNumSubStreams # << >> /\ Head(sdNumSubStreams) = sdNumSubStreams[1]
    BY <1>3, <2>2
  <2> QED BY <1>1, <1>2, <1>4, <2>3, <2>4, Streams
          DEF NumsMissing, NextNum, NumStreams, NumStreamsOf, HeaderInv
<1>5. CASE ~ hdr.hasNums
  BY <1>1, <1>2, <1>5 DEF NumsMissing, NextNum, NumStreams, NumStreamsOf
<1> QED BY <1>4, <1>5

(* And what is left to read starts at the next folder. *)
LEMMA ReadNumLeaves ==
  ASSUME IInv, HeaderInv, remSubStreams = 0, folderIndex < NumFolders, ReadNum
  PROVE  /\ Len(sdNumSubStreams') = IF hdr.hasNums THEN NumFolders - (folderIndex + 1) ELSE 0
         /\ \A j \in 1 .. Len(sdNumSubStreams') :
              sdNumSubStreams'[j] = hdr.nums[(folderIndex + 1) + j]
<1>1. folderIndex \in 0 .. NumFolders - 1 /\ NumFolders \in Nat /\ ~ NumsMissing
  BY NextNumIs DEF HeaderInv, HdrTyped
<1>2. Opened = folderIndex /\ sdNumSubStreams \in Seq(Nat)
  BY DEF Opened, IInv, TableOK
<1>3. /\ Len(sdNumSubStreams) = IF hdr.hasNums THEN NumFolders - folderIndex ELSE 0
      /\ \A j \in 1 .. Len(sdNumSubStreams) : sdNumSubStreams[j] = hdr.nums[folderIndex + j]
  BY <1>2 DEF HeaderInv, ReadOK
<1>4. CASE hdr.hasNums
  <2>1. sdNumSubStreams' = Tail(sdNumSubStreams) /\ sdNumSubStreams # << >>
    BY <1>1, <1>4 DEF ReadNum, NumsMissing
  <2>2. Len(sdNumSubStreams') = Len(sdNumSubStreams) - 1
    BY <1>2, <2>1
  <2>3. ASSUME NEW j \in 1 .. Len(sdNumSubStreams')
        PROVE  sdNumSubStreams'[j] = hdr.nums[(folderIndex + 1) + j]
    <3>1. j + 1 \in 1 .. Len(sdNumSubStreams) /\ sdNumSubStreams'[j] = sdNumSubStreams[j + 1]
      BY <1>2, <2>1, <2>2
    <3>2. folderIndex + (j + 1) = (folderIndex + 1) + j
      BY <1>1, <3>1
    <3> QED BY <1>3, <3>1, <3>2
  <2> QED BY <1>1, <1>3, <1>4, <2>2, <2>3
<1>5. CASE ~ hdr.hasNums
  <2>1. sdNumSubStreams' = sdNumSubStreams /\ Len(sdNumSubStreams) = 0
    BY <1>3, <1>5 DEF ReadNum
  <2> QED BY <1>5, <2>1
<1> QED BY <1>4, <1>5

(* A folder is opened, or passed over when it has no substreams. *)
LEMMA OpenFolderHeader ==
  ASSUME IInv, HeaderInv, OpenFolder, ~ Fail
  PROVE  HeaderInv'
<1>1. /\ pc = "folder" /\ folderIndex < NumFolders /\ ReadNum
      /\ numSubStreams' = NextNum /\ remSubStreams' = NextNum
      /\ UNCHANGED <<hdr, sdSizes, bits, i>>
      /\ \/ NextNum # 0 /\ pc' = "substream" /\ folderIndex' = folderIndex
         \/ NextNum = 0 /\ pc' = "folder" /\ folderIndex' = folderIndex + 1
  <2>1. ~ (\/ folderIndex >= NumFolders
           \/ NumsMissing
           \/ NextNum = 0 /\ Plus64(unpackPos, FolderUnpackSize) < FolderUnpackSize)
    BY DEF OpenFolder
  <2>2. ~ (folderIndex >= NumFolders) => folderIndex < NumFolders
    BY DEF IInv, TableOK, HdrOK
  <2> QED BY <2>1, <2>2 DEF OpenFolder, Goto
<1>2. remSubStreams = 0 /\ Taken = 0 /\ Opened = folderIndex
  BY <1>1 DEF IInv, LoopOK, Taken, Opened
<1>3. /\ HdrTyped' /\ HdrTyped /\ NumFolders' = NumFolders /\ DataFiles' = DataFiles
      /\ NumTotalSubStreams(hdr') = NumTotalSubStreams(hdr)
  BY <1>1, HdrStays DEF HeaderInv
<1>4. /\ folderIndex \in 0 .. NumFolders - 1 /\ NextNum = NumStreams(folderIndex) /\ NextNum \in Nat
      /\ folderIndex \in Nat /\ NumFolders \in Nat
  BY <1>1, <1>2, <1>3, NextNumIs DEF HdrTyped
<1>5. PICK g : g = folderIndex'
  OBVIOUS
<1>6. PICK k : k = i
  OBVIOUS
<1>7. /\ NumStreams(folderIndex)' = NumStreams(g)
      /\ SizesBefore(folderIndex)' = SizesBefore(g)
      /\ StreamsBefore(folderIndex)' = StreamsBefore(g)
      /\ DigestsBefore(folderIndex)' = DigestsBefore(g)
      /\ Nth(i)' = Nth(i)
  BY <1>1, <1>5, <1>6, HdrAt
<1>8. /\ SizesBefore(g) = SizesBefore(folderIndex)
      /\ StreamsBefore(g) = StreamsBefore(folderIndex)
      /\ DigestsBefore(g) = DigestsBefore(folderIndex)
  <2>1. CASE g = folderIndex
    BY <2>1
  <2>2. CASE g = folderIndex + 1 /\ NextNum = 0
    <3>1. NumStreams(folderIndex) = 0 /\ NumSizes(folderIndex) = 0 /\ NumDigests(folderIndex) = 0
      BY <1>4, <2>2 DEF NumSizes, NumDigests
    <3>2. /\ SizesBefore(folderIndex + 1) = SizesBefore(folderIndex) + 0
          /\ SizesBefore(folderIndex) \in Nat
      BY <1>3, <1>4, <3>1, SizesBefores
    <3>3. /\ StreamsBefore(folderIndex + 1) = StreamsBefore(folderIndex) + 0
          /\ StreamsBefore(folderIndex) \in Nat
      BY <1>3, <1>4, <3>1, Befores
    <3>4. /\ DigestsBefore(folderIndex + 1) = DigestsBefore(folderIndex) + 0
          /\ DigestsBefore(folderIndex) \in Nat
      BY <1>3, <1>4, <3>1, DigestsBefores
    <3> QED BY <2>2, <3>2, <3>3, <3>4
  <2> QED BY <1>1, <1>5, <2>1, <2>2
<1>9. Opened' = folderIndex + 1 /\ Taken' = 0
  BY <1>1, <1>4 DEF Opened, Taken
<1>10. ReadOK'
  <2>1. /\ Len(sdNumSubStreams') = IF hdr.hasNums THEN NumFolders - (folderIndex + 1) ELSE 0
        /\ \A j \in 1 .. Len(sdNumSubStreams') :
              sdNumSubStreams'[j] = hdr.nums[(folderIndex + 1) + j]
    BY <1>1, <1>2, ReadNumLeaves
  <2>2. remSubStreams' # 0 => /\ folderIndex' < NumFolders'
                              /\ numSubStreams' = NumStreams(folderIndex)'
                              /\ remSubStreams' <= numSubStreams'
    BY <1>1, <1>3, <1>4, <1>5, <1>7
  <2>3. /\ Len(sdSizes') = Len(hdr'.sizes) - SizesBefore(folderIndex)' - Taken'
        /\ \A j \in 1 .. Len(sdSizes') :
             sdSizes'[j] = hdr'.sizes[SizesBefore(folderIndex)' + Taken' + j]
    BY <1>1, <1>2, <1>7, <1>8, <1>9 DEF HeaderInv, ReadOK
  <2>4. /\ Len(sdNumSubStreams') = IF hdr'.hasNums THEN NumFolders' - Opened' ELSE 0
        /\ \A j \in 1 .. Len(sdNumSubStreams') : sdNumSubStreams'[j] = hdr'.nums[Opened' + j]
    BY <1>1, <1>3, <1>9, <2>1
  <2> QED BY <2>2, <2>3, <2>4 DEF ReadOK
<1>11. CountOK'
  <2>1. UNCHANGED <<emptyFileIndex, digestIndex, digestsVals>>
    BY <1>1 DEF bits
  <2> QED BY <1>1, <1>2, <1>3, <1>7, <1>8, <1>9, <2>1 DEF HeaderInv, CountOK
<1> QED BY <1>3, <1>10, <1>11 DEF HeaderInv

(* The digests that are defined are numbered. *)
LEMMA DigestSet ==
  ASSUME HdrTyped
  PROVE  hdr.digests \subseteq Nat /\ IsFiniteSet(hdr.digests)
<1>1. NumSubDigests(hdr) \in Nat
  BY DigestsBefores DEF HdrTyped
<1>2. IsFiniteSet(0 .. NumSubDigests(hdr) - 1) /\ Range0(NumSubDigests(hdr)) \subseteq Nat
  <2>1. 0 \in Int /\ NumSubDigests(hdr) - 1 \in Int
    BY <1>1
  <2> QED BY <1>1, <2>1, FS_Interval DEF Range0
<1> QED BY <1>2, FS_Subset DEF HdrTyped, Range0

(* Whose CRC is a digest of its own. *)
LEMMA DigestSteps ==
  ASSUME HeaderInv, remSubStreams # 0, remSubStreams \in Nat, folderIndex \in 0 .. NumFolders
  PROVE  /\ FolderCrcIsFiles <=> NumStreams(folderIndex) = 1 /\ folderIndex \in hdr.folderCrcs
         /\ FolderCrcIsFiles => NumDigests(folderIndex) = 0 /\ Taken = 0
         /\ ~ FolderCrcIsFiles => NumDigests(folderIndex) = NumStreams(folderIndex)
         /\ numSubStreams = NumStreams(folderIndex) /\ numSubStreams \in Nat
         /\ Taken = numSubStreams - remSubStreams
         /\ Taken \in Nat /\ Taken < numSubStreams /\ remSubStreams <= numSubStreams
         /\ folderIndex \in Folders /\ folderIndex \in 0 .. NumFolders - 1
<1>1. /\ folderIndex < NumFolders /\ numSubStreams = NumStreams(folderIndex)
      /\ remSubStreams <= numSubStreams
  BY DEF HeaderInv, ReadOK
<1>2. folderIndex \in 0 .. NumFolders - 1 /\ folderIndex \in Folders
  BY <1>1 DEF HeaderInv, HdrTyped, Folders, Range0
<1>3. numSubStreams \in Nat
  BY <1>1, <1>2, Streams DEF HeaderInv
<1>4. Taken = numSubStreams - remSubStreams
  BY DEF Taken
<1>5. FolderCrcIsFiles <=> NumStreams(folderIndex) = 1 /\ folderIndex \in hdr.folderCrcs
  BY <1>1, <1>3 DEF FolderCrcIsFiles
<1> QED BY <1>1, <1>2, <1>3, <1>4, <1>5 DEF NumDigests, FolderCrcIsFiles

(* A file takes a substream: the next size and the next digest are its own. *)
LEMMA TakeSubStreamHeader ==
  ASSUME IInv, HeaderInv, TakeSubStream, ~ Fail
  PROVE  HeaderInv'
<1>1. /\ pc = "substream" /\ SubStreamFits /\ pc' = "file" /\ i' = i + 1
      /\ remSubStreams' = remSubStreams - 1 /\ SetCrc
      /\ UNCHANGED <<hdr, numSubStreams, sdNumSubStreams, emptyFileIndex>>
      /\ \/ remSubStreams = 1 /\ folderIndex' = folderIndex + 1 /\ sdSizes' = sdSizes
         \/ remSubStreams # 1 /\ folderIndex' = folderIndex /\ sdSizes' = Tail(sdSizes)
  BY DEF TakeSubStream, Goto, NextFile
<1>2. /\ HdrTyped' /\ HdrTyped /\ NumFolders' = NumFolders /\ DataFiles' = DataFiles
      /\ NumTotalSubStreams(hdr') = NumTotalSubStreams(hdr)
  BY <1>1, HdrStays DEF HeaderInv
<1>3. /\ remSubStreams \in Nat \ {0} /\ i \in Nat /\ NumFolders \in Nat /\ folderIndex \in Nat
      /\ folderIndex \in 0 .. NumFolders
  BY <1>1 DEF IInv, LoopOK, TableOK, HdrOK
<1>4. /\ FolderCrcIsFiles => NumDigests(folderIndex) = 0 /\ Taken = 0
      /\ ~ FolderCrcIsFiles => NumDigests(folderIndex) = NumStreams(folderIndex)
      /\ numSubStreams = NumStreams(folderIndex) /\ numSubStreams \in Nat
      /\ Taken = numSubStreams - remSubStreams /\ Taken \in Nat /\ Taken < numSubStreams
      /\ remSubStreams <= numSubStreams
      /\ folderIndex \in Folders /\ folderIndex \in 0 .. NumFolders - 1
  BY <1>3, DigestSteps
<1>5. PICK g, k : g = folderIndex' /\ k = i + 1
  OBVIOUS
<1>6. /\ NumStreams(folderIndex)' = NumStreams(g)
      /\ SizesBefore(folderIndex)' = SizesBefore(g)
      /\ StreamsBefore(folderIndex)' = StreamsBefore(g)
      /\ DigestsBefore(folderIndex)' = DigestsBefore(g)
      /\ Nth(i)' = Nth(k)
  BY <1>1, <1>5, HdrAt
<1>7. Opened = folderIndex + 1 /\ Opened' = Opened
  BY <1>1, <1>3 DEF Opened
<1>8. /\ StreamsBefore(folderIndex) \in Nat /\ SizesBefore(folderIndex) \in Nat
      /\ DigestsBefore(folderIndex) \in Nat
      /\ StreamsBefore(folderIndex + 1) = StreamsBefore(folderIndex) + numSubStreams
      /\ SizesBefore(folderIndex + 1) = SizesBefore(folderIndex) + (numSubStreams - 1)
      /\ DigestsBefore(folderIndex + 1) =
           DigestsBefore(folderIndex) + (IF FolderCrcIsFiles THEN 0 ELSE numSubStreams)
  <2>1. NumSizes(folderIndex) = numSubStreams - 1
    BY <1>4 DEF NumSizes
  <2>2. NumDigests(folderIndex) = IF FolderCrcIsFiles THEN 0 ELSE numSubStreams
    BY <1>4
  <2>3. /\ StreamsBefore(folderIndex) \in Nat
        /\ StreamsBefore(folderIndex + 1) = StreamsBefore(folderIndex) + numSubStreams
    BY <1>2, <1>3, <1>4, Befores
  <2>4. /\ SizesBefore(folderIndex) \in Nat
        /\ SizesBefore(folderIndex + 1) = SizesBefore(folderIndex) + (numSubStreams - 1)
    BY <1>2, <1>3, <1>4, <2>1, SizesBefores
  <2>5. /\ DigestsBefore(folderIndex) \in Nat
        /\ DigestsBefore(folderIndex + 1) = DigestsBefore(folderIndex) + NumDigests(folderIndex)
    BY <1>2, <1>3, <1>4, DigestsBefores
  <2> QED BY <2>2, <2>3, <2>4, <2>5
<1>9. /\ StreamsBefore(g) + Taken' = StreamsBefore(folderIndex) + Taken + 1
      /\ SizesBefore(g) + Taken' =
           SizesBefore(folderIndex) + Taken + (IF remSubStreams = 1 THEN 0 ELSE 1)
      /\ DigestsBefore(g) + Taken' =
           DigestsBefore(folderIndex) + Taken + (IF FolderCrcIsFiles THEN 0 ELSE 1)
      /\ Taken' \in Nat /\ SizesBefore(g) \in Nat
  <2>1. CASE remSubStreams = 1
    <3>1. Taken' = 0 /\ g = folderIndex + 1
      BY <1>1, <1>5, <2>1 DEF Taken
    <3> QED BY <1>4, <1>8, <2>1, <3>1
  <2>2. CASE remSubStreams # 1
    <3>1. Taken' = numSubStreams - (remSubStreams - 1) /\ g = folderIndex
      BY <1>1, <1>3, <1>5, <2>2 DEF Taken
    <3>2. ~ FolderCrcIsFiles
      BY <2>2 DEF FolderCrcIsFiles
    <3> QED BY <1>3, <1>4, <1>8, <2>2, <3>1, <3>2
  <2> QED BY <2>1, <2>2
<1>10. ReadOK'
  <2>1. remSubStreams' # 0 => /\ folderIndex' < NumFolders'
                              /\ numSubStreams' = NumStreams(folderIndex)'
                              /\ remSubStreams' <= numSubStreams'
    BY <1>1, <1>2, <1>3, <1>4, <1>5, <1>6
  <2>2. /\ Len(sdNumSubStreams') = IF hdr'.hasNums THEN NumFolders' - Opened' ELSE 0
        /\ \A j \in 1 .. Len(sdNumSubStreams') : sdNumSubStreams'[j] = hdr'.nums[Opened' + j]
    BY <1>1, <1>2, <1>7 DEF HeaderInv, ReadOK
  <2>3. /\ Len(sdSizes') = Len(hdr'.sizes) - SizesBefore(folderIndex)' - Taken'
        /\ \A j \in 1 .. Len(sdSizes') :
             sdSizes'[j] = hdr'.sizes[SizesBefore(folderIndex)' + Taken' + j]
    <3>1. /\ Len(sdSizes) = Len(hdr.sizes) - SizesBefore(folderIndex) - Taken
          /\ \A j \in 1 .. Len(sdSizes) :
               sdSizes[j] = hdr.sizes[SizesBefore(folderIndex) + Taken + j]
      BY DEF HeaderInv, ReadOK
    <3>2. sdSizes \in Seq(Position) /\ Len(hdr.sizes) \in Nat
      BY <1>2 DEF IInv, TableOK, HdrTyped
    <3> DEFINE a == SizesBefore(folderIndex) + Taken
               b == SizesBefore(g) + Taken'
               n == Len(hdr.sizes)
    <3>a. /\ a \in Nat /\ b \in Nat /\ n \in Nat
          /\ b = a + (IF remSubStreams = 1 THEN 0 ELSE 1)
          /\ Len(sdSizes) = n - a
          /\ n - SizesBefore(g) - Taken' = n - b
      <4>1. PICK p \in Nat, q \in Nat, u \in Nat, v \in Nat, l \in Nat :
              /\ p = SizesBefore(folderIndex) /\ q = Taken /\ l = n
              /\ u = SizesBefore(g) /\ v = Taken'
        BY <1>4, <1>8, <1>9, <3>2
      <4>2. u + v = p + q + (IF remSubStreams = 1 THEN 0 ELSE 1)
        BY <1>9, <4>1
      <4>3. Len(sdSizes) = l - p - q
        BY <3>1, <4>1
      <4>4. /\ p + q \in Nat /\ u + v \in Nat
            /\ l - p - q = l - (p + q) /\ l - u - v = l - (u + v)
        OBVIOUS
      <4> QED BY <4>1, <4>2, <4>3, <4>4
    <3>b. \A j \in 1 .. Len(sdSizes) : sdSizes[j] = hdr.sizes[a + j]
      BY <3>1
    <3>c. /\ Len(sdSizes') = n - b
          /\ \A j \in 1 .. Len(sdSizes') : sdSizes'[j] = hdr.sizes[b + j]
      <4> HIDE DEF a, b, n
      <4>1. CASE remSubStreams = 1
        BY <1>1, <3>a, <3>b, <4>1
      <4>2. CASE remSubStreams # 1
        <5>1. sdSizes' = Tail(sdSizes) /\ sdSizes # << >> /\ b = a + 1
          BY <1>1, <3>a, <4>2 DEF SubStreamFits
        <5>2. Len(sdSizes') = Len(sdSizes) - 1 /\ Len(sdSizes) \in Nat
          BY <3>2, <5>1
        <5>3. Len(sdSizes') = n - b
          BY <3>a, <5>1, <5>2
        <5>4. ASSUME NEW j \in 1 .. Len(sdSizes') PROVE sdSizes'[j] = hdr.sizes[b + j]
          <6>1. sdSizes'[j] = sdSizes[j + 1] /\ j + 1 \in 1 .. Len(sdSizes)
            BY <3>2, <5>1, <5>2
          <6>2. a + (j + 1) = b + j
            BY <3>a, <5>1
          <6> QED BY <3>b, <6>1, <6>2
        <5> QED BY <5>3, <5>4
      <4> QED BY <4>1, <4>2
    <3> QED BY <1>1, <1>6, <3>a, <3>c
  <2> QED BY <2>1, <2>2, <2>3 DEF ReadOK
<1>11. CountOK'
  <2>1. Nth(i)' = StreamsBefore(folderIndex)' + Taken'
    <3>1. i \in DataFiles /\ Nth(i) = StreamsBefore(folderIndex) + Taken
      BY <1>1 DEF HeaderInv, CountOK
    <3>2. Nth(k) = Nth(i) + 1
      BY <1>2, <1>3, <1>5, <3>1, FileCounts
    <3> QED BY <1>4, <1>6, <1>8, <1>9, <3>1, <3>2
  <2>2. emptyFileIndex' = Cardinality({l \in hdr'.empty : l < i'})
    <3>1. i \notin hdr.empty /\ emptyFileIndex = Cardinality({l \in hdr.empty : l < i})
      BY <1>1 DEF HeaderInv, CountOK, DataFiles
    <3>2. /\ Cardinality({l \in hdr.empty : l < i + 1}) = Cardinality({l \in hdr.empty : l < i}) + 0
          /\ Cardinality({l \in hdr.empty : l < i}) \in Nat
      <4>1. hdr.empty \subseteq Nat /\ IsFiniteSet(hdr.empty)
        BY <1>2, FileCounts
      <4>2. /\ Cardinality({l \in hdr.empty : l < i}) \in Nat
            /\ Cardinality({l \in hdr.empty : l < i + 1}) =
                 Cardinality({l \in hdr.empty : l < i}) + IF i \in hdr.empty THEN 1 ELSE 0
        BY <1>3, <4>1, CountNext
      <4> QED BY <3>1, <4>2
    <3> QED BY <1>1, <3>1, <3>2
  <2>3. /\ digestIndex' = IF hdr'.hasDigests THEN DigestsBefore(folderIndex)' + Taken' ELSE 0
        /\ digestsVals' = Cardinality({d \in hdr'.digests : d < digestIndex'})
    <3>1. /\ digestIndex = IF hdr.hasDigests THEN DigestsBefore(folderIndex) + Taken ELSE 0
          /\ digestsVals = Cardinality({d \in hdr.digests : d < digestIndex})
      BY DEF HeaderInv, CountOK
    <3>2. DigestsBefore(folderIndex) + Taken \in Nat /\ digestIndex \in Nat
      BY <1>4, <1>8, <3>1
    <3>3. CASE FolderCrcIsFiles \/ ~ hdr.hasDigests
      <4>1. UNCHANGED <<digestIndex, digestsVals>>
        BY <1>1, <3>3 DEF SetCrc
      <4>2. FolderCrcIsFiles => DigestsBefore(g) + Taken' = DigestsBefore(folderIndex) + Taken
        BY <1>4, <1>8, <1>9
      <4> QED BY <1>1, <1>6, <3>1, <3>3, <4>1, <4>2
    <3>4. CASE ~ FolderCrcIsFiles /\ hdr.hasDigests
      <4>1. /\ digestIndex' = digestIndex + 1
            /\ digestsVals' = IF digestIndex \in hdr.digests THEN digestsVals + 1 ELSE digestsVals
        BY <1>1, <3>4 DEF SetCrc
      <4>2. /\ Cardinality({d \in hdr.digests : d < digestIndex + 1}) =
                 Cardinality({d \in hdr.digests : d < digestIndex}) +
                 IF digestIndex \in hdr.digests THEN 1 ELSE 0
            /\ Cardinality({d \in hdr.digests : d < digestIndex}) \in Nat
        BY <1>2, <3>2, DigestSet, CountNext
      <4>3. digestsVals' = Cardinality({d \in hdr.digests : d < digestIndex + 1})
        BY <3>1, <4>1, <4>2
      <4> QED BY <1>1, <1>6, <1>9, <3>1, <3>4, <4>1, <4>3
    <3> QED BY <3>3, <3>4
  <2>4. pc' = "file" /\ Cardinality(DataFiles') = NumTotalSubStreams(hdr')
    BY <1>1, <1>2 DEF HeaderInv, CountOK
  <2> QED BY <2>1, <2>2, <2>3, <2>4 DEF CountOK
<1> QED BY <1>2, <1>10, <1>11 DEF HeaderInv

(* The folders that are left have no substreams. *)
LEMMA RestHeader ==
  ASSUME IInv, HeaderInv, RestOfFolders
  PROVE  HeaderInv'
<1>1. CASE UNCHANGED cursors /\ pc' = "done"
  <2>1. hdr' = hdr /\ i' = i /\ UNCHANGED <<emptyFileIndex, digestIndex, digestsVals>>
    BY DEF RestOfFolders, bits
  <2> QED BY <1>1, <2>1, HeaderStays
<1>2. CASE /\ pc = "rest" /\ folderIndex < NumFolders /\ NextNum = 0 /\ ReadNum
           /\ folderIndex' = folderIndex + 1 /\ pc' = "rest"
           /\ UNCHANGED <<remSubStreams, sdSizes>>
  <2>1. UNCHANGED <<hdr, i, emptyFileIndex, digestIndex, digestsVals>>
    BY DEF RestOfFolders, bits
  <2>2. remSubStreams = 0 /\ Taken = 0 /\ Taken' = 0 /\ Opened' = folderIndex'
    BY <1>2 DEF IInv, LoopOK, Taken, Opened
  <2>3. /\ HdrTyped' /\ HdrTyped /\ NumFolders' = NumFolders /\ DataFiles' = DataFiles
        /\ NumTotalSubStreams(hdr') = NumTotalSubStreams(hdr)
    BY <2>1, HdrStays DEF HeaderInv
  <2>4. folderIndex \in 0 .. NumFolders - 1 /\ NumStreams(folderIndex) = 0
    BY <1>2, <2>2, NextNumIs
  <2>5. PICK g, k : g = folderIndex + 1 /\ k = i
    OBVIOUS
  <2>6. /\ SizesBefore(folderIndex)' = SizesBefore(g)
        /\ StreamsBefore(folderIndex)' = StreamsBefore(g)
        /\ DigestsBefore(folderIndex)' = DigestsBefore(g)
        /\ Nth(i)' = Nth(i)
    BY <1>2, <2>1, <2>5, HdrAt
  <2>7. /\ SizesBefore(g) = SizesBefore(folderIndex)
        /\ StreamsBefore(g) = StreamsBefore(folderIndex)
        /\ DigestsBefore(g) = DigestsBefore(folderIndex)
    <3>1. NumSizes(folderIndex) = 0 /\ NumDigests(folderIndex) = 0
      BY <2>4 DEF NumSizes, NumDigests
    <3>2. /\ SizesBefore(folderIndex + 1) = SizesBefore(folderIndex) + 0
          /\ SizesBefore(folderIndex) \in Nat
      BY <2>3, <2>4, <3>1, SizesBefores DEF HdrTyped
    <3>3. /\ StreamsBefore(folderIndex + 1) = StreamsBefore(folderIndex) + 0
          /\ StreamsBefore(folderIndex) \in Nat
      BY <2>3, <2>4, <3>1, Befores DEF HdrTyped
    <3>4. /\ DigestsBefore(folderIndex + 1) = DigestsBefore(folderIndex) + 0
          /\ DigestsBefore(folderIndex) \in Nat
      BY <2>3, <2>4, <3>1, DigestsBefores DEF HdrTyped
    <3> QED BY <2>5, <3>2, <3>3, <3>4
  <2>8. ReadOK'
    <3>1. /\ Len(sdNumSubStreams') = IF hdr.hasNums THEN NumFolders - (folderIndex + 1) ELSE 0
          /\ \A j \in 1 .. Len(sdNumSubStreams') :
                sdNumSubStreams'[j] = hdr.nums[(folderIndex + 1) + j]
      BY <1>2, <2>2, ReadNumLeaves
    <3>2. /\ Len(sdNumSubStreams') = IF hdr'.hasNums THEN NumFolders' - Opened' ELSE 0
          /\ \A j \in 1 .. Len(sdNumSubStreams') : sdNumSubStreams'[j] = hdr'.nums[Opened' + j]
      BY <1>2, <2>1, <2>2, <2>3, <3>1
    <3>3. /\ Len(sdSizes') = Len(hdr'.sizes) - SizesBefore(folderIndex)' - Taken'
          /\ \A j \in 1 .. Len(sdSizes') :
               sdSizes'[j] = hdr'.sizes[SizesBefore(folderIndex)' + Taken' + j]
      BY <1>2, <2>1, <2>2, <2>6, <2>7 DEF HeaderInv, ReadOK
    <3> QED BY <1>2, <2>2, <3>2, <3>3 DEF ReadOK
  <2>9. CountOK'
    BY <1>2, <2>1, <2>2, <2>3, <2>6, <2>7 DEF HeaderInv, CountOK
  <2> QED BY <2>3, <2>8, <2>9 DEF HeaderInv
<1>3. folderIndex >= NumFolders \/ folderIndex < NumFolders
  BY DEF IInv, TableOK, HdrOK
<1> QED BY <1>1, <1>2, <1>3 DEF RestOfFolders, Goto, Return

(* Every step keeps what was read in line with the files so far. *)
LEMMA HeaderNext == IInv /\ HeaderInv /\ [Next]_vars => HeaderInv'
<1> SUFFICES ASSUME IInv, HeaderInv, [Next]_vars PROVE HeaderInv'
  OBVIOUS
<1>1. CASE UNCHANGED vars
  BY <1>1, HeaderStays DEF vars, bits, HeaderInv, CountOK
<1>2. CASE Fail
  BY <1>2, HeaderStays DEF Fail, Return, bits
<1>3. CASE CheckCounts /\ ~ Fail
  <2>1. /\ pc' = "file" /\ UNCHANGED <<hdr, cursors, i>>
        /\ UNCHANGED <<emptyFileIndex, digestIndex, digestsVals>>
        /\ numFiles - Cardinality(hdr.empty) = NumTotalSubStreams(hdr)
    BY <1>3 DEF CheckCounts, Goto, bits
  <2>2. Cardinality(DataFiles) = NumTotalSubStreams(hdr)
    BY <2>1, FileCounts DEF HeaderInv
  <2> QED BY <2>1, <2>2, HeaderStays
<1>4. CASE StartFile
  BY <1>4, StartFileHeader
<1>5. CASE OpenFolder /\ ~ Fail
  BY <1>5, OpenFolderHeader
<1>6. CASE TakeSubStream /\ ~ Fail
  BY <1>6, TakeSubStreamHeader
<1>7. CASE EndFiles
  <2>1. /\ pc = "file" /\ pc' \in {"rest", "done"} /\ UNCHANGED <<hdr, cursors, i>>
        /\ UNCHANGED <<emptyFileIndex, digestIndex, digestsVals>>
    BY <1>7 DEF EndFiles, Goto, Return
  <2>2. Cardinality(DataFiles) = NumTotalSubStreams(hdr)
    BY <2>1 DEF HeaderInv, CountOK
  <2> QED BY <2>1, <2>2, HeaderStays
<1>8. CASE RestOfFolders
  BY <1>8, RestHeader
<1> QED BY <1>1, <1>2, <1>3, <1>4, <1>5, <1>6, <1>7, <1>8 DEF Next, Done

-----------------------------------------------------------------------------
(* A folder with substreams is there for every file with data that comes.  *)
LEMMA CountsThere == IInv /\ HeaderInv => CountsAgree
<1> SUFFICES ASSUME IInv, HeaderInv PROVE CountsAgree
  OBVIOUS
<1>1. /\ HdrTyped /\ NumFolders \in Nat /\ folderIndex \in 0 .. NumFolders
      /\ i \in Nat /\ numFiles \in Nat
  BY DEF HeaderInv, HdrTyped, IInv, TableOK
<1>2. pc \in {"folder", "rest"} =>
        /\ remSubStreams = 0 /\ Nth(i) = StreamsBefore(folderIndex)
        /\ Cardinality(DataFiles) = StreamsBefore(NumFolders)
  <2>1. StreamsBefore(folderIndex) \in Nat
    BY <1>1, Befores
  <2>2. NumTotalSubStreams(hdr) = StreamsBefore(NumFolders)
    BY <1>1, Befores
  <2> QED BY <2>1, <2>2 DEF IInv, LoopOK, HeaderInv, CountOK, Taken
<1>3. ASSUME pc = "folder" PROVE folderIndex < NumFolders
  <2>1. i \in DataFiles
    BY <1>3 DEF HeaderInv, CountOK
  <2>2. /\ Nth(i + 1) = Nth(i) + 1 /\ Nth(i + 1) <= Cardinality(DataFiles)
        /\ Nth(i) \in Nat /\ Cardinality(DataFiles) \in Nat
    BY <1>1, <2>1, FileCounts
  <2>3. folderIndex # NumFolders
    BY <1>2, <1>3, <2>2
  <2> QED BY <1>1, <2>3
<1>4. ASSUME pc = "folder" PROVE ~ NumsMissing
  BY <1>2, <1>3, <1>4, NextNumIs
<1>5. ASSUME pc = "rest", folderIndex < NumFolders PROVE hdr.hasNums /\ NextNum = 0
  <2>1. i = numFiles
    BY <1>5 DEF IInv, LoopOK
  <2>2. StreamsBefore(folderIndex) = StreamsBefore(NumFolders)
    BY <1>1, <1>2, <1>5, <2>1, FileCounts
  <2>3. /\ folderIndex \in 0 .. NumFolders - 1 /\ NextNum = NumStreams(folderIndex)
        /\ NextNum \in Nat
    BY <1>2, <1>5, NextNumIs
  <2>4. /\ StreamsBefore(folderIndex + 1) = StreamsBefore(folderIndex) + NextNum
        /\ StreamsBefore(folderIndex + 1) <= StreamsBefore(NumFolders)
        /\ StreamsBefore(folderIndex) \in Nat
    <3>1. folderIndex + 1 \in 0 .. NumFolders /\ NumFolders \in 0 .. NumFolders
          /\ folderIndex + 1 <= NumFolders
      BY <1>1, <2>3
    <3> QED BY <1>1, <2>3, <3>1, Befores
  <2>5. NextNum = 0
    BY <2>2, <2>3, <2>4
  <2> QED BY <2>5 DEF NextNum
<1> QED BY <1>2, <1>3, <1>4, <1>5 DEF CountsAgree

(* What is read without a check is there to be read. *)
LEMMA ReadsThere == IInv /\ HeaderInv => ReadsInBounds
<1> SUFFICES ASSUME IInv, HeaderInv PROVE ReadsInBounds
  OBVIOUS
<1>1. /\ HdrTyped /\ NumFolders \in Nat /\ folderIndex \in 0 .. NumFolders
      /\ i \in Nat /\ remSubStreams \in Nat
  BY DEF HeaderInv, HdrTyped, IInv, TableOK
<1>2. emptyFileIndex <= Cardinality(hdr.empty)
  BY <1>1, FileCounts, CountBelow DEF HeaderInv, CountOK
<1>3. digestsVals = Cardinality({d \in hdr.digests : d < digestIndex})
  BY DEF HeaderInv, CountOK
<1>4. digestIndex <= NumSubDigests(hdr)
  <2>1. /\ NumSubDigests(hdr) = DigestsBefore(NumFolders) /\ DigestsBefore(NumFolders) \in Nat
        /\ DigestsBefore(folderIndex) \in Nat
        /\ DigestsBefore(folderIndex) <= DigestsBefore(NumFolders)
    BY <1>1, DigestsBefores
  <2>2. digestIndex = IF hdr.hasDigests THEN DigestsBefore(folderIndex) + Taken ELSE 0
    BY DEF HeaderInv, CountOK
  <2>3. CASE remSubStreams = 0
    BY <2>1, <2>2, <2>3 DEF Taken
  <2>4. CASE remSubStreams # 0
    <3>1. /\ Taken <= NumDigests(folderIndex) /\ NumDigests(folderIndex) \in Nat /\ Taken \in Nat
          /\ folderIndex \in 0 .. NumFolders - 1
      BY <1>1, <2>4, DigestSteps
    <3>2. /\ DigestsBefore(folderIndex + 1) = DigestsBefore(folderIndex) + NumDigests(folderIndex)
          /\ DigestsBefore(folderIndex + 1) <= DigestsBefore(NumFolders)
      <4>1. folderIndex + 1 \in 0 .. NumFolders /\ NumFolders \in 0 .. NumFolders
            /\ folderIndex + 1 <= NumFolders
        BY <1>1, <3>1
      <4> QED BY <1>1, <3>1, <4>1, DigestsBefores
    <3> QED BY <2>1, <2>2, <3>1, <3>2
  <2> QED BY <2>3, <2>4
<1> QED BY <1>2, <1>3, <1>4 DEF ReadsInBounds

(* The loop over the files (7zArcIn.c:1302-1436) never lacks a folder or a *)
(* number of substreams, and is left with folders without substreams only: *)
(* the sums made while the section was skimmed are those the loop meets.   *)
THEOREM CountsMatch == Spec => []CountsAgree
BY InitInv, NextInv, InitHeader, HeaderNext, CountsThere, PTL DEF Spec

(* The digests and the empty-file bits are read without a look at how many *)
(* bytes are left (7zArcIn.c:1317-1324, 1389-1398): they are within the    *)
(* numbers measured when the sections were skimmed, for every header.      *)
THEOREM ReadsSafe == Spec => []ReadsInBounds
BY InitInv, NextInv, InitHeader, HeaderNext, ReadsThere, PTL DEF Spec

-----------------------------------------------------------------------------
(* The files so far are in their folders; those without data end where    *)
(* they start.                                                             *)
PlaceOK ==
  /\ \A k \in 0 .. i - 1 : k \in DataFiles =>
       FileToFolder[k] = FolderOf(k) /\ FolderOf(k) \in Folders
  /\ \A k \in 0 .. i - 1 : k \in hdr.empty => End(k) = UnpackPositions[k]

(* The folders so far are one behind the other, and large enough for the   *)
(* sizes of their substreams.                                              *)
FoldersOK ==
  /\ SpaceBefore(folderIndex) = IF remSubStreams = 0 THEN unpackPos ELSE Start(folderIndex)
  /\ remSubStreams # 0 => unpackPos = Start(folderIndex) + SumOfSizes(folderIndex, Taken)
  /\ pc \in {"folder", "substream"} => UnpackPositions[i] = unpackPos
  /\ \A f \in 0 .. folderIndex - 1 : SumOfSizes(f, NumSizes(f)) <= hdr.folderSize[f]

(* The slices of the files so far. *)
FilesOK ==
  \A k \in 0 .. i - 1 : k \in DataFiles =>
     /\ SubStreamOffset(k) = UnpackPositions[k] - Start(FolderOf(k))
     /\ SubStreamSize(k) = End(k) - UnpackPositions[k]

SpaceOK == FoldersOK /\ FilesOK

-----------------------------------------------------------------------------
(* The steps that move on, and what they leave of the files before.        *)
Moves ==
  \/ StartFile
  \/ OpenFolder /\ ~ Fail
  \/ TakeSubStream /\ ~ Fail
  \/ EndFiles
  \/ RestOfFolders

Kept ==
  \A k \in 0 .. i - 1 :
    /\ UnpackPositions'[k] = UnpackPositions[k] /\ FileToFolder'[k] = FileToFolder[k]
    /\ pc' # "done" => End(k)' = End(k)
    /\ InFolder(k) => UnpackPositions'[FolderToFile'[FileToFolder[k]]] = Start(FileToFolder[k])

(* A step that moves on leaves the files before where they are. *)
LEMMA MovesKeep ==
  ASSUME IInv, Moves
  PROVE  Kept
<1>0. /\ pc # "done" /\ HdrOK /\ TableOK /\ LoopOK /\ OpenOK
      /\ \A k \in 0 .. i - 1 : SliceOK(k)
  BY DEF Moves, StartFile, OpenFolder, TakeSubStream, EndFiles, RestOfFolders, IInv
<1>1. /\ numFiles \in Nat /\ NumFolders \in Nat /\ i \in Nat /\ folderIndex \in Nat
      /\ UnpackPositions \in [0 .. numFiles -> Position]
      /\ FolderToFile \in [0 .. NumFolders -> 0 .. numFiles]
      /\ FileToFolder \in [0 .. numFiles - 1 -> Int]
      /\ i <= numFiles /\ folderIndex <= NumFolders
  BY <1>0, Facts
<1>2. ASSUME NEW k \in 0 .. i - 1, InFolder(k)
      PROVE  /\ FileToFolder[k] \in 0 .. NumFolders - 1 /\ FileToFolder[k] <= folderIndex
             /\ FolderToFile[FileToFolder[k]] \in 0 .. numFiles
             /\ FolderToFile[FileToFolder[k]] <= k
             /\ remSubStreams = 0 => FileToFolder[k] < folderIndex
  <2>1. /\ FileToFolder[k] \in 0 .. NumFolders - 1 /\ FileToFolder[k] <= folderIndex
        /\ FolderToFile[FileToFolder[k]] <= k
        /\ FileToFolder[k] = folderIndex => remSubStreams # 0
    BY <1>0, <1>2 DEF SliceOK
  <2>2. FolderToFile[FileToFolder[k]] \in 0 .. numFiles
    BY <1>1, <2>1
  <2> QED BY <1>1, <2>1, <2>2
<1>3. CASE StartFile
  <2>1. /\ pc = "file" /\ i < numFiles
        /\ UnpackPositions' = [UnpackPositions EXCEPT ![i] = unpackPos]
        /\ FolderToFile' = FolderToFile /\ unpackPos' = unpackPos
        /\ \/ /\ i' = i + 1 /\ pc' = "file"
              /\ FileToFolder' = [FileToFolder EXCEPT ![i] =
                                    IF remSubStreams = 0 THEN NoFolder ELSE folderIndex]
           \/ /\ i' = i /\ pc' \in {"folder", "substream"} /\ FileToFolder' = FileToFolder
    BY <1>3 DEF StartFile, cursors, NextFile, Goto
  <2> SUFFICES ASSUME NEW k \in 0 .. i - 1
               PROVE  /\ UnpackPositions'[k] = UnpackPositions[k] /\ FileToFolder'[k] = FileToFolder[k]
                      /\ End(k)' = End(k)
                      /\ InFolder(k) => UnpackPositions'[FolderToFile'[FileToFolder[k]]] =
                                          Start(FileToFolder[k])
    BY DEF Kept
  <2>2. UnpackPositions'[k] = UnpackPositions[k] /\ FileToFolder'[k] = FileToFolder[k]
    BY <1>1, <2>1
  <2>3. End(k)' = End(k)
    BY <1>1, <2>1 DEF End, Stored
  <2>4. InFolder(k) => UnpackPositions'[FolderToFile'[FileToFolder[k]]] = Start(FileToFolder[k])
    <3>1. SUFFICES ASSUME InFolder(k)
                   PROVE  UnpackPositions'[FolderToFile[FileToFolder[k]]] =
                            UnpackPositions[FolderToFile[FileToFolder[k]]]
      BY <2>1 DEF Start
    <3>2. FolderToFile[FileToFolder[k]] \in 0 .. numFiles /\ FolderToFile[FileToFolder[k]] <= k
      BY <1>2, <3>1
    <3> QED BY <1>1, <2>1, <3>2
  <2> QED BY <2>2, <2>3, <2>4
<1>4. CASE OpenFolder /\ ~ Fail
  <2>1. /\ pc = "folder" /\ pc' \in {"folder", "substream"} /\ remSubStreams = 0
        /\ FolderToFile' = [FolderToFile EXCEPT ![folderIndex] = i]
        /\ UNCHANGED <<UnpackPositions, FileToFolder, i>>
    BY <1>0, <1>4 DEF OpenFolder, Goto, LoopOK
  <2>2. \A k \in 0 .. i - 1 : End(k)' = End(k)
    BY <2>1 DEF End, Stored
  <2>3. ASSUME NEW k \in 0 .. i - 1, InFolder(k)
        PROVE  FolderToFile'[FileToFolder[k]] = FolderToFile[FileToFolder[k]]
    BY <1>1, <1>2, <2>1, <2>3
  <2> QED BY <2>1, <2>2, <2>3 DEF Kept, Start
<1>5. CASE TakeSubStream /\ ~ Fail
  <2>1. /\ pc = "substream" /\ pc' = "file" /\ i' = i + 1
        /\ FileToFolder' = [FileToFolder EXCEPT ![i] = folderIndex]
        /\ UNCHANGED <<UnpackPositions, FolderToFile>>
    BY <1>5 DEF TakeSubStream, Goto, NextFile
  <2>2. \A k \in 0 .. i - 1 : End(k)' = End(k) /\ FileToFolder'[k] = FileToFolder[k]
    BY <1>1, <2>1 DEF End, Stored
  <2> QED BY <2>1, <2>2 DEF Kept, Start
<1>6. CASE EndFiles
  <2>1. /\ pc = "file" /\ i = numFiles /\ unpackPos' = unpackPos
        /\ UnpackPositions' = [UnpackPositions EXCEPT ![i] = unpackPos]
        /\ pc' \in {"rest", "done"} /\ UNCHANGED <<FolderToFile, FileToFolder, i>>
    BY <1>6 DEF EndFiles, Goto, Return, cursors
  <2>2. ASSUME NEW k \in 0 .. i - 1
        PROVE  UnpackPositions'[k] = UnpackPositions[k] /\ End(k)' = End(k)
    BY <1>1, <2>1 DEF End, Stored
  <2>3. ASSUME NEW k \in 0 .. i - 1, InFolder(k)
        PROVE  UnpackPositions'[FolderToFile[FileToFolder[k]]] =
                 UnpackPositions[FolderToFile[FileToFolder[k]]]
    <3>1. FolderToFile[FileToFolder[k]] \in 0 .. numFiles /\ FolderToFile[FileToFolder[k]] <= k
      BY <1>2, <2>3
    <3> QED BY <1>1, <2>1, <3>1
  <2> QED BY <2>1, <2>2, <2>3 DEF Kept, Start
<1>7. CASE RestOfFolders
  <2>1. /\ pc = "rest" /\ remSubStreams = 0 /\ i = numFiles
        /\ FolderToFile' = [FolderToFile EXCEPT ![folderIndex] = i]
        /\ pc' \in {"rest", "done"} /\ UNCHANGED <<UnpackPositions, FileToFolder, i, unpackPos>>
    BY <1>0, <1>7 DEF RestOfFolders, Goto, Return, LoopOK, cursors
  <2>2. pc' # "done" => \A k \in 0 .. i - 1 : End(k)' = End(k)
    BY <2>1 DEF End, Stored
  <2>3. ASSUME NEW k \in 0 .. i - 1, InFolder(k)
        PROVE  FolderToFile'[FileToFolder[k]] = FolderToFile[FileToFolder[k]]
    BY <1>1, <1>2, <2>1, <2>3
  <2> QED BY <2>1, <2>2, <2>3 DEF Kept, Start
<1> QED BY <1>3, <1>4, <1>5, <1>6, <1>7 DEF Moves

(* The folder of a file is the one whose substreams its number is among.   *)
LEMMA FolderIs ==
  ASSUME HdrTyped, NEW k \in Nat, NEW f \in Folders,
         StreamsBefore(f) <= Nth(k), Nth(k) < StreamsBefore(f) + NumStreams(f)
  PROVE  FolderOf(k) = f
<1> DEFINE Here(g) == StreamsBefore(g) <= Nth(k) /\ Nth(k) < StreamsBefore(g) + NumStreamsOf(hdr, g)
<1>1. Here(f)
  BY DEF NumStreams
<1>2. ASSUME NEW g \in Folders, NEW h \in Folders, g < h, Here(g) PROVE ~ Here(h)
  <2>1. /\ g \in 0 .. NumFolders - 1 /\ g + 1 \in 0 .. NumFolders /\ h \in 0 .. NumFolders
        /\ g + 1 <= h /\ NumFolders \in Nat
    BY <1>2 DEF Folders, Range0, HdrTyped
  <2>2. /\ StreamsBefore(g + 1) = StreamsBefore(g) + NumStreams(g)
        /\ StreamsBefore(g + 1) <= StreamsBefore(h)
        /\ StreamsBefore(g + 1) \in Nat /\ StreamsBefore(h) \in Nat
    BY <2>1, Befores
  <2>3. Nth(k) \in Nat
    BY FileCounts
  <2>4. Nth(k) < StreamsBefore(g + 1)
    BY <1>2, <2>2 DEF NumStreams
  <2> QED BY <2>2, <2>3, <2>4
<1>3. ASSUME NEW g \in Folders, Here(g) PROVE g = f
  <2>1. g \in Int /\ f \in Int
    BY DEF Folders, Range0, HdrTyped
  <2> QED BY <1>1, <1>2, <1>3, <2>1
<1>4. FolderOf(k) = CHOOSE g \in Folders : Here(g)
  BY DEF FolderOf
<1> HIDE DEF Here
<1> QED BY <1>1, <1>3, <1>4

(* The open folder is the file's own. *)
LEMMA OpenIsOwn ==
  ASSUME IInv, HeaderInv, remSubStreams # 0
  PROVE  /\ FolderOf(i) = folderIndex /\ folderIndex \in Folders
         /\ Nth(i) - StreamsBefore(folderIndex) = Taken
         /\ numSubStreams = NumStreams(folderIndex) /\ numSubStreams \in Nat
         /\ Taken = numSubStreams - remSubStreams
         /\ remSubStreams \in Nat /\ remSubStreams <= numSubStreams
         /\ folderIndex \in 0 .. NumFolders - 1
<1>1. /\ HdrTyped /\ i \in Nat /\ remSubStreams \in Nat /\ folderIndex \in 0 .. NumFolders
      /\ NumFolders \in Nat
  BY DEF HeaderInv, HdrTyped, IInv, TableOK
<1>2. /\ numSubStreams = NumStreams(folderIndex) /\ numSubStreams \in Nat
      /\ Taken = numSubStreams - remSubStreams /\ Taken \in Nat /\ Taken < numSubStreams
      /\ remSubStreams <= numSubStreams
      /\ folderIndex \in Folders /\ folderIndex \in 0 .. NumFolders - 1
  BY <1>1, DigestSteps
<1>3. Nth(i) = StreamsBefore(folderIndex) + Taken /\ StreamsBefore(folderIndex) \in Nat
  BY <1>1, Befores DEF HeaderInv, CountOK
<1>4. /\ StreamsBefore(folderIndex) <= Nth(i)
      /\ Nth(i) < StreamsBefore(folderIndex) + NumStreams(folderIndex)
      /\ Nth(i) - StreamsBefore(folderIndex) = Taken
  BY <1>2, <1>3
<1>5. FolderOf(i) = folderIndex
  BY <1>1, <1>2, <1>4, FolderIs
<1> QED BY <1>1, <1>2, <1>4, <1>5

Placed == pc # "done" => PlaceOK

(* Every step keeps the files so far in the folders of the reference. *)
LEMMA PlacedNext == IInv /\ HeaderInv /\ Placed /\ [Next]_vars => Placed'
<1> SUFFICES ASSUME IInv, HeaderInv, Placed, [Next]_vars, pc' # "done" PROVE PlaceOK'
  BY DEF Placed
<1>1. CASE UNCHANGED vars
  <2>1. hdr' = hdr /\ PlaceOK /\ UNCHANGED <<i, FileToFolder, UnpackPositions, unpackPos, pc>>
    BY <1>1 DEF vars, Placed, positions, cursors
  <2>2. Stored' = Stored
    BY <2>1 DEF Stored
  <2>3. \A k : End(k)' = End(k)
    BY <2>1, <2>2 DEF End
  <2> QED BY <2>1, <2>3, HdrStays DEF PlaceOK
<1>2. CASE Fail
  BY <1>2 DEF Fail, Return
<1>3. CASE CheckCounts /\ ~ Fail
  <2>1. i' = 0
    BY <1>3 DEF CheckCounts, IInv, LoopOK
  <2> QED BY <2>1 DEF PlaceOK
<1>4. CASE Moves
  <2>1. hdr' = hdr /\ PlaceOK /\ i \in Nat
    BY <1>4 DEF Moves, StartFile, OpenFolder, TakeSubStream, EndFiles, RestOfFolders, Placed,
                IInv, TableOK
  <2>2. Kept
    BY <1>4, MovesKeep
  <2>3. \/ i' = i
        \/ /\ i' = i + 1 /\ i \in hdr.empty
           /\ \A k : k = i => End(k)' = UnpackPositions'[k]
        \/ /\ i' = i + 1 /\ i \notin hdr.empty
           /\ FileToFolder'[i] = FolderOf(i) /\ FolderOf(i) \in Folders
    <3>1. CASE StartFile
      <4>1. \/ i' = i
            \/ /\ i' = i + 1 /\ i \in hdr.empty /\ pc' = "file" /\ unpackPos' = unpackPos
               /\ UnpackPositions' = [UnpackPositions EXCEPT ![i] = unpackPos]
        BY <3>1 DEF StartFile, cursors, NextFile, Goto
      <4>2. UnpackPositions \in [0 .. numFiles -> Position] /\ i \in 0 .. numFiles
        BY DEF IInv, TableOK
      <4>3. ASSUME i' = i + 1, pc' = "file", unpackPos' = unpackPos, NEW k, k = i,
                   UnpackPositions' = [UnpackPositions EXCEPT ![i] = unpackPos]
            PROVE  End(k)' = UnpackPositions'[k]
        <5>1. End(k)' = unpackPos
          BY <2>1, <4>3 DEF End, Stored
        <5> QED BY <4>2, <4>3, <5>1
      <4> QED BY <4>1, <4>3
    <3>2. CASE TakeSubStream /\ ~ Fail
      <4>1. /\ pc = "substream" /\ i' = i + 1
            /\ FileToFolder' = [FileToFolder EXCEPT ![i] = folderIndex]
        BY <3>2 DEF TakeSubStream, NextFile
      <4>2. remSubStreams # 0 /\ i < numFiles /\ FileToFolder \in [0 .. numFiles - 1 -> Int]
            /\ numFiles \in Nat
        BY <4>1 DEF IInv, LoopOK, TableOK, HdrOK
      <4>3. i \notin hdr.empty
        BY <4>1 DEF HeaderInv, CountOK, DataFiles
      <4>4. FileToFolder'[i] = folderIndex
        BY <2>1, <4>1, <4>2
      <4> QED BY <4>1, <4>2, <4>3, <4>4, OpenIsOwn
    <3>3. CASE (OpenFolder /\ ~ Fail) \/ EndFiles \/ RestOfFolders
      BY <3>3 DEF OpenFolder, EndFiles, RestOfFolders
    <3> QED BY <1>4, <3>1, <3>2, <3>3 DEF Moves
  <2>4. hdr'.empty = hdr.empty /\ DataFiles' = DataFiles /\ Folders' = Folders
        /\ \A k : FolderOf(k)' = FolderOf(k)
    BY <2>1, HdrStays
  <2>5. ASSUME NEW k \in 0 .. i' - 1, k \in DataFiles'
        PROVE  FileToFolder'[k] = FolderOf(k)' /\ FolderOf(k)' \in Folders'
    <3>1. CASE k \in 0 .. i - 1
      BY <2>1, <2>2, <2>4, <2>5, <3>1 DEF PlaceOK, Kept
    <3>2. CASE k = i /\ i' = i + 1
      BY <2>3, <2>4, <2>5, <3>2 DEF DataFiles
    <3> QED BY <2>1, <2>3, <3>1, <3>2
  <2>6. ASSUME NEW k \in 0 .. i' - 1, k \in hdr'.empty
        PROVE  End(k)' = UnpackPositions'[k]
    <3>1. CASE k \in 0 .. i - 1
      BY <2>1, <2>2, <2>4, <2>6, <3>1 DEF PlaceOK, Kept
    <3>2. CASE k = i /\ i' = i + 1
      BY <2>3, <2>4, <2>6, <3>2
    <3> QED BY <2>1, <2>3, <3>1, <3>2
  <2> QED BY <2>5, <2>6 DEF PlaceOK
<1> QED BY <1>1, <1>2, <1>3, <1>4 DEF Next, Moves, Done

-----------------------------------------------------------------------------
(* Sums of the sizes in the header. *)
LEMMA SizeSums ==
  ASSUME HdrTyped, NEW f \in 0 .. NumFolders, NEW n \in Nat,
         n > 0 => SizesBefore(f) + n <= Len(hdr.sizes)
  PROVE  /\ SumOfSizes(f, 0) = 0
         /\ SumOfSizes(f, n) \in Nat
         /\ \A m \in 0 .. n : SumOfSizes(f, m) <= SumOfSizes(f, n)
<1>1. SizesBefore(f) \in Nat /\ hdr.sizes \in Seq(Position) /\ Position \subseteq Nat
  BY SizesBefores, FileTableAssumption DEF HdrTyped, Position
<1> DEFINE a == SizesBefore(f)
<1>2. a \in Nat
  BY <1>1
<1>3. n > 0 => a + n <= Len(hdr.sizes)
  OBVIOUS
<1>4. \A m : SumOfSizes(f, m) = SumFunctionOnSet(hdr.sizes, a + 1 .. a + m)
  BY DEF SumOfSizes
<1> HIDE DEF a
<1>5. ASSUME NEW m \in 0 .. n
      PROVE  IsFiniteSet(a + 1 .. a + m) /\ \A x \in a + 1 .. a + m : hdr.sizes[x] \in Nat
  <2>1. a + 1 \in Int /\ a + m \in Int
    BY <1>2
  <2>2. \A x \in a + 1 .. a + m : x \in 1 .. Len(hdr.sizes)
    BY <1>1, <1>2, <1>3
  <2>3. \A x \in 1 .. Len(hdr.sizes) : hdr.sizes[x] \in Position
    BY <1>1
  <2> QED BY <1>1, <2>1, <2>2, <2>3, FS_Interval
<1>6. SumOfSizes(f, 0) = 0
  <2>1. a + 1 \in Int /\ a + 0 \in Int /\ a + 0 < a + 1
    BY <1>2
  <2> QED BY <1>4, <2>1, SumNone
<1>n. /\ n \in 0 .. n /\ IsFiniteSet(a + 1 .. a + n)
      /\ \A x \in a + 1 .. a + n : hdr.sizes[x] \in Nat
  <2>1. n \in 0 .. n
    OBVIOUS
  <2> QED BY <1>5, <2>1
<1>7. SumOfSizes(f, n) \in Nat
  BY <1>4, <1>n, SumNat
<1>8. ASSUME NEW m \in 0 .. n PROVE SumOfSizes(f, m) <= SumOfSizes(f, n)
  <2>1. a + 1 .. a + m \subseteq a + 1 .. a + n
    BY <1>2, <1>8
  <2> QED BY <1>4, <1>n, <2>1, SumGrows
<1> QED BY <1>6, <1>7, <1>8

(* The sizes of one substream more. *)
LEMMA SizeNext ==
  ASSUME HdrTyped, NEW f \in 0 .. NumFolders, NEW n \in Nat,
         SizesBefore(f) + n + 1 <= Len(hdr.sizes)
  PROVE  /\ hdr.sizes[SizesBefore(f) + n + 1] \in Position
         /\ SumOfSizes(f, n + 1) = SumOfSizes(f, n) + hdr.sizes[SizesBefore(f) + n + 1]
<1>1. SizesBefore(f) \in Nat /\ hdr.sizes \in Seq(Position) /\ Position \subseteq Nat
  BY SizesBefores, FileTableAssumption DEF HdrTyped, Position
<1> DEFINE a == SizesBefore(f)
<1>2. a \in Nat /\ a + n + 1 <= Len(hdr.sizes)
  BY <1>1
<1>3. \A m : SumOfSizes(f, m) = SumFunctionOnSet(hdr.sizes, a + 1 .. a + m)
  BY DEF SumOfSizes
<1>4. SizesBefore(f) + n + 1 = a + n + 1
  OBVIOUS
<1> HIDE DEF a
<1>5. \A x \in a + 1 .. a + n + 1 : hdr.sizes[x] \in Position
  BY <1>1, <1>2
<1>6. a + 1 \in Int /\ a + n + 1 \in Int /\ a + 1 <= a + n + 1 /\ (a + n + 1) - 1 = a + n
      /\ a + (n + 1) = a + n + 1
  BY <1>2
<1>7. SumFunctionOnSet(hdr.sizes, a + 1 .. a + n + 1) =
        SumFunctionOnSet(hdr.sizes, a + 1 .. (a + n + 1) - 1) + hdr.sizes[a + n + 1]
  BY <1>1, <1>5, <1>6, SumNext
<1> QED BY <1>3, <1>4, <1>5, <1>6, <1>7

(* A size of the section is left for every substream but a folder's last,  *)
(* and it is the one the header has for it.                                *)
LEMMA SizeLeft ==
  ASSUME IInv, HeaderInv, remSubStreams # 0
  PROVE  /\ SizesBefore(folderIndex) + Taken <= Len(hdr.sizes)
         /\ SizesBefore(folderIndex) \in Nat /\ Taken \in Nat /\ Len(hdr.sizes) \in Nat
         /\ sdSizes # << >> => /\ SizesBefore(folderIndex) + Taken + 1 <= Len(hdr.sizes)
                               /\ Head(sdSizes) = hdr.sizes[SizesBefore(folderIndex) + Taken + 1]
         /\ sdSizes = << >> => Len(hdr.sizes) = SizesBefore(folderIndex) + Taken
<1>1. /\ sdSizes \in Seq(Position) /\ HdrTyped /\ Len(hdr.sizes) \in Nat /\ Len(sdSizes) \in Nat
      /\ folderIndex \in 0 .. NumFolders
  BY DEF IInv, TableOK, HeaderInv, HdrTyped
<1>2. SizesBefore(folderIndex) \in Nat /\ Taken \in Nat
  BY <1>1, OpenIsOwn, SizesBefores
<1>3. Len(sdSizes) = Len(hdr.sizes) - SizesBefore(folderIndex) - Taken
  BY DEF HeaderInv, ReadOK
<1>4. sdSizes # << >> => Head(sdSizes) = hdr.sizes[SizesBefore(folderIndex) + Taken + 1]
  <2>1. sdSizes # << >> => 1 \in 1 .. Len(sdSizes) /\ Head(sdSizes) = sdSizes[1]
    BY <1>1
  <2> QED BY <2>1 DEF HeaderInv, ReadOK
<1>5. (sdSizes = << >> <=> Len(sdSizes) = 0)
  BY <1>1
<1> QED BY <1>1, <1>2, <1>3, <1>4, <1>5

(* The end of a substream that fits is the end the header gives it. *)
LEMMA SubStreamEnds ==
  ASSUME IInv, HeaderInv, FoldersOK, pc = "substream", SubStreamFits
  PROVE  /\ SubStreamOffset(i) = UnpackPositions[i] - Start(folderIndex)
         /\ SubStreamSize(i) = SubStreamEnd - UnpackPositions[i]
         /\ remSubStreams = 1 =>
              /\ SubStreamEnd = SpaceBefore(folderIndex + 1)
              /\ SumOfSizes(folderIndex, NumSizes(folderIndex)) <= hdr.folderSize[folderIndex]
         /\ remSubStreams # 1 => SubStreamEnd = Start(folderIndex) + SumOfSizes(folderIndex, Taken + 1)
<1> DEFINE f == folderIndex
           S == Start(folderIndex)
           sum == SumOfSizes(folderIndex, Taken)
           size == hdr.folderSize[folderIndex]
<1>1. remSubStreams # 0 /\ HdrTyped
  BY DEF IInv, LoopOK, HeaderInv
<1>2. /\ FolderOf(i) = folderIndex /\ folderIndex \in Folders
      /\ Nth(i) - StreamsBefore(folderIndex) = Taken
      /\ numSubStreams = NumStreams(folderIndex) /\ numSubStreams \in Nat
      /\ Taken = numSubStreams - remSubStreams
      /\ remSubStreams \in Nat /\ remSubStreams <= numSubStreams
      /\ folderIndex \in 0 .. NumFolders - 1
  BY <1>1, OpenIsOwn
<1>3. /\ S \in Position /\ S <= unpackPos /\ unpackPos \in Position /\ size \in Position
      /\ Position \subseteq Nat
  <2>1. FolderToFile[folderIndex] \in 0 .. numFiles
    BY <1>2 DEF IInv, TableOK
  <2>2. S \in Position
    BY <2>1 DEF Start, IInv, TableOK
  <2>3. Start(folderIndex) <= unpackPos
    BY <1>1 DEF IInv, OpenOK
  <2>4. size \in Position
    BY <1>1, <1>2 DEF HdrTyped
  <2> QED BY <2>2, <2>3, <2>4, FileTableAssumption DEF IInv, TableOK, Position
<1>4. unpackPos = S + sum /\ SpaceBefore(folderIndex) = S /\ UnpackPositions[i] = unpackPos
  BY <1>1 DEF FoldersOK
<1>5. SubStreamOffset(i) = sum
  BY <1>2 DEF SubStreamOffset
<1>6. sum \in Nat
  <2>1. folderIndex \in 0 .. NumFolders /\ Taken \in Nat
        /\ SizesBefore(folderIndex) + Taken <= Len(hdr.sizes)
    BY <1>1, <1>2, SizeLeft DEF HdrTyped
  <2> QED BY <1>1, <2>1, SizeSums
<1>7. SubStreamOffset(i) = UnpackPositions[i] - Start(folderIndex)
  <2>1. sum = unpackPos - S
    <3> HIDE DEF S, sum
    <3> QED BY <1>3, <1>4, <1>6
  <2> QED BY <1>4, <1>5, <2>1
<1>8. CASE remSubStreams = 1
  <2>1. StartFolderUnpackPos = S
    BY DEF StartFolderUnpackPos, Start
  <2>2. Minus64(unpackPos, S) <= size /\ size <= Plus64(S, size) /\ SubStreamEnd = Plus64(S, size)
    BY <1>8, <2>1 DEF SubStreamFits, SubStreamEnd, FolderUnpackSize
  <2>3. SubStreamEnd = S + size /\ unpackPos - S <= size
    BY <1>3, <2>2, Plus64Fits, Minus64Fits
  <2>4. SpaceBefore(folderIndex + 1) = SpaceBefore(folderIndex) + size
    BY <1>1, <1>2, SpaceBefores
  <2>5. Taken = NumStreams(folderIndex) - 1 /\ Taken = NumSizes(folderIndex)
    BY <1>2, <1>8 DEF NumSizes
  <2>6. SubStreamSize(i) = size - sum
    BY <1>2, <2>5 DEF SubStreamSize, NumStreams
  <2>7. sum <= size
    <3> HIDE DEF S, sum, size
    <3> QED BY <1>3, <1>4, <1>6, <2>3
  <2>8. SubStreamSize(i) = SubStreamEnd - UnpackPositions[i]
    <3> HIDE DEF S, sum, size
    <3> QED BY <1>3, <1>4, <1>6, <2>3, <2>6
  <2> QED BY <1>4, <1>7, <1>8, <2>3, <2>4, <2>5, <2>7, <2>8
<1>9. CASE remSubStreams # 1
  <2> DEFINE next == hdr.sizes[SizesBefore(folderIndex) + Taken + 1]
  <2>1. sdSizes # << >> /\ Head(sdSizes) <= SubStreamEnd
        /\ SubStreamEnd = Plus64(unpackPos, Head(sdSizes))
    BY <1>9 DEF SubStreamFits, SubStreamEnd
  <2>2. /\ Head(sdSizes) = next /\ SizesBefore(folderIndex) + Taken + 1 <= Len(hdr.sizes)
        /\ Taken \in Nat
    BY <1>1, <2>1, SizeLeft
  <2>3. next \in Position /\ SumOfSizes(folderIndex, Taken + 1) = sum + next
    <3>1. folderIndex \in 0 .. NumFolders
      BY <1>1, <1>2 DEF HdrTyped
    <3> QED BY <1>1, <2>2, <3>1, SizeNext
  <2>4. SubStreamEnd = unpackPos + next
    BY <1>3, <2>1, <2>2, <2>3, Plus64Fits
  <2>5. SubStreamSize(i) = next
    <3>1. Taken # NumStreams(folderIndex) - 1
      BY <1>2, <1>9
    <3> QED BY <1>2, <3>1 DEF SubStreamSize, NumStreams
  <2>6. SubStreamEnd = Start(folderIndex) + SumOfSizes(folderIndex, Taken + 1)
    <3>1. SubStreamEnd = S + (sum + next)
      <4> HIDE DEF S, sum, next
      <4> QED BY <1>3, <1>4, <1>6, <2>3, <2>4
    <3> QED BY <2>3, <3>1
  <2>7. SubStreamSize(i) = SubStreamEnd - UnpackPositions[i]
    <3>1. next \in Nat /\ unpackPos \in Nat
      BY <1>3, <2>3
    <3>2. next = SubStreamEnd - unpackPos
      <4> HIDE DEF next
      <4> QED BY <2>4, <3>1
    <3> QED BY <1>4, <2>5, <3>2
  <2> QED BY <1>7, <1>9, <2>6, <2>7
<1> QED BY <1>8, <1>9

(* The sum over a folder, for the folder and the number given. *)
LEMMA SumAt ==
  ASSUME hdr' = hdr, NEW f, folderIndex' = f, NEW n, Taken' = n
  PROVE  SumOfSizes(folderIndex, Taken)' = SumOfSizes(f, n)
<1>1. SumOfSizes(f, n)' = SumOfSizes(folderIndex, Taken)'
  OBVIOUS
<1> QED BY <1>1, HdrStays

(* The folders behind are checked when the next one is reached. *)
LEMMA FoldersBehind ==
  ASSUME hdr' = hdr, FoldersOK, HdrTyped, folderIndex \in Nat,
         \/ folderIndex' = folderIndex
         \/ /\ folderIndex' = folderIndex + 1
            /\ SumOfSizes(folderIndex, NumSizes(folderIndex)) <= hdr.folderSize[folderIndex]
  PROVE  \A f \in 0 .. folderIndex' - 1 : SumOfSizes(f, NumSizes(f))' <= hdr'.folderSize[f]
<1> SUFFICES ASSUME NEW f \in 0 .. folderIndex' - 1
             PROVE  SumOfSizes(f, NumSizes(f))' <= hdr'.folderSize[f]
  OBVIOUS
<1>1. SumOfSizes(f, NumSizes(f))' = SumOfSizes(f, NumSizes(f))
  <2>1. PICK n : n = NumSizes(f)
    OBVIOUS
  <2>2. NumSizes(f)' = n
    BY <2>1, HdrStays
  <2>3. SumOfSizes(f, n)' = SumOfSizes(f, NumSizes(f))'
    BY <2>2
  <2> QED BY <2>1, <2>3, HdrStays
<1>2. CASE f \in 0 .. folderIndex - 1
  BY <1>1, <1>2 DEF FoldersOK
<1>3. CASE f = folderIndex /\ folderIndex' = folderIndex + 1
  BY <1>1, <1>3
<1> QED BY <1>2, <1>3

(* A folder that is passed over takes no space. *)
LEMMA PassedOver ==
  ASSUME HdrTyped, ~ SkipsData, NEW f \in 0 .. NumFolders - 1, NumStreams(f) = 0
  PROVE  /\ hdr.folderSize[f] = 0
         /\ SpaceBefore(f + 1) = SpaceBefore(f)
         /\ SumOfSizes(f, NumSizes(f)) <= hdr.folderSize[f]
<1>1. f \in Folders /\ NumSizes(f) = 0
  BY DEF Folders, Range0, NumSizes
<1>2. hdr.folderSize[f] = 0
  BY <1>1 DEF SkipsData, NumStreams
<1>3. SpaceBefore(f + 1) = SpaceBefore(f) + 0 /\ SpaceBefore(f) \in Nat
  <2>1. f \in 0 .. NumFolders
    BY DEF HdrTyped
  <2> QED BY <1>2, <2>1, SpaceBefores
<1>4. SumOfSizes(f, 0) = 0
  <2>1. f \in 0 .. NumFolders
    BY DEF HdrTyped
  <2> QED BY <2>1, SizeSums
<1> QED BY <1>1, <1>2, <1>3, <1>4

(* Every step keeps the folders so far where they are in the stream. *)
LEMMA FoldersNext ==
  ASSUME IInv, HeaderInv, ~ SkipsData, FoldersOK, Moves, pc' # "done"
  PROVE  FoldersOK'
<1>0. /\ HdrTyped /\ i \in Nat /\ numFiles \in Nat /\ NumFolders \in Nat /\ folderIndex \in Nat
      /\ folderIndex \in 0 .. NumFolders /\ i \in 0 .. numFiles
      /\ unpackPos \in Position /\ remSubStreams \in Nat
      /\ UnpackPositions \in [0 .. numFiles -> Position]
      /\ FolderToFile \in [0 .. NumFolders -> 0 .. numFiles]
  BY DEF HeaderInv, HdrTyped, IInv, TableOK
<1>h. hdr' = hdr
  BY DEF Moves, StartFile, OpenFolder, TakeSubStream, EndFiles, RestOfFolders
<1>g. PICK g, k : g = folderIndex' /\ k = i'
  OBVIOUS
<1>s. SpaceBefore(folderIndex)' = SpaceBefore(g)
  BY <1>g, <1>h, HdrAt
<1>1. CASE StartFile \/ EndFiles
  <2>1. /\ UNCHANGED <<folderIndex, remSubStreams, numSubStreams, unpackPos, FolderToFile>>
        /\ UnpackPositions' = [UnpackPositions EXCEPT ![i] = unpackPos]
        /\ pc' \in {"folder", "substream"} => i' = i
        /\ pc = "file"
    BY <1>1 DEF StartFile, EndFiles, cursors, NextFile, Goto, Return
  <2>2. remSubStreams # 0 => Start(folderIndex)' = Start(folderIndex)
    <3>1. remSubStreams # 0 => /\ FolderToFile[folderIndex] < i
                               /\ FolderToFile[folderIndex] \in 0 .. numFiles
      BY <1>0, <2>1 DEF IInv, OpenOK
    <3> QED BY <1>0, <2>1, <3>1 DEF Start
  <2>3. Taken' = Taken
    BY <2>1 DEF Taken
  <2>4. PICK n : n = Taken
    OBVIOUS
  <2>5. SumOfSizes(folderIndex, Taken)' = SumOfSizes(folderIndex, Taken)
    BY <1>h, <1>g, <2>1, <2>3, <2>4, SumAt
  <2>6. pc' \in {"folder", "substream"} => UnpackPositions'[i'] = unpackPos'
    BY <1>0, <2>1
  <2>7. \A f \in 0 .. folderIndex' - 1 : SumOfSizes(f, NumSizes(f))' <= hdr'.folderSize[f]
    BY <1>0, <1>h, <2>1, FoldersBehind
  <2> HIDE DEF Taken
  <2> QED BY <1>g, <1>s, <2>1, <2>2, <2>5, <2>6, <2>7 DEF FoldersOK
<1>2. CASE OpenFolder /\ ~ Fail
  <2>1. /\ pc = "folder" /\ folderIndex < NumFolders
        /\ FolderToFile' = [FolderToFile EXCEPT ![folderIndex] = i]
        /\ numSubStreams' = NextNum /\ remSubStreams' = NextNum
        /\ UNCHANGED <<UnpackPositions, i>>
        /\ \/ NextNum # 0 /\ folderIndex' = folderIndex /\ unpackPos' = unpackPos
           \/ /\ NextNum = 0 /\ folderIndex' = folderIndex + 1
              /\ unpackPos' = Plus64(unpackPos, FolderUnpackSize)
    <3>1. ~ (\/ folderIndex >= NumFolders
             \/ NumsMissing
             \/ NextNum = 0 /\ Plus64(unpackPos, FolderUnpackSize) < FolderUnpackSize)
      BY <1>2 DEF OpenFolder
    <3> QED BY <1>0, <1>2, <3>1 DEF OpenFolder
  <2>2. remSubStreams = 0 /\ UnpackPositions[i] = unpackPos /\ SpaceBefore(folderIndex) = unpackPos
    BY <2>1 DEF IInv, LoopOK, FoldersOK
  <2>3. /\ folderIndex \in 0 .. NumFolders - 1 /\ NextNum = NumStreams(folderIndex)
        /\ NextNum \in Nat
    BY <2>1, <2>2, NextNumIs
  <2>4. CASE NextNum # 0
    <3>1. Start(folderIndex)' = unpackPos /\ Taken' = 0 /\ remSubStreams' # 0
      BY <1>0, <2>1, <2>2, <2>3, <2>4 DEF Start, Taken
    <3>2. SumOfSizes(folderIndex, Taken)' = SumOfSizes(folderIndex, 0)
      BY <1>h, <1>g, <2>1, <2>4, <3>1, SumAt
    <3>3. SumOfSizes(folderIndex, 0) = 0
      BY <1>0, SizeSums
    <3>4. \A f \in 0 .. folderIndex' - 1 : SumOfSizes(f, NumSizes(f))' <= hdr'.folderSize[f]
      BY <1>0, <1>h, <2>1, <2>4, FoldersBehind
    <3>5. unpackPos \in Nat
      BY <1>0, FileTableAssumption DEF Position
    <3> QED BY <1>g, <1>s, <2>1, <2>2, <2>4, <3>1, <3>2, <3>3, <3>4, <3>5 DEF FoldersOK
  <2>5. CASE NextNum = 0
    <3>1. /\ hdr.folderSize[folderIndex] = 0
          /\ SpaceBefore(folderIndex + 1) = SpaceBefore(folderIndex)
          /\ SumOfSizes(folderIndex, NumSizes(folderIndex)) <= hdr.folderSize[folderIndex]
      BY <1>0, <2>3, <2>5, PassedOver
    <3>2. unpackPos' = unpackPos
      <4>1. FolderUnpackSize = 0
        BY <3>1 DEF FolderUnpackSize
      <4>2. Plus64(unpackPos, 0) = unpackPos
        BY <1>0, FileTableAssumption DEF Plus64, Position
      <4> QED BY <2>1, <2>5, <4>1, <4>2
    <3>3. \A f \in 0 .. folderIndex' - 1 : SumOfSizes(f, NumSizes(f))' <= hdr'.folderSize[f]
      BY <1>0, <1>h, <2>1, <2>5, <3>1, FoldersBehind
    <3> QED BY <1>g, <1>s, <2>1, <2>2, <2>5, <3>1, <3>2, <3>3 DEF FoldersOK
  <2> QED BY <2>4, <2>5
<1>3. CASE TakeSubStream /\ ~ Fail
  <2>1. /\ pc = "substream" /\ SubStreamFits /\ pc' = "file"
        /\ remSubStreams' = remSubStreams - 1 /\ unpackPos' = SubStreamEnd
        /\ UNCHANGED <<UnpackPositions, FolderToFile, numSubStreams>>
        /\ \/ remSubStreams = 1 /\ folderIndex' = folderIndex + 1
           \/ remSubStreams # 1 /\ folderIndex' = folderIndex
    BY <1>3 DEF TakeSubStream, Goto
  <2>2. /\ remSubStreams = 1 =>
              /\ SubStreamEnd = SpaceBefore(folderIndex + 1)
              /\ SumOfSizes(folderIndex, NumSizes(folderIndex)) <= hdr.folderSize[folderIndex]
        /\ remSubStreams # 1 => SubStreamEnd = Start(folderIndex) + SumOfSizes(folderIndex, Taken + 1)
    BY <2>1, SubStreamEnds
  <2>3. remSubStreams # 0 /\ Taken = numSubStreams - remSubStreams /\ numSubStreams \in Nat
    BY <2>1, OpenIsOwn DEF IInv, LoopOK
  <2>4. \A f \in 0 .. folderIndex' - 1 : SumOfSizes(f, NumSizes(f))' <= hdr'.folderSize[f]
    BY <1>0, <1>h, <2>1, <2>2, FoldersBehind
  <2>5. CASE remSubStreams = 1
    BY <1>g, <1>s, <2>1, <2>2, <2>4, <2>5 DEF FoldersOK
  <2>6. CASE remSubStreams # 1
    <3>1. remSubStreams' # 0 /\ Taken' = Taken + 1 /\ Start(folderIndex)' = Start(folderIndex)
      BY <1>0, <2>1, <2>3, <2>6 DEF Taken, Start
    <3>2. PICK n : n = Taken + 1
      OBVIOUS
    <3>3. SumOfSizes(folderIndex, Taken)' = SumOfSizes(folderIndex, Taken + 1)
      BY <1>h, <1>g, <2>1, <2>6, <3>1, <3>2, SumAt
    <3>4. SpaceBefore(folderIndex)' = Start(folderIndex)'
      BY <1>g, <1>s, <2>1, <2>3, <2>6, <3>1 DEF FoldersOK
    <3>5. unpackPos' = Start(folderIndex)' + SumOfSizes(folderIndex, Taken)'
      BY <2>1, <2>2, <2>6, <3>1, <3>3
    <3> QED BY <2>1, <2>4, <3>1, <3>4, <3>5 DEF FoldersOK
  <2> QED BY <2>5, <2>6
<1>4. CASE RestOfFolders
  <2>1. /\ pc = "rest" /\ folderIndex < NumFolders /\ NextNum = 0
        /\ folderIndex' = folderIndex + 1 /\ pc' = "rest"
        /\ UNCHANGED <<remSubStreams, unpackPos>>
    BY <1>0, <1>4 DEF RestOfFolders, Goto, Return
  <2>2. remSubStreams = 0 /\ SpaceBefore(folderIndex) = unpackPos
    BY <2>1 DEF IInv, LoopOK, FoldersOK
  <2>3. folderIndex \in 0 .. NumFolders - 1 /\ NumStreams(folderIndex) = 0
    BY <2>1, <2>2, NextNumIs
  <2>4. /\ SpaceBefore(folderIndex + 1) = SpaceBefore(folderIndex)
        /\ SumOfSizes(folderIndex, NumSizes(folderIndex)) <= hdr.folderSize[folderIndex]
    BY <1>0, <2>3, PassedOver
  <2>5. \A f \in 0 .. folderIndex' - 1 : SumOfSizes(f, NumSizes(f))' <= hdr'.folderSize[f]
    BY <1>0, <1>h, <2>1, <2>4, FoldersBehind
  <2> QED BY <1>g, <1>s, <2>1, <2>2, <2>4, <2>5 DEF FoldersOK
<1> QED BY <1>1, <1>2, <1>3, <1>4 DEF Moves

(* Every step keeps the slices of the files so far those of the reference. *)
LEMMA FilesNext ==
  ASSUME IInv, HeaderInv, PlaceOK, FoldersOK, FilesOK, Moves, pc' # "done"
  PROVE  FilesOK'
<1>0. /\ HdrTyped /\ i \in Nat /\ numFiles \in Nat /\ i \in 0 .. numFiles
  BY DEF HeaderInv, HdrTyped, IInv, TableOK
<1>h. /\ hdr' = hdr /\ pc # "done"
  BY DEF Moves, StartFile, OpenFolder, TakeSubStream, EndFiles, RestOfFolders
<1>1. Kept
  BY MovesKeep
<1>2. /\ DataFiles' = DataFiles
      /\ \A k : /\ FolderOf(k)' = FolderOf(k) /\ SubStreamOffset(k)' = SubStreamOffset(k)
                /\ SubStreamSize(k)' = SubStreamSize(k)
  BY <1>h, HdrStays
<1>3. \A k : Start(FolderOf(k))' = UnpackPositions'[FolderToFile'[FolderOf(k)]]
  BY <1>2 DEF Start
<1>4. ASSUME NEW k \in 0 .. i - 1, k \in DataFiles
      PROVE  /\ SubStreamOffset(k)' = UnpackPositions'[k] - Start(FolderOf(k))'
             /\ SubStreamSize(k)' = End(k)' - UnpackPositions'[k]
  <2>1. FileToFolder[k] = FolderOf(k) /\ FolderOf(k) \in Folders
    BY <1>4 DEF PlaceOK
  <2>2. InFolder(k)
    BY <1>0, <2>1 DEF InFolder, NoFolder, Folders, Range0, HdrTyped
  <2>3. Start(FolderOf(k))' = Start(FolderOf(k))
    BY <1>1, <1>3, <1>4, <2>1, <2>2 DEF Kept
  <2>4. UnpackPositions'[k] = UnpackPositions[k] /\ End(k)' = End(k)
    BY <1>1, <1>4 DEF Kept
  <2>5. /\ SubStreamOffset(k) = UnpackPositions[k] - Start(FolderOf(k))
        /\ SubStreamSize(k) = End(k) - UnpackPositions[k]
    BY <1>4 DEF FilesOK
  <2> QED BY <1>2, <2>3, <2>4, <2>5
<1>5. ASSUME NEW k, k = i, i' = i + 1, k \in DataFiles
      PROVE  /\ SubStreamOffset(k)' = UnpackPositions'[k] - Start(FolderOf(k))'
             /\ SubStreamSize(k)' = End(k)' - UnpackPositions'[k]
  <2>1. TakeSubStream /\ ~ Fail
    BY <1>0, <1>5 DEF Moves, StartFile, OpenFolder, EndFiles, RestOfFolders, NextFile, DataFiles
  <2>2. /\ pc = "substream" /\ SubStreamFits /\ pc' = "file" /\ unpackPos' = SubStreamEnd
        /\ UNCHANGED <<UnpackPositions, FolderToFile>>
    BY <2>1 DEF TakeSubStream, Goto
  <2>3. /\ SubStreamOffset(k) = UnpackPositions[k] - Start(folderIndex)
        /\ SubStreamSize(k) = SubStreamEnd - UnpackPositions[k]
    BY <1>5, <2>2, SubStreamEnds
  <2>4. FolderOf(k) = folderIndex
    BY <1>5, <2>2, OpenIsOwn DEF IInv, LoopOK
  <2>5. Start(FolderOf(k))' = Start(folderIndex)
    BY <1>3, <2>2, <2>4 DEF Start
  <2>6. End(k)' = SubStreamEnd
    BY <1>0, <1>5, <2>2 DEF End, Stored
  <2> QED BY <1>2, <2>2, <2>3, <2>5, <2>6
<1>6. i' = i \/ i' = i + 1
  BY DEF Moves, StartFile, OpenFolder, TakeSubStream, EndFiles, RestOfFolders, NextFile
<1>7. \A k \in 0 .. i' - 1 : k \in 0 .. i - 1 \/ (k = i /\ i' = i + 1)
  BY <1>0, <1>6
<1> QED BY <1>2, <1>4, <1>5, <1>7 DEF FilesOK

Spaced == pc # "done" /\ ~ SkipsData => SpaceOK

(* Before the first file. *)
LEMMA InitPlaced == Init => Placed /\ Spaced
<1> SUFFICES ASSUME Init PROVE Placed /\ Spaced
  OBVIOUS
<1>1. /\ i = 0 /\ folderIndex = 0 /\ remSubStreams = 0 /\ unpackPos = 0 /\ pc = "counts"
  BY DEF Init
<1>2. SpaceBefore(0) = 0
  BY InitHdr, SpaceBefores
<1> QED BY <1>1, <1>2 DEF Placed, PlaceOK, Spaced, SpaceOK, FoldersOK, FilesOK

(* Every step keeps folders and slices so far in place. *)
LEMMA SpacedNext == IInv /\ HeaderInv /\ Placed /\ Spaced /\ [Next]_vars => Spaced'
<1> SUFFICES ASSUME IInv, HeaderInv, Placed, Spaced, [Next]_vars, pc' # "done", ~ SkipsData'
             PROVE  SpaceOK'
  BY DEF Spaced
<1>h. hdr' = hdr
  BY DEF Next, Done, vars, CheckCounts, Fail, StartFile, OpenFolder, TakeSubStream, EndFiles,
         RestOfFolders
<1>s. ~ SkipsData
  BY <1>h, HdrStays
<1>1. CASE pc # "done" /\ (UNCHANGED vars \/ (CheckCounts /\ ~ Fail))
  <2>1. /\ UNCHANGED <<positions, cursors, i>>
        /\ \/ pc' = pc
           \/ pc' = "file" /\ pc = "counts"
    <3>1. CASE UNCHANGED vars
      BY <3>1 DEF vars
    <3>2. CASE CheckCounts /\ ~ Fail
      BY <3>2 DEF CheckCounts, Goto
    <3> QED BY <1>1, <3>1, <3>2
  <2>2. /\ UNCHANGED <<i, UnpackPositions, FolderToFile, unpackPos, folderIndex, remSubStreams>>
        /\ UNCHANGED numSubStreams
    BY <2>1 DEF positions, cursors
  <2>3. SpaceOK /\ HdrTyped /\ folderIndex \in Nat /\ i \in Nat
    BY <1>1, <1>s DEF Spaced, HeaderInv, IInv, TableOK
  <2>4. PICK g, k, n : g = folderIndex' /\ k = i' /\ n = Taken
    OBVIOUS
  <2>5. Taken' = Taken
    BY <2>2 DEF Taken
  <2>6. /\ SpaceBefore(folderIndex)' = SpaceBefore(folderIndex)
        /\ SumOfSizes(folderIndex, Taken)' = SumOfSizes(folderIndex, Taken)
        /\ Start(folderIndex)' = Start(folderIndex)
    BY <1>h, <2>2, <2>4, <2>5, HdrAt, SumAt DEF Start
  <2>7. \A f \in 0 .. folderIndex' - 1 : SumOfSizes(f, NumSizes(f))' <= hdr'.folderSize[f]
    BY <1>h, <2>2, <2>3, FoldersBehind DEF SpaceOK
  <2>8. FoldersOK'
    BY <2>1, <2>2, <2>3, <2>6, <2>7 DEF SpaceOK, FoldersOK
  <2>9. FilesOK'
    <3>1. CASE pc' = pc
      <4>1. \A k0 : End(k0)' = End(k0)
        BY <2>2, <3>1 DEF End, Stored
      <4>2. \A k0 : Start(FolderOf(k0))' = Start(FolderOf(k0))
        <5>1. \A k0 : FolderOf(k0)' = FolderOf(k0)
          BY <1>h, HdrStays
        <5> QED BY <2>2, <5>1 DEF Start
      <4>3. DataFiles' = DataFiles
            /\ \A k0 : /\ SubStreamOffset(k0)' = SubStreamOffset(k0)
                       /\ SubStreamSize(k0)' = SubStreamSize(k0)
        BY <1>h, HdrStays
      <4> QED BY <2>2, <2>3, <4>1, <4>2, <4>3 DEF SpaceOK, FilesOK
    <3>2. CASE pc = "counts"
      <4>1. i' = 0
        BY <2>2, <3>2 DEF IInv, LoopOK
      <4> QED BY <4>1 DEF FilesOK
    <3> QED BY <2>1, <3>1, <3>2
  <2> QED BY <2>8, <2>9 DEF SpaceOK
<1>2. CASE Moves
  <2>1. pc # "done"
    BY <1>2 DEF Moves, StartFile, OpenFolder, TakeSubStream, EndFiles, RestOfFolders
  <2>2. PlaceOK /\ FoldersOK /\ FilesOK
    BY <1>s, <2>1 DEF Placed, Spaced, SpaceOK
  <2> QED BY <1>2, <1>s, <2>2, FoldersNext, FilesNext DEF SpaceOK
<1>3. CASE Fail
  BY <1>3 DEF Fail, Return
<1>4. pc # "done"
  <2>1. pc = "done" => pc' = "done"
    BY DEF Next, Done, vars, CheckCounts, StartFile, OpenFolder, TakeSubStream, EndFiles,
           RestOfFolders
  <2> QED BY <2>1
<1> QED BY <1>1, <1>2, <1>3, <1>4 DEF Next, Moves, Done

-----------------------------------------------------------------------------
(* A header that agrees with itself is not refused. *)
LEMMA ConsistentStays == hdr' = hdr => Consistent' = Consistent
BY DEF Consistent, DataFiles, Files, Folders, numFiles, NumFolders, SumOfSizes, SizesBefore

(* What Consistent says of the open folder. *)
LEMMA ConsistentOpen ==
  ASSUME IInv, HeaderInv, FoldersOK, Consistent, remSubStreams # 0
  PROVE  /\ Start(folderIndex) + hdr.folderSize[folderIndex] < SizeMod
         /\ SizesBefore(folderIndex) + NumSizes(folderIndex) <= Len(hdr.sizes)
         /\ SumOfSizes(folderIndex, NumSizes(folderIndex)) <= hdr.folderSize[folderIndex]
         /\ NumSizes(folderIndex) = numSubStreams - 1
         /\ \A m \in 0 .. NumSizes(folderIndex) :
              /\ SumOfSizes(folderIndex, m) \in Nat
              /\ SumOfSizes(folderIndex, m) <= hdr.folderSize[folderIndex]
<1>1. /\ HdrTyped /\ NumFolders \in Nat /\ SizeMod \in Nat /\ Position \subseteq Nat
  BY FileTableAssumption DEF HeaderInv, HdrTyped, Position
<1>2. /\ folderIndex \in Folders /\ folderIndex \in 0 .. NumFolders - 1
      /\ numSubStreams = NumStreams(folderIndex) /\ numSubStreams \in Nat /\ numSubStreams # 0
  BY OpenIsOwn
<1>3. /\ folderIndex \in 0 .. NumFolders /\ folderIndex + 1 \in 0 .. NumFolders
      /\ folderIndex + 1 <= NumFolders /\ NumFolders \in 0 .. NumFolders
  BY <1>1, <1>2
<1>4. NumSizes(folderIndex) = numSubStreams - 1 /\ NumSizes(folderIndex) \in Nat
  BY <1>2 DEF NumSizes
<1>5. Start(folderIndex) + hdr.folderSize[folderIndex] < SizeMod
  <2>1. SpaceBefore(folderIndex) = Start(folderIndex)
    BY DEF FoldersOK
  <2>2. /\ SpaceBefore(folderIndex + 1) = SpaceBefore(folderIndex) + hdr.folderSize[folderIndex]
        /\ SpaceBefore(folderIndex + 1) <= SpaceBefore(NumFolders)
        /\ SpaceBefore(NumFolders) \in Nat /\ SpaceBefore(folderIndex + 1) \in Nat
    BY <1>1, <1>2, <1>3, SpaceBefores
  <2>3. SpaceBefore(NumFolders) < SizeMod
    BY DEF Consistent, SpaceBefore, Folders
  <2> QED BY <1>1, <2>1, <2>2, <2>3
<1>6. SizesBefore(folderIndex) + NumSizes(folderIndex) <= Len(hdr.sizes)
  <2>1. /\ SizesBefore(folderIndex + 1) = SizesBefore(folderIndex) + NumSizes(folderIndex)
        /\ SizesBefore(folderIndex + 1) <= SizesBefore(NumFolders)
        /\ NumSizesInData(hdr) = SizesBefore(NumFolders)
    BY <1>1, <1>2, <1>3, SizesBefores
  <2>2. Len(hdr.sizes) = NumSizesInData(hdr)
    BY DEF Consistent
  <2> QED BY <2>1, <2>2
<1>7. SumOfSizes(folderIndex, NumSizes(folderIndex)) <= hdr.folderSize[folderIndex]
  BY <1>2 DEF Consistent, NumSizes, NumStreams
<1>8. ASSUME NEW m \in 0 .. NumSizes(folderIndex)
      PROVE  /\ SumOfSizes(folderIndex, m) \in Nat
             /\ SumOfSizes(folderIndex, m) <= hdr.folderSize[folderIndex]
  <2>1. /\ SumOfSizes(folderIndex, m) <= SumOfSizes(folderIndex, NumSizes(folderIndex))
        /\ SumOfSizes(folderIndex, NumSizes(folderIndex)) \in Nat
    BY <1>1, <1>3, <1>4, <1>6, SizeSums
  <2>2. SizesBefore(folderIndex) + m <= Len(hdr.sizes) /\ m \in Nat
    <3>1. SizesBefore(folderIndex) \in Nat
      BY <1>1, <1>3, SizesBefores
    <3>2. Len(hdr.sizes) \in Nat
      BY <1>1 DEF HdrTyped
    <3> QED BY <1>4, <1>6, <1>8, <3>1, <3>2
  <2>3. SumOfSizes(folderIndex, m) \in Nat
    BY <1>1, <1>3, <2>2, SizeSums
  <2>4. hdr.folderSize[folderIndex] \in Nat
    BY <1>1, <1>2 DEF HdrTyped
  <2> QED BY <1>7, <2>1, <2>3, <2>4
<1> QED BY <1>4, <1>5, <1>6, <1>7, <1>8

(* A header that agrees with itself has room for the next substream. *)
LEMMA ConsistentFits ==
  ASSUME IInv, HeaderInv, FoldersOK, Consistent, pc = "substream"
  PROVE  SubStreamFits
<1> DEFINE S == Start(folderIndex)
           sum == SumOfSizes(folderIndex, Taken)
           size == hdr.folderSize[folderIndex]
<1>1. remSubStreams # 0 /\ HdrTyped
  BY DEF IInv, LoopOK, HeaderInv
<1>2. /\ folderIndex \in Folders /\ folderIndex \in 0 .. NumFolders - 1
      /\ numSubStreams \in Nat /\ Taken = numSubStreams - remSubStreams
      /\ remSubStreams \in Nat /\ remSubStreams <= numSubStreams
  BY <1>1, OpenIsOwn
<1>3. /\ S + size < SizeMod
      /\ SizesBefore(folderIndex) + NumSizes(folderIndex) <= Len(hdr.sizes)
      /\ NumSizes(folderIndex) = numSubStreams - 1
      /\ \A m \in 0 .. NumSizes(folderIndex) :
           SumOfSizes(folderIndex, m) \in Nat /\ SumOfSizes(folderIndex, m) <= size
  BY <1>1, ConsistentOpen
<1>4. /\ S \in Position /\ S <= unpackPos /\ unpackPos \in Position /\ size \in Position
      /\ Position \subseteq Nat /\ SizeMod \in Nat
  <2>1. FolderToFile[folderIndex] \in 0 .. numFiles
    BY <1>2 DEF IInv, TableOK
  <2>2. S \in Position
    BY <2>1 DEF Start, IInv, TableOK
  <2>3. Start(folderIndex) <= unpackPos
    BY <1>1 DEF IInv, OpenOK
  <2>4. size \in Position
    BY <1>1, <1>2 DEF HdrTyped
  <2> QED BY <2>2, <2>3, <2>4, FileTableAssumption DEF IInv, TableOK, Position
<1>5. unpackPos = S + sum
  BY <1>1 DEF FoldersOK
<1>6. Taken \in 0 .. NumSizes(folderIndex)
  BY <1>1, <1>2, <1>3
<1>7. sum \in Nat /\ sum <= size
  BY <1>3, <1>6
<1>8. CASE remSubStreams = 1
  <2>1. StartFolderUnpackPos = S
    BY DEF StartFolderUnpackPos, Start
  <2>2. Minus64(unpackPos, S) = unpackPos - S
    BY <1>4, Minus64Fits
  <2>3. Plus64(S, size) = S + size
    BY <1>3 DEF Plus64
  <2>4. unpackPos - S <= size /\ size <= S + size
    <3> HIDE DEF S, sum, size
    <3> QED BY <1>4, <1>5, <1>7
  <2> QED BY <1>8, <2>1, <2>2, <2>3, <2>4 DEF SubStreamFits, SubStreamEnd, FolderUnpackSize
<1>9. CASE remSubStreams # 1
  <2> DEFINE next == hdr.sizes[SizesBefore(folderIndex) + Taken + 1]
  <2>1. Taken + 1 \in 0 .. NumSizes(folderIndex) /\ Taken \in Nat
    BY <1>1, <1>2, <1>3, <1>9
  <2>2. /\ SizesBefore(folderIndex) \in Nat /\ Len(hdr.sizes) \in Nat
        /\ sdSizes # << >> => Head(sdSizes) = next
        /\ sdSizes = << >> => Len(hdr.sizes) = SizesBefore(folderIndex) + Taken
    BY <1>1, SizeLeft
  <2>3. SizesBefore(folderIndex) + Taken + 1 <= Len(hdr.sizes) /\ sdSizes # << >>
    <3>1. SizesBefore(folderIndex) + NumSizes(folderIndex) <= Len(hdr.sizes)
          /\ NumSizes(folderIndex) \in Int /\ Taken + 1 <= NumSizes(folderIndex)
      BY <1>2, <1>3, <2>1
    <3>2. SizesBefore(folderIndex) + Taken + 1 <= Len(hdr.sizes)
      BY <2>1, <2>2, <3>1
    <3> QED BY <2>1, <2>2, <3>2
  <2>4. next \in Position /\ SumOfSizes(folderIndex, Taken + 1) = sum + next
    <3>1. folderIndex \in 0 .. NumFolders
      BY <1>1, <1>2 DEF HdrTyped
    <3> QED BY <1>1, <2>1, <2>3, <3>1, SizeNext
  <2>5. sum + next <= size
    BY <1>3, <2>1, <2>4
  <2>6. Plus64(unpackPos, next) = unpackPos + next /\ next <= unpackPos + next
    <3>1. next \in Nat
      BY <1>4, <2>4
    <3> HIDE DEF S, sum, size, next
    <3>2. unpackPos + next < SizeMod /\ next <= unpackPos + next
      BY <1>3, <1>4, <1>5, <1>7, <2>5, <3>1
    <3> QED BY <3>2 DEF Plus64
  <2> QED BY <1>9, <2>2, <2>3, <2>6 DEF SubStreamFits, SubStreamEnd
<1> QED BY <1>8, <1>9

(* The loop ends with a folder's last substream: the counts agree. *)
LEMMA EndsWithFolder ==
  ASSUME IInv, HeaderInv, pc = "file", i = numFiles
  PROVE  remSubStreams = 0
<1> SUFFICES ASSUME remSubStreams # 0 PROVE FALSE
  OBVIOUS
<1>1. HdrTyped /\ NumFolders \in Nat
  BY DEF HeaderInv, HdrTyped
<1>2. /\ folderIndex \in 0 .. NumFolders - 1
      /\ numSubStreams = NumStreams(folderIndex) /\ numSubStreams \in Nat
      /\ Taken = numSubStreams - remSubStreams
      /\ remSubStreams \in Nat /\ remSubStreams <= numSubStreams
  BY OpenIsOwn
<1>3. Nth(numFiles) = StreamsBefore(NumFolders)
  BY <1>1, FileCounts, Befores DEF HeaderInv, CountOK
<1>4. Nth(numFiles) = StreamsBefore(folderIndex) + Taken
  BY DEF HeaderInv, CountOK
<1>5. /\ folderIndex \in 0 .. NumFolders /\ folderIndex + 1 \in 0 .. NumFolders
      /\ folderIndex + 1 <= NumFolders /\ NumFolders \in 0 .. NumFolders
  BY <1>1, <1>2
<1>6. /\ StreamsBefore(folderIndex + 1) = StreamsBefore(folderIndex) + numSubStreams
      /\ StreamsBefore(folderIndex + 1) <= StreamsBefore(NumFolders)
      /\ StreamsBefore(folderIndex) \in Nat /\ StreamsBefore(NumFolders) \in Nat
  BY <1>1, <1>2, <1>5, Befores
<1>7. Taken \in Int /\ Taken < numSubStreams
  BY <1>2
<1> QED BY <1>2, <1>3, <1>4, <1>6, <1>7

(* Only a header that contradicts itself is refused. *)
LEMMA Refuses ==
  ASSUME IInv, HeaderInv, Spaced, ~ SkipsData, Next, pc # "done", res' = "ARCHIVE"
  PROVE  ~ Consistent
<1> SUFFICES ASSUME Consistent PROVE FALSE
  OBVIOUS
<1>1. FoldersOK /\ CountsAgree /\ HdrTyped
  BY CountsThere DEF Spaced, SpaceOK, HeaderInv
<1>2. /\ HdrOK /\ TableOK /\ LoopOK /\ res # "ARCHIVE" /\ NumFolders \in Nat /\ folderIndex \in Nat
      /\ folderIndex \in 0 .. NumFolders
  BY DEF IInv, LoopOK, HdrOK, TableOK
<1>3. CASE CheckCounts
  <2>1. numFiles - Cardinality(hdr.empty) # NumTotalSubStreams(hdr)
    BY <1>2, <1>3 DEF CheckCounts, Goto
  <2> QED BY <1>1, <2>1, FileCounts DEF Consistent
<1>4. CASE StartFile
  BY <1>2, <1>4 DEF StartFile, Goto
<1>5. CASE OpenFolder
  <2>1. pc = "folder" /\ folderIndex < NumFolders /\ ~ NumsMissing /\ remSubStreams = 0
    BY <1>1, <1>2, <1>5 DEF OpenFolder, CountsAgree, LoopOK
  <2>2. NextNum = 0 /\ Plus64(unpackPos, FolderUnpackSize) < FolderUnpackSize
    <3>1. ~ (folderIndex >= NumFolders)
      BY <1>2, <2>1
    <3> QED BY <1>2, <1>5, <2>1, <3>1 DEF OpenFolder, Goto
  <2>3. folderIndex \in 0 .. NumFolders - 1 /\ NumStreams(folderIndex) = 0
    BY <2>1, <2>2, NextNumIs
  <2>4. FolderUnpackSize = 0
    BY <1>1, <2>3, PassedOver DEF FolderUnpackSize
  <2>5. Plus64(unpackPos, 0) \in Nat
    BY <1>2, FileTableAssumption DEF TableOK, Position, Plus64
  <2> QED BY <2>2, <2>4, <2>5
<1>6. CASE TakeSubStream
  <2>1. pc = "substream" /\ ~ SubStreamFits
    BY <1>2, <1>6 DEF TakeSubStream, Goto
  <2> QED BY <1>1, <2>1, ConsistentFits
<1>7. CASE EndFiles
  <2>1. remSubStreams # 0 /\ pc = "file" /\ i = numFiles
    BY <1>2, <1>7 DEF EndFiles, Goto
  <2> QED BY <2>1, EndsWithFolder
<1>8. CASE RestOfFolders
  <2>1. pc = "rest" /\ remSubStreams = 0
    BY <1>2, <1>8 DEF RestOfFolders, LoopOK
  <2>2. CASE folderIndex >= NumFolders
    <3>1. sdNumSubStreams # << >>
      BY <1>2, <1>8, <2>2 DEF RestOfFolders, Return
    <3>2. folderIndex = NumFolders /\ Opened = folderIndex
      BY <1>2, <2>1, <2>2 DEF Opened
    <3>3. Len(sdNumSubStreams) = 0
      BY <1>2, <3>2 DEF HeaderInv, ReadOK
    <3> QED BY <1>2, <3>1, <3>3 DEF TableOK
  <2>3. CASE folderIndex < NumFolders
    <3>1. hdr.hasNums /\ NextNum = 0 /\ ~ NumsMissing
      BY <1>1, <2>1, <2>3, NextNumIs DEF CountsAgree
    <3>2. ~ (folderIndex >= NumFolders)
      BY <1>2, <2>3
    <3> QED BY <1>2, <1>8, <3>1, <3>2 DEF RestOfFolders, Goto
  <2>4. folderIndex >= NumFolders \/ folderIndex < NumFolders
    BY <1>2
  <2> QED BY <2>2, <2>3, <2>4
<1> QED BY <1>3, <1>4, <1>5, <1>6, <1>7, <1>8 DEF Next, Done

(* And one that does is not accepted. *)
LEMMA Accepts ==
  ASSUME IInv, HeaderInv, Spaced, ~ SkipsData, Next, pc # "done", res' = "OK"
  PROVE  Consistent
<1>1. FoldersOK /\ HdrTyped /\ NumFolders \in Nat /\ SizeMod \in Nat
  BY FileTableAssumption DEF Spaced, SpaceOK, HeaderInv, HdrTyped
<1>2. res # "OK"
  BY DEF IInv, LoopOK
<1>3. RestOfFolders /\ folderIndex >= NumFolders
  BY <1>2 DEF Next, Done, CheckCounts, Fail, StartFile, OpenFolder, TakeSubStream, EndFiles,
              RestOfFolders, Goto, Return
<1>4. pc = "rest" /\ remSubStreams = 0 /\ folderIndex = NumFolders /\ Taken = 0
      /\ unpackPos \in Position
  BY <1>1, <1>3 DEF RestOfFolders, IInv, LoopOK, TableOK, Taken
<1>5. Cardinality(DataFiles) = NumTotalSubStreams(hdr)
  BY <1>4 DEF HeaderInv, CountOK
<1>6. Len(hdr.sizes) = NumSizesInData(hdr)
  <2>1. Len(sdSizes) = Len(hdr.sizes) - SizesBefore(NumFolders) - 0
    BY <1>4 DEF HeaderInv, ReadOK
  <2>2. Len(sdSizes) \in Nat /\ Len(hdr.sizes) \in Nat /\ Len(hdr.sizes) \in {0, NumSizesInData(hdr)}
    BY <1>1 DEF IInv, TableOK, HdrTyped
  <2>3. NumSizesInData(hdr) = SizesBefore(NumFolders) /\ SizesBefore(NumFolders) \in Nat
    BY <1>1, SizesBefores
  <2> QED BY <2>1, <2>2, <2>3
<1>7. ASSUME NEW f \in Folders
      PROVE  SumOfSizes(f, NumSizes(f)) <= hdr.folderSize[f]
  BY <1>1, <1>4 DEF FoldersOK, Folders, Range0
<1>8. SumFunctionOnSet(hdr.folderSize, Folders) < SizeMod
  <2>1. SpaceBefore(NumFolders) = unpackPos
    BY <1>1, <1>4 DEF FoldersOK
  <2> QED BY <1>1, <1>4, <2>1 DEF SpaceBefore, Folders, Position
<1> QED BY <1>5, <1>6, <1>7, <1>8 DEF Consistent, NumSizes, NumStreams

(* In an accepted table the slices are the substreams. *)
LEMMA AcceptedSlices ==
  ASSUME IInv, HeaderInv, Placed, Spaced, RestOfFolders, res' = "OK"
  PROVE  SlicesRight'
<1>1. HdrTyped /\ NumFolders \in Nat /\ PlaceOK /\ numFiles \in Nat /\ Position \subseteq Nat
  BY FileTableAssumption DEF RestOfFolders, Placed, HeaderInv, HdrTyped, Position
<1>2. /\ pc = "rest" /\ remSubStreams = 0 /\ i = numFiles /\ folderIndex \in 0 .. NumFolders
      /\ \A k \in 0 .. i - 1 : SliceOK(k)
      /\ res # "OK"
  BY DEF RestOfFolders, IInv, LoopOK, TableOK
<1>3. /\ UnpackPositions \in [0 .. numFiles -> Position]
      /\ FolderToFile \in [0 .. NumFolders -> 0 .. numFiles]
  BY DEF IInv, TableOK
<1>4. folderIndex = NumFolders
  BY <1>1, <1>2 DEF RestOfFolders, Goto, Return
<1>5. /\ UNCHANGED <<hdr, UnpackPositions, FileToFolder, i>>
      /\ FolderToFile' = [FolderToFile EXCEPT ![folderIndex] = i]
  BY DEF RestOfFolders
<1>6. /\ numFiles' = numFiles /\ NumFolders' = NumFolders /\ Files' = Files
      /\ DataFiles' = DataFiles /\ SkipsData' = SkipsData
      /\ \A k : /\ FolderOf(k)' = FolderOf(k) /\ SubStreamOffset(k)' = SubStreamOffset(k)
                /\ SubStreamSize(k)' = SubStreamSize(k)
  BY <1>5, HdrStays
<1>7. \A k \in Files : k \in 0 .. i - 1 /\ k \in 0 .. numFiles /\ k + 1 \in 0 .. numFiles
  BY <1>1, <1>2 DEF Files, Range0
<1>8. ASSUME NEW k \in Files
      PROVE  /\ End(k) = UnpackPositions[k + 1] /\ Size(k)' = Minus64(End(k), UnpackPositions[k])
             /\ End(k) \in Position /\ UnpackPositions[k] \in Position
  BY <1>2, <1>3, <1>5, <1>7 DEF End, Stored, Size
<1>9. ASSUME NEW k \in hdr.empty PROVE Size(k)' = 0
  <2>1. k \in Files /\ End(k) = UnpackPositions[k]
    BY <1>1, <1>7 DEF HdrTyped, PlaceOK
  <2>2. UnpackPositions[k] \in Position /\ UnpackPositions[k] \in Nat
        /\ Size(k)' = Minus64(UnpackPositions[k], UnpackPositions[k])
    BY <1>1, <1>8, <2>1
  <2>3. Minus64(UnpackPositions[k], UnpackPositions[k]) = UnpackPositions[k] - UnpackPositions[k]
    BY <2>2, Minus64Fits
  <2> QED BY <2>2, <2>3
<1>10. FolderToFile'[NumFolders] = numFiles
  BY <1>1, <1>2, <1>3, <1>4, <1>5
<1>11. ASSUME ~ SkipsData, NEW k \in DataFiles
       PROVE  /\ FileToFolder'[k] = FolderOf(k)'
              /\ Offset(k)' = SubStreamOffset(k)' /\ Size(k)' = SubStreamSize(k)'
  <2>1. k \in Files /\ k \in 0 .. i - 1
    BY <1>7 DEF DataFiles
  <2>2. FileToFolder[k] = FolderOf(k) /\ FolderOf(k) \in Folders
    BY <1>1, <1>11, <2>1 DEF PlaceOK
  <2>3. InFolder(k)
    BY <1>1, <2>2 DEF InFolder, NoFolder, Folders, Range0
  <2> DEFINE f == FolderOf(k)
             S == Start(FolderOf(k))
  <2>4. /\ f \in 0 .. NumFolders - 1 /\ f # folderIndex
        /\ S <= UnpackPositions[k] /\ UnpackPositions[k] <= End(k)
    <3>1. FileToFolder[k] # folderIndex
      BY <1>2, <2>1, <2>3 DEF SliceOK
    <3> QED BY <1>2, <2>1, <2>2, <2>3, <3>1 DEF SliceOK
  <2>5. S \in Position
    <3>1. FolderToFile[FolderOf(k)] \in 0 .. numFiles
      BY <1>1, <1>3, <2>4
    <3> QED BY <1>3, <3>1 DEF Start
  <2>6. /\ SubStreamOffset(k) = UnpackPositions[k] - S
        /\ SubStreamSize(k) = End(k) - UnpackPositions[k]
    BY <1>2, <1>11, <2>1 DEF Spaced, SpaceOK, FilesOK
  <2>7. Offset(k)' = Minus64(UnpackPositions[k], S)
    <3>1. FolderToFile'[FolderOf(k)] = FolderToFile[FolderOf(k)]
      BY <1>1, <1>3, <1>5, <2>4
    <3> QED BY <1>5, <2>2, <3>1 DEF Offset, Start
  <2>8. /\ UnpackPositions[k] \in Position /\ End(k) \in Position
        /\ Size(k)' = Minus64(End(k), UnpackPositions[k])
    BY <1>8, <2>1
  <2>9. /\ Offset(k)' = UnpackPositions[k] - S /\ Size(k)' = End(k) - UnpackPositions[k]
    BY <2>4, <2>5, <2>7, <2>8, Minus64Fits
  <2> HIDE DEF S, f
  <2> QED BY <1>5, <1>6, <2>2, <2>6, <2>9
<1> QED BY <1>5, <1>6, <1>9, <1>10, <1>11 DEF SlicesRight, SlicesAreSubStreams, SliceIsSubStream

RefInv == IInv /\ HeaderInv /\ Placed /\ Spaced /\ SlicesRight /\ AcceptsConsistent

(* Before the first file there is nothing to compare. *)
LEMMA InitRef == Init => RefInv
<1> SUFFICES ASSUME Init PROVE RefInv
  OBVIOUS
<1>1. pc = "counts" /\ res = "none"
  BY DEF Init
<1> QED BY <1>1, InitInv, InitHeader, InitPlaced DEF RefInv, SlicesRight, AcceptsConsistent

(* Every step keeps the table so far that of the reference. *)
LEMMA RefNext == RefInv /\ [Next]_vars => RefInv'
<1> SUFFICES ASSUME RefInv, [Next]_vars PROVE RefInv'
  OBVIOUS
<1>1. /\ IInv /\ HeaderInv /\ Placed /\ Spaced /\ SlicesRight /\ AcceptsConsistent
      /\ IInv' /\ HeaderInv' /\ Placed' /\ Spaced'
  BY NextInv, HeaderNext, PlacedNext, SpacedNext DEF RefInv
<1>2. CASE UNCHANGED <<vars, positions>>
  <2>1. UNCHANGED <<hdr, UnpackPositions, FolderToFile, FileToFolder, pc, res>>
    BY <1>2 DEF vars, positions
  <2>2. /\ numFiles' = numFiles /\ NumFolders' = NumFolders /\ DataFiles' = DataFiles
        /\ SkipsData' = SkipsData /\ Consistent' = Consistent
        /\ \A k : /\ FolderOf(k)' = FolderOf(k) /\ SubStreamOffset(k)' = SubStreamOffset(k)
                  /\ SubStreamSize(k)' = SubStreamSize(k)
    BY <2>1, HdrStays, ConsistentStays
  <2>3. \A k : /\ InFolder(k)' = InFolder(k) /\ Offset(k)' = Offset(k) /\ Size(k)' = Size(k)
    BY <2>1 DEF InFolder, Offset, Size
  <2>4. \A k : SliceIsSubStream(k)' = SliceIsSubStream(k)
    BY <2>1, <2>2, <2>3 DEF SliceIsSubStream
  <2>5. SlicesAreSubStreams' = SlicesAreSubStreams
    BY <2>1, <2>2, <2>4 DEF SlicesAreSubStreams
  <2>6. SlicesRight' = SlicesRight
    BY <2>1, <2>2, <2>3, <2>5 DEF SlicesRight
  <2>7. AcceptsConsistent' = AcceptsConsistent
    BY <2>1, <2>2 DEF AcceptsConsistent
  <2> QED BY <1>1, <2>6, <2>7 DEF RefInv
<1>3. CASE Next /\ pc # "done"
  <2>1. hdr' = hdr /\ res # "OK"
    BY <1>1, <1>3 DEF Next, Done, CheckCounts, Fail, StartFile, OpenFolder, TakeSubStream,
                      EndFiles, RestOfFolders, IInv, LoopOK
  <2>2. SkipsData' = SkipsData /\ Consistent' = Consistent
    BY <2>1, HdrStays, ConsistentStays
  <2>3. /\ pc' = "done" => res' \in {"OK", "ARCHIVE"}
        /\ res' = "OK" => RestOfFolders
    BY <1>3, <2>1 DEF Next, Done, CheckCounts, Fail, StartFile, OpenFolder, TakeSubStream,
                      EndFiles, RestOfFolders, Goto, Return
  <2>4. SlicesRight'
    <3>1. CASE res' = "OK"
      BY <1>1, <2>3, <3>1, AcceptedSlices
    <3>2. CASE res' # "OK"
      BY <3>2 DEF SlicesRight
    <3> QED BY <3>1, <3>2
  <2>5. AcceptsConsistent'
    <3>1. SUFFICES ASSUME pc' = "done", ~ SkipsData PROVE (res' = "OK") <=> Consistent
      BY <2>2 DEF AcceptsConsistent
    <3>2. CASE res' = "OK"
      BY <1>1, <1>3, <3>1, <3>2, Accepts
    <3>3. CASE res' = "ARCHIVE"
      BY <1>1, <1>3, <3>1, <3>3, Refuses
    <3> QED BY <2>3, <3>1, <3>2, <3>3
  <2> QED BY <1>1, <2>4, <2>5 DEF RefInv
<1>4. ASSUME Next, pc = "done" PROVE UNCHANGED vars
  BY <1>4 DEF Next, Done, CheckCounts, StartFile, OpenFolder, TakeSubStream, EndFiles, RestOfFolders
<1>5. UNCHANGED vars => UNCHANGED <<vars, positions>>
  BY DEF vars
<1> QED BY <1>2, <1>3, <1>4, <1>5

(* What SzArEx_Extract cuts out for a file (7zArcIn.c:1664-1671) is the    *)
(* file's own substream of its own folder, in every accepted header that   *)
(* passes over no data; a file without data is empty, and FolderToFile     *)
(* ends with the number of files.                                          *)
THEOREM SlicesCorrect == Spec => []SlicesRight
<1>1. RefInv => SlicesRight
  BY DEF RefInv
<1> QED BY InitRef, RefNext, <1>1, PTL DEF Spec

(* SzReadHeader2 accepts a header that passes over no data exactly when it *)
(* agrees with itself: its counts, the sizes of the substreams of a folder *)
(* and the room of the whole archive in UInt64 positions.                  *)
THEOREM AcceptedExactly == Spec => []AcceptsConsistent
<1>1. RefInv => AcceptsConsistent
  BY DEF RefInv
<1> QED BY InitRef, RefNext, <1>1, PTL DEF Spec

-----------------------------------------------------------------------------
(* The byte of a file's bit is one of the array's. *)
LEMMA ByteIn ==
  ASSUME NEW m \in Nat \ {0}, NEW n \in Nat, NEW x \in 0 .. n - 1
  PROVE  x \div m \in 0 .. ((n + m - 1) \div m) - 1
<1>1. x \in Nat /\ n + m - 1 \in Nat
  OBVIOUS
<1>2. PICK d \in Nat, s \in 0 .. m - 1 : d = x \div m /\ x = m * d + s
  BY <1>1, DivMod
<1>3. PICK e \in Nat, t \in 0 .. m - 1 : e = (n + m - 1) \div m /\ n + m - 1 = m * e + t
  BY <1>1, DivMod
<1>4. m * d \in Nat /\ m * e \in Nat
  OBVIOUS
<1>5. d < e
  <2> SUFFICES ASSUME ~ (d < e) PROVE FALSE
    OBVIOUS
  <2>1. m * e <= m * d
    <3>1. CASE e < d
      <4>1. m * e + m <= m * d
        BY <3>1, MulGap
      <4> QED BY <1>4, <4>1
    <3>2. CASE e = d
      BY <1>4, <3>2
    <3> QED BY <3>1, <3>2
  <2> QED BY <1>2, <1>3, <1>4, <2>1
<1> QED BY <1>2, <1>3, <1>5

-----------------------------------------------------------------------------
(* What the bits of file k should be.                                      *)
DirRight(k, set) ==
  set <=> /\ k \in hdr.empty
          /\ Cardinality({l \in hdr.empty : l < k}) \notin hdr.emptyFiles
CrcRight(k, set) == set <=> CrcOf(k) # NoCrc

(* The bits of the first n files are right: in the bytes stored, and in    *)
(* the masks, which hold those of the last m files and nothing else.       *)
BitsRight(dirs, crcs, dmask, cmask, n, m) ==
  /\ m \in 0 .. n
  /\ \E q \in Nat : n - m = MaskBits * q
  /\ \A k \in 0 .. n - m - 1 : DirRight(k, BitSet(dirs, k)) /\ CrcRight(k, BitSet(crcs, k))
  /\ \A k \in n - m .. n - 1 :
        DirRight(k, k - (n - m) \in dmask) /\ CrcRight(k, k - (n - m) \in cmask)
  /\ dmask \cup cmask \subseteq 0 .. m - 1

BitsOK == BitsRight(IsDirs, CrcDefs, isDirMask, crcMask, i, mask)

ValsOK ==
  /\ \A k \in 0 .. i - 1 : CrcVals[k] = CrcOf(k)
  /\ pc \in {"folder", "substream"} => CrcVals[i] = NoCrc
  /\ hdr.hasDigests => DigestOf(i) = digestIndex

AllRight ==
  \A k \in Files : /\ DirRight(k, BitSet(IsDirs, k)) /\ CrcRight(k, BitSet(CrcDefs, k))
                   /\ CrcVals[k] = CrcOf(k)

FlagsInv ==
  /\ pc \in {"counts", "file", "folder", "substream"} => BitsOK /\ ValsOK
  /\ pc = "rest" \/ res = "OK" => AllRight

(* The property, with the bits named. *)
LEMMA FlagsAre == AllRight => FlagsRight
BY DEF AllRight, FlagsRight, DirRight, CrcRight

(* The header keeps the CRCs it means. *)
LEMMA FlagsStay ==
  ASSUME hdr' = hdr
  PROVE  /\ Files' = Files
         /\ \A k : CrcOf(k)' = CrcOf(k) /\ DigestOf(k)' = DigestOf(k)
                   /\ OwnFolderCrc(k)' = OwnFolderCrc(k)
<1>1. /\ Files' = Files /\ DataFiles' = DataFiles
      /\ \A k : FolderOf(k)' = FolderOf(k)
  BY HdrStays
<1>2. \A k : OwnFolderCrc(k)' = OwnFolderCrc(k)
  BY <1>1 DEF OwnFolderCrc
<1>3. \A k : DigestOf(k)' = DigestOf(k)
  BY <1>1, <1>2 DEF DigestOf
<1>4. \A k : CrcOf(k)' = CrcOf(k)
  BY <1>1, <1>2, <1>3 DEF CrcOf
<1> QED BY <1>1, <1>2, <1>3, <1>4

(* The same of the next state, whose header is the same. *)
LEMMA BitsNext ==
  ASSUME hdr' = hdr
  PROVE  BitsOK' <=> BitsRight(IsDirs', CrcDefs', isDirMask', crcMask', i', mask')
<1>1. \A k : CrcOf(k)' = CrcOf(k)
  BY FlagsStay
<1> QED BY <1>1 DEF BitsOK, BitsRight, DirRight, CrcRight, BitSet

(* Storing the mask of the last n files puts their bits where they belong. *)
LEMMA ByteStored ==
  ASSUME HdrTyped, NEW array \in [Bytes(hdr) -> SUBSET Range0(MaskBits)], NEW set,
         NEW q \in Nat, NEW n \in 1 .. MaskBits, NEW x \in 0 .. numFiles, x - n = MaskBits * q
  PROVE  /\ \A k \in 0 .. x - n - 1 :
              BitSet([array EXCEPT ![(x - 1) \div MaskBits] = set], k) <=> BitSet(array, k)
         /\ \A k \in x - n .. x - 1 :
              BitSet([array EXCEPT ![(x - 1) \div MaskBits] = set], k) <=> k - (x - n) \in set
<1>1. MaskBits \in Nat \ {0} /\ numFiles \in Nat
  BY FileTableAssumption DEF HdrTyped
<1>2. MaskBits * q \in Nat
  BY <1>1
<1>3. x \in Nat /\ x - n \in Nat /\ x - 1 \in 0 .. numFiles - 1 /\ n - 1 \in 0 .. MaskBits - 1
  BY <1>1, <1>2
<1>4. (x - 1) \div MaskBits = q
  <2>1. x - 1 = MaskBits * q + (n - 1)
    BY <1>1, <1>2, <1>3
  <2> QED BY <1>1, <1>3, <2>1, DivModIs
<1>5. q \in Bytes(hdr)
  <2>1. (x - 1) \div MaskBits \in 0 .. ((numFiles + MaskBits - 1) \div MaskBits) - 1
    BY <1>1, <1>3, ByteIn
  <2> QED BY <1>4, <2>1 DEF Bytes, Range0, numFiles
<1>6. ASSUME NEW k \in 0 .. x - n - 1
      PROVE  BitSet([array EXCEPT ![(x - 1) \div MaskBits] = set], k) <=> BitSet(array, k)
  <2>1. k \in Nat
    BY <1>3
  <2>2. PICK d \in Nat, s \in 0 .. MaskBits - 1 : d = k \div MaskBits /\ k = MaskBits * d + s
    BY <1>1, <2>1, DivMod
  <2>3. d # q
    BY <1>1, <1>2, <1>3, <2>1, <2>2
  <2>4. d \in Bytes(hdr)
    <3>1. k \in 0 .. numFiles - 1
      BY <1>1, <1>3
    <3>2. k \div MaskBits \in 0 .. ((numFiles + MaskBits - 1) \div MaskBits) - 1
      BY <1>1, <3>1, ByteIn
    <3> QED BY <2>2, <3>2 DEF Bytes, Range0, numFiles
  <2>5. [array EXCEPT ![q] = set][d] = array[d]
    BY <2>3, <2>4
  <2> QED BY <1>4, <2>2, <2>5 DEF BitSet
<1>7. ASSUME NEW k \in x - n .. x - 1
      PROVE  BitSet([array EXCEPT ![(x - 1) \div MaskBits] = set], k) <=> k - (x - n) \in set
  <2>1. k - (x - n) \in 0 .. MaskBits - 1 /\ k = MaskBits * q + (k - (x - n))
    BY <1>1, <1>2, <1>3
  <2>2. k \div MaskBits = q /\ k % MaskBits = k - (x - n)
    <3> DEFINE r == k - (x - n)
    <3>1. r \in 0 .. MaskBits - 1 /\ k = MaskBits * q + r
      BY <2>1
    <3> HIDE DEF r
    <3>2. k \div MaskBits = q /\ k % MaskBits = r
      BY <1>1, <3>1, DivModIs
    <3> QED BY <3>2 DEF r
  <2>3. [array EXCEPT ![q] = set][q] = set
    BY <1>5
  <2> QED BY <1>4, <2>2, <2>3 DEF BitSet
<1> QED BY <1>6, <1>7

(* So the bytes have the bits of all the files then. *)
LEMMA BitsStored ==
  ASSUME HdrTyped, NEW n \in 0 .. numFiles, NEW m \in 1 .. MaskBits, NEW dmask, NEW cmask,
         NEW dirs \in [Bytes(hdr) -> SUBSET Range0(MaskBits)],
         NEW crcs \in [Bytes(hdr) -> SUBSET Range0(MaskBits)],
         BitsRight(dirs, crcs, dmask, cmask, n, m)
  PROVE  \A k \in 0 .. n - 1 :
           /\ DirRight(k, BitSet([dirs EXCEPT ![(n - 1) \div MaskBits] = dmask], k))
           /\ CrcRight(k, BitSet([crcs EXCEPT ![(n - 1) \div MaskBits] = cmask], k))
<1>1. MaskBits \in Nat \ {0} /\ numFiles \in Nat
  BY FileTableAssumption DEF HdrTyped
<1>2. PICK q \in Nat : n - m = MaskBits * q
  BY DEF BitsRight
<1> DEFINE D == [dirs EXCEPT ![(n - 1) \div MaskBits] = dmask]
           C == [crcs EXCEPT ![(n - 1) \div MaskBits] = cmask]
<1>3. /\ \A k \in 0 .. n - m - 1 : BitSet(D, k) <=> BitSet(dirs, k)
      /\ \A k \in n - m .. n - 1 : BitSet(D, k) <=> k - (n - m) \in dmask
  BY <1>2, ByteStored
<1>4. /\ \A k \in 0 .. n - m - 1 : BitSet(C, k) <=> BitSet(crcs, k)
      /\ \A k \in n - m .. n - 1 : BitSet(C, k) <=> k - (n - m) \in cmask
  BY <1>2, ByteStored
<1> HIDE DEF D, C
<1>5. ASSUME NEW k \in 0 .. n - 1 PROVE DirRight(k, BitSet(D, k)) /\ CrcRight(k, BitSet(C, k))
  <2>1. CASE k \in 0 .. n - m - 1
    BY <1>3, <1>4, <2>1 DEF BitsRight, DirRight, CrcRight
  <2>2. CASE k \in n - m .. n - 1
    BY <1>3, <1>4, <2>2 DEF BitsRight, DirRight, CrcRight
  <2> QED BY <1>1, <2>1, <2>2
<1> QED BY <1>5 DEF D, C

(* The next file's bits are put into the masks. *)
LEMMA BitsAdd ==
  ASSUME NEW n \in Nat, NEW m \in Nat, NEW dirs, NEW crcs, NEW dmask, NEW cmask,
         BitsRight(dirs, crcs, dmask, cmask, n, m),
         NEW dnext, NEW cnext,
         dnext \in {dmask, dmask \cup {m}}, cnext \in {cmask, cmask \cup {m}},
         DirRight(n, m \in dnext), CrcRight(n, m \in cnext)
  PROVE  BitsRight(dirs, crcs, dnext, cnext, n + 1, m + 1)
<1>1. PICK q \in Nat : n - m = MaskBits * q
  BY DEF BitsRight
<1>2. (n + 1) - (m + 1) = n - m /\ m + 1 \in 0 .. n + 1
  BY DEF BitsRight
<1>3. \A b : b # m => (b \in dnext <=> b \in dmask) /\ (b \in cnext <=> b \in cmask)
  OBVIOUS
<1>4. ASSUME NEW k \in n - m .. n
      PROVE  DirRight(k, k - (n - m) \in dnext) /\ CrcRight(k, k - (n - m) \in cnext)
  <2>1. CASE k = n
    <3>1. k - (n - m) = m
      BY <2>1
    <3> QED BY <2>1, <3>1
  <2>2. CASE k \in n - m .. n - 1
    <3>1. k - (n - m) # m
      BY <2>2
    <3>2. (k - (n - m) \in dnext <=> k - (n - m) \in dmask)
          /\ (k - (n - m) \in cnext <=> k - (n - m) \in cmask)
      BY <1>3, <3>1
    <3>3. DirRight(k, k - (n - m) \in dmask) /\ CrcRight(k, k - (n - m) \in cmask)
      BY <2>2 DEF BitsRight
    <3> QED BY <3>2, <3>3 DEF DirRight, CrcRight
  <2>3. k = n \/ k \in n - m .. n - 1
    BY <1>2
  <2> QED BY <2>1, <2>2, <2>3
<1>5. dnext \cup cnext \subseteq 0 .. m
  <2>1. dmask \cup cmask \subseteq 0 .. m - 1 /\ m \in 0 .. m
    BY DEF BitsRight
  <2> QED BY <1>3, <2>1
<1>6. (n + 1) - 1 = n /\ (m + 1) - 1 = m
  OBVIOUS
<1> QED BY <1>1, <1>2, <1>4, <1>5, <1>6 DEF BitsRight

(* The digests before the next file. *)
LEMMA DigestNext ==
  ASSUME HdrTyped
  PROVE  /\ DigestOf(0) = 0
         /\ \A k \in Nat : DigestOf(k) \in Nat
         /\ \A k \in Nat : DigestOf(k + 1) =
              DigestOf(k) + IF k \in DataFiles /\ ~ OwnFolderCrc(k) THEN 1 ELSE 0
<1> DEFINE S == {l \in DataFiles : ~ OwnFolderCrc(l)}
<1>1. S \subseteq Nat /\ IsFiniteSet(S)
  <2>1. IsFiniteSet(DataFiles) /\ DataFiles \subseteq Nat
    BY FileCounts
  <2>2. S \subseteq DataFiles
    OBVIOUS
  <2> HIDE DEF S
  <2> QED BY <2>1, <2>2, FS_Subset
<1>2. \A k : DigestOf(k) = Cardinality({l \in S : l < k})
  <2> SUFFICES ASSUME NEW k PROVE DigestOf(k) = Cardinality({l \in S : l < k})
    OBVIOUS
  <2>1. {l \in DataFiles : l < k /\ ~ OwnFolderCrc(l)} = {l \in S : l < k}
    OBVIOUS
  <2> QED BY <2>1 DEF DigestOf
<1>3. \A k : k \in S <=> k \in DataFiles /\ ~ OwnFolderCrc(k)
  OBVIOUS
<1> HIDE DEF S
<1>4. /\ Cardinality({l \in S : l < 0}) = 0
      /\ \A k \in Nat : Cardinality({l \in S : l < k}) \in Nat
      /\ \A k \in Nat : Cardinality({l \in S : l < k + 1}) =
                        Cardinality({l \in S : l < k}) + IF k \in S THEN 1 ELSE 0
  BY <1>1, CountBelow
<1> QED BY <1>2, <1>3, <1>4

(* No file has bits yet. *)
LEMMA InitFlags == Init => FlagsInv
<1> SUFFICES ASSUME Init PROVE FlagsInv
  OBVIOUS
<1>1. /\ pc = "counts" /\ res = "none" /\ i = 0 /\ mask = 0 /\ isDirMask = {} /\ crcMask = {}
      /\ digestIndex = 0
  BY DEF Init
<1>2. BitsOK
  <2>1. 0 - 0 = MaskBits * 0 /\ 0 \in Nat
    BY FileTableAssumption
  <2> QED BY <1>1, <2>1 DEF BitsOK, BitsRight
<1>3. DigestOf(0) = 0
  BY InitHdr, DigestNext
<1>4. ValsOK
  BY <1>1, <1>3 DEF ValsOK
<1> QED BY <1>1, <1>2, <1>4 DEF FlagsInv

(* What a file without data has. *)
LEMMA EmptyFile ==
  ASSUME HdrTyped, NEW k \in hdr.empty
  PROVE  CrcOf(k) = NoCrc /\ k \notin DataFiles
BY DEF CrcOf, DataFiles

(* The full masks are stored, and a file without data sets its own bit. *)
LEMMA StartFileFlags ==
  ASSUME IInv, TypeOK, HeaderInv, FlagsInv, StartFile
  PROVE  FlagsInv'
<1>1. /\ pc = "file" /\ i < numFiles /\ hdr' = hdr /\ res' = res /\ FlushMasks
      /\ CrcVals' = [CrcVals EXCEPT ![i] = NoCrc] /\ digestIndex' = digestIndex
  BY DEF StartFile, Goto
<1>2. BitsRight(IsDirs, CrcDefs, isDirMask, crcMask, i, mask) /\ ValsOK /\ res # "OK"
  BY <1>1 DEF FlagsInv, BitsOK, IInv, LoopOK
<1>a. /\ HdrTyped /\ numFiles \in Nat /\ i \in 0 .. numFiles
      /\ MaskBits \in Nat \ {0} /\ mask \in 0 .. MaskBits
      /\ CrcVals \in [Files -> {"none", "folder", "digest"} \X Nat]
  BY FileTableAssumption DEF HeaderInv, HdrTyped, TypeOK
<1>b. i \in Nat /\ i \in Files
  BY <1>1, <1>a DEF Files, Range0
<1>c. emptyFileIndex = Cardinality({l \in hdr.empty : l < i})
  BY DEF HeaderInv, CountOK
<1>3. /\ HdrTyped /\ numFiles \in Nat /\ i \in Nat /\ i \in 0 .. numFiles /\ i \in Files
      /\ MaskBits \in Nat \ {0} /\ mask \in 0 .. MaskBits
      /\ CrcVals \in [Files -> {"none", "folder", "digest"} \X Nat]
      /\ emptyFileIndex = Cardinality({l \in hdr.empty : l < i})
  BY <1>a, <1>b, <1>c
<1>4. BitsRight(IsDirs', CrcDefs', DirMask, crcMask', i, MaskBit) /\ MaskBit \in Nat
  <2>1. CASE mask = MaskBits
    <3>1. /\ IsDirs' = [IsDirs EXCEPT ![(i - 1) \div MaskBits] = isDirMask]
          /\ CrcDefs' = [CrcDefs EXCEPT ![(i - 1) \div MaskBits] = crcMask]
          /\ crcMask' = {} /\ DirMask = {} /\ MaskBit = 0
      BY <1>1, <2>1 DEF FlushMasks, StoredDirs, StoredCrcs, DirMask, MaskBit
    <3>2. mask \in 1 .. MaskBits
      BY <1>3, <2>1
    <3>3. \A k \in 0 .. i - 1 : DirRight(k, BitSet(IsDirs', k)) /\ CrcRight(k, BitSet(CrcDefs', k))
      BY <1>2, <1>3, <3>1, <3>2, BitsStored DEF TypeOK
    <3>4. PICK q \in Nat : i - mask = MaskBits * q
      BY <1>2 DEF BitsRight
    <3>5. q + 1 \in Nat /\ i - 0 = MaskBits * (q + 1)
      <4>1. MaskBits * (q + 1) = MaskBits * q + MaskBits /\ MaskBits * q \in Nat
        BY <1>3
      <4> QED BY <1>3, <2>1, <3>4, <4>1
    <3>6. i - 0 - 1 = i - 1 /\ 0 \in 0 .. i /\ ~ \E k : k \in i - 0 .. i - 1
      BY <1>3
    <3> QED BY <3>1, <3>3, <3>5, <3>6 DEF BitsRight
  <2>2. CASE mask # MaskBits
    BY <1>1, <1>2, <1>3, <2>2 DEF FlushMasks, DirMask, MaskBit
  <2> QED BY <2>1, <2>2
<1>5. MaskBit \notin DirMask /\ MaskBit \notin crcMask'
  <2>1. DirMask \cup crcMask' \subseteq 0 .. MaskBit - 1
    BY <1>4 DEF BitsRight
  <2>2. MaskBit \notin 0 .. MaskBit - 1
    BY <1>4
  <2> QED BY <2>1, <2>2
<1>6. /\ CrcVals'[i] = NoCrc
      /\ \A k \in 0 .. i - 1 : CrcVals'[k] = CrcVals[k]
  BY <1>1, <1>3 DEF Files, Range0
<1>7. \A k : CrcOf(k)' = CrcOf(k) /\ DigestOf(k)' = DigestOf(k)
  BY <1>1, FlagsStay
<1>8. CASE i \in hdr.empty
  <2>1. /\ isDirMask' = IF emptyFileIndex \in hdr.emptyFiles THEN DirMask ELSE DirMask \cup {MaskBit}
        /\ i' = i + 1 /\ mask' = MaskBit + 1 /\ pc' = "file"
    BY <1>8 DEF StartFile, NextFile, Goto
  <2>2. CrcOf(i) = NoCrc /\ i \notin DataFiles
    BY <1>3, <1>8, EmptyFile
  <2>3. DirRight(i, MaskBit \in isDirMask')
    BY <1>3, <1>5, <1>8, <2>1 DEF DirRight
  <2>4. CrcRight(i, MaskBit \in crcMask')
    BY <1>5, <2>2 DEF CrcRight
  <2>5. BitsRight(IsDirs', CrcDefs', isDirMask', crcMask', i + 1, MaskBit + 1)
    BY <1>3, <1>4, <2>1, <2>3, <2>4, BitsAdd
  <2>6. BitsOK'
    BY <1>1, <2>1, <2>5, BitsNext
  <2>7. \A k \in 0 .. i' - 1 : CrcVals'[k] = CrcOf(k)'
    <3> SUFFICES ASSUME NEW k \in 0 .. i' - 1 PROVE CrcVals'[k] = CrcOf(k)'
      OBVIOUS
    <3>1. k \in 0 .. i - 1 \/ k = i
      BY <1>3, <2>1
    <3> QED BY <1>2, <1>6, <1>7, <2>2, <3>1 DEF ValsOK
  <2>8. hdr.hasDigests => DigestOf(i)' = digestIndex'
    <3> PICK n \in Nat : n = i
      BY <1>3
    <3>1. DigestOf(n + 1) = DigestOf(n)
      BY <1>3, <2>2, DigestNext
    <3>2. i' = n + 1 /\ DigestOf(n + 1)' = DigestOf(n + 1)
      BY <1>7, <2>1
    <3> QED BY <1>1, <1>2, <3>1, <3>2 DEF ValsOK
  <2>9. ValsOK'
    BY <1>1, <2>1, <2>7, <2>8 DEF ValsOK
  <2> QED BY <1>1, <1>2, <2>1, <2>6, <2>9 DEF FlagsInv
<1>9. CASE i \notin hdr.empty
  <2>1. /\ isDirMask' = DirMask /\ i' = i /\ mask' = MaskBit /\ pc' \in {"folder", "substream"}
    BY <1>9 DEF StartFile, Goto
  <2>2. BitsOK'
    BY <1>1, <1>4, <2>1, BitsNext
  <2>3. \A k \in 0 .. i' - 1 : CrcVals'[k] = CrcOf(k)'
    BY <1>2, <1>6, <1>7, <2>1 DEF ValsOK
  <2>4. hdr.hasDigests => DigestOf(i)' = digestIndex'
    <3> PICK n \in Nat : n = i
      BY <1>3
    <3>1. i' = n /\ DigestOf(n)' = DigestOf(n)
      BY <1>7, <2>1
    <3> QED BY <1>1, <1>2, <3>1 DEF ValsOK
  <2>5. ValsOK'
    BY <1>1, <1>6, <2>1, <2>3, <2>4 DEF ValsOK
  <2> QED BY <1>1, <1>2, <2>1, <2>2, <2>5 DEF FlagsInv
<1> QED BY <1>8, <1>9

(* A file takes a substream: the folder's CRC, the next digest or none.    *)
LEMMA TakeSubStreamFlags ==
  ASSUME IInv, TypeOK, MaskOK, HeaderInv, FlagsInv, TakeSubStream, ~ Fail
  PROVE  FlagsInv'
<1>1. /\ pc = "substream" /\ pc' = "file" /\ hdr' = hdr /\ res' = res /\ i' = i + 1
      /\ mask' = mask + 1 /\ SetCrc
      /\ IsDirs' = IsDirs /\ CrcDefs' = CrcDefs /\ isDirMask' = isDirMask
  BY DEF TakeSubStream, NextFile, Goto
<1>2. /\ BitsRight(IsDirs, CrcDefs, isDirMask, crcMask, i, mask) /\ ValsOK
      /\ res # "OK" /\ remSubStreams # 0
  BY <1>1 DEF FlagsInv, BitsOK, IInv, LoopOK
<1>a. /\ HdrTyped /\ numFiles \in Nat /\ i \in Nat /\ mask \in Nat
      /\ CrcVals \in [Files -> {"none", "folder", "digest"} \X Nat]
  BY DEF HeaderInv, HdrTyped, TypeOK
<1>b. i \in DataFiles /\ i \in Files /\ i \notin hdr.empty
  BY <1>1 DEF HeaderInv, CountOK, DataFiles
<1>c. i \in 0 .. numFiles - 1
  BY <1>b DEF Files, Range0
<1>d. digestsVals = Cardinality({d \in hdr.digests : d < digestIndex})
  BY DEF HeaderInv, CountOK
<1>3. /\ HdrTyped /\ numFiles \in Nat /\ i \in Nat /\ i \in 0 .. numFiles - 1 /\ i \in Files
      /\ mask \in Nat /\ i \in DataFiles /\ i \notin hdr.empty
      /\ CrcVals \in [Files -> {"none", "folder", "digest"} \X Nat]
      /\ digestsVals = Cardinality({d \in hdr.digests : d < digestIndex})
  BY <1>a, <1>b, <1>c, <1>d
<1>4. OwnFolderCrc(i) <=> FolderCrcIsFiles
  <2>1. FolderOf(i) = folderIndex /\ remSubStreams \in Nat /\ folderIndex \in 0 .. NumFolders
    BY <1>2, OpenIsOwn DEF TypeOK
  <2>2. FolderCrcIsFiles <=> NumStreams(folderIndex) = 1 /\ folderIndex \in hdr.folderCrcs
    BY <1>2, <2>1, DigestSteps
  <2> QED BY <2>1, <2>2 DEF OwnFolderCrc, NumStreams
<1>5. /\ FolderOf(i) = folderIndex
      /\ hdr.hasDigests => DigestOf(i) = digestIndex
      /\ CrcVals[i] = NoCrc
  BY <1>1, <1>2, OpenIsOwn DEF ValsOK
<1>6. mask \notin isDirMask /\ mask \notin crcMask
  <2>1. isDirMask \cup crcMask \subseteq 0 .. mask - 1
    BY <1>2 DEF BitsRight
  <2>2. mask \notin 0 .. mask - 1
    BY <1>3
  <2> QED BY <2>1, <2>2
<1>7. /\ CrcVals' \in {CrcVals, [CrcVals EXCEPT ![i] = CrcOf(i)]}
      /\ CrcVals'[i] = CrcOf(i)
      /\ crcMask' = IF CrcOf(i) # NoCrc THEN crcMask \cup {mask} ELSE crcMask
      /\ digestIndex' = IF hdr.hasDigests /\ ~ OwnFolderCrc(i) THEN digestIndex + 1 ELSE digestIndex
  <2>1. <<"folder", folderIndex>> # NoCrc /\ <<"digest", digestsVals>> # NoCrc
    BY DEF NoCrc
  <2>2. CASE FolderCrcIsFiles
    <3>1. CrcOf(i) = <<"folder", folderIndex>>
      BY <1>3, <1>4, <1>5, <2>2 DEF CrcOf
    <3>2. /\ CrcVals' = [CrcVals EXCEPT ![i] = <<"folder", folderIndex>>]
          /\ crcMask' = crcMask \cup {mask} /\ digestIndex' = digestIndex
      BY <1>1, <2>2 DEF SetCrc
    <3> QED BY <1>3, <1>4, <2>1, <2>2, <3>1, <3>2
  <2>3. CASE ~ FolderCrcIsFiles /\ hdr.hasDigests /\ digestIndex \in hdr.digests
    <3>1. CrcOf(i) = <<"digest", digestsVals>>
      BY <1>3, <1>4, <1>5, <2>3 DEF CrcOf
    <3>2. /\ CrcVals' = [CrcVals EXCEPT ![i] = <<"digest", digestsVals>>]
          /\ crcMask' = crcMask \cup {mask} /\ digestIndex' = digestIndex + 1
      BY <1>1, <2>3 DEF SetCrc
    <3> QED BY <1>3, <1>4, <2>1, <2>3, <3>1, <3>2
  <2>4. CASE ~ FolderCrcIsFiles /\ ~ (hdr.hasDigests /\ digestIndex \in hdr.digests)
    <3>1. CrcOf(i) = NoCrc
      BY <1>3, <1>4, <1>5, <2>4 DEF CrcOf
    <3>2. /\ CrcVals' = CrcVals /\ crcMask' = crcMask
          /\ digestIndex' = IF hdr.hasDigests THEN digestIndex + 1 ELSE digestIndex
      BY <1>1, <2>4 DEF SetCrc
    <3> QED BY <1>4, <1>5, <2>4, <3>1, <3>2
  <2> QED BY <2>2, <2>3, <2>4
<1>8. \A k : CrcOf(k)' = CrcOf(k) /\ DigestOf(k)' = DigestOf(k)
  BY <1>1, FlagsStay
<1>9. BitsOK'
  <2>1. DirRight(i, mask \in isDirMask')
    BY <1>1, <1>3, <1>6 DEF DirRight
  <2>2. CrcRight(i, mask \in crcMask')
    BY <1>6, <1>7 DEF CrcRight
  <2>3. BitsRight(IsDirs', CrcDefs', isDirMask', crcMask', i + 1, mask + 1)
    BY <1>1, <1>2, <1>3, <1>7, <2>1, <2>2, BitsAdd
  <2> QED BY <1>1, <2>3, BitsNext
<1>10. \A k \in 0 .. i' - 1 : CrcVals'[k] = CrcOf(k)'
  <2> SUFFICES ASSUME NEW k \in 0 .. i' - 1 PROVE CrcVals'[k] = CrcOf(k)'
    OBVIOUS
  <2>1. CASE k \in 0 .. i - 1
    <3>1. CrcVals'[k] = CrcVals[k]
      BY <1>3, <1>7, <2>1 DEF Files, Range0
    <3> QED BY <1>2, <1>8, <2>1, <3>1 DEF ValsOK
  <2>2. CASE k = i
    BY <1>7, <1>8, <2>2
  <2> QED BY <1>1, <1>3, <2>1, <2>2
<1>11. hdr.hasDigests => DigestOf(i)' = digestIndex'
  <2> PICK n \in Nat : n = i
    BY <1>3
  <2>1. DigestOf(n + 1) = DigestOf(n) + (IF ~ OwnFolderCrc(n) THEN 1 ELSE 0) /\ DigestOf(n) \in Nat
    BY <1>3, DigestNext
  <2>2. i' = n + 1 /\ DigestOf(n + 1)' = DigestOf(n + 1)
    BY <1>1, <1>8
  <2> QED BY <1>5, <1>7, <2>1, <2>2
<1>12. ValsOK'
  BY <1>1, <1>10, <1>11 DEF ValsOK
<1> QED BY <1>1, <1>2, <1>9, <1>12 DEF FlagsInv

(* After the last file the masks are stored, unless they are empty. *)
LEMMA EndFilesFlags ==
  ASSUME IInv, TypeOK, HeaderInv, FlagsInv, EndFiles
  PROVE  FlagsInv'
<1>1. /\ pc = "file" /\ i = numFiles /\ hdr' = hdr /\ CrcVals' = CrcVals
      /\ pc' \in {"rest", "done"} /\ res' # "OK"
  BY DEF EndFiles, Goto, Return, IInv, LoopOK
<1>2. BitsRight(IsDirs, CrcDefs, isDirMask, crcMask, i, mask) /\ ValsOK
  BY <1>1 DEF FlagsInv, BitsOK
<1>3. HdrTyped /\ numFiles \in Nat /\ i \in 0 .. numFiles /\ mask \in 0 .. MaskBits
  BY <1>1 DEF HeaderInv, HdrTyped, TypeOK
<1>4. \A k \in 0 .. i - 1 : DirRight(k, BitSet(IsDirs', k)) /\ CrcRight(k, BitSet(CrcDefs', k))
  <2>1. CASE mask # 0
    <3>1. /\ IsDirs' = [IsDirs EXCEPT ![(i - 1) \div MaskBits] = isDirMask]
          /\ CrcDefs' = [CrcDefs EXCEPT ![(i - 1) \div MaskBits] = crcMask]
      BY <2>1 DEF EndFiles, StoredDirs, StoredCrcs
    <3>2. mask \in 1 .. MaskBits
      BY <1>3, <2>1
    <3> QED BY <1>2, <1>3, <3>1, <3>2, BitsStored DEF TypeOK
  <2>2. CASE mask = 0
    <3>1. IsDirs' = IsDirs /\ CrcDefs' = CrcDefs
      BY <2>2 DEF EndFiles
    <3>2. i - mask - 1 = i - 1
      BY <1>3, <2>2
    <3> QED BY <1>2, <3>1, <3>2 DEF BitsRight
  <2> QED BY <2>1, <2>2
<1>5. \A k : CrcOf(k)' = CrcOf(k)
  BY <1>1, FlagsStay
<1>6. AllRight'
  <2>1. Files' = 0 .. i - 1
    BY <1>1, FlagsStay DEF Files, Range0
  <2>2. \A k \in 0 .. i - 1 : CrcVals'[k] = CrcOf(k)'
    BY <1>1, <1>2, <1>5 DEF ValsOK
  <2> QED BY <1>1, <1>4, <1>5, <2>1, <2>2 DEF AllRight, DirRight, CrcRight, BitSet
<1> QED BY <1>1, <1>6 DEF FlagsInv

(* The other steps leave the files' bits alone. *)
LEMMA FlagsKept ==
  ASSUME FlagsInv, UNCHANGED <<hdr, i, bits>>,
         \/ pc' \in {"folder", "substream"} /\ pc \in {"folder", "substream"} /\ res' # "OK"
         \/ pc' = "file" /\ pc \in {"counts", "file"} /\ res' # "OK"
         \/ pc' = "done" /\ res' # "OK"
         \/ pc = "rest" /\ pc' \in {"rest", "done"}
         \/ pc' = pc /\ res' = res
  PROVE  FlagsInv'
<1>1. /\ hdr' = hdr /\ i' = i /\ IsDirs' = IsDirs /\ CrcDefs' = CrcDefs /\ CrcVals' = CrcVals
      /\ digestIndex' = digestIndex /\ mask' = mask /\ isDirMask' = isDirMask /\ crcMask' = crcMask
  BY DEF bits
<1>2. \A k : CrcOf(k)' = CrcOf(k) /\ DigestOf(k)' = DigestOf(k)
  BY <1>1, FlagsStay
<1>3. BitsOK => BitsOK'
  BY <1>1, BitsNext DEF BitsOK
<1>4. ValsOK /\ (pc' \in {"folder", "substream"} => pc \in {"folder", "substream"}) => ValsOK'
  <2> PICK n : n = i
    OBVIOUS
  <2>1. DigestOf(n)' = DigestOf(n)
    BY <1>2
  <2> QED BY <1>1, <1>2, <2>1 DEF ValsOK
<1>5. AllRight => AllRight'
  <2>1. Files' = Files
    BY <1>1, FlagsStay
  <2> QED BY <1>1, <1>2, <2>1 DEF AllRight, DirRight, CrcRight, BitSet
<1> QED BY <1>3, <1>4, <1>5 DEF FlagsInv

(* Every step keeps the bits and the CRCs of the files so far. *)
LEMMA FlagsNext == IInv /\ TypeOK /\ MaskOK /\ HeaderInv /\ FlagsInv /\ [Next]_vars => FlagsInv'
<1> SUFFICES ASSUME IInv, TypeOK, MaskOK, HeaderInv, FlagsInv, [Next]_vars PROVE FlagsInv'
  OBVIOUS
<1>0. res # "OK" \/ pc = "done"
  BY DEF IInv, LoopOK
<1>1. CASE UNCHANGED vars \/ Done
  <2>1. UNCHANGED <<hdr, i, bits>> /\ pc' = pc /\ res' = res
    BY <1>1 DEF vars, Done
  <2> QED BY <2>1, FlagsKept
<1>2. CASE Fail
  <2>1. UNCHANGED <<hdr, i, bits>> /\ pc' = "done" /\ res' # "OK"
    BY <1>2 DEF Fail, Return
  <2> QED BY <2>1, FlagsKept
<1>3. CASE CheckCounts /\ ~ Fail
  <2>1. UNCHANGED <<hdr, i, bits>> /\ pc' = "file" /\ pc = "counts" /\ res' # "OK"
    BY <1>0, <1>3 DEF CheckCounts, Goto
  <2> QED BY <2>1, FlagsKept
<1>4. CASE OpenFolder /\ ~ Fail
  <2>1. /\ UNCHANGED <<hdr, i, bits>> /\ pc' \in {"folder", "substream"} /\ pc = "folder"
        /\ res' # "OK"
    BY <1>0, <1>4 DEF OpenFolder, Goto
  <2> QED BY <2>1, FlagsKept
<1>5. CASE RestOfFolders
  <2>1. UNCHANGED <<hdr, i, bits>> /\ pc' \in {"rest", "done"} /\ pc = "rest"
    BY <1>5 DEF RestOfFolders, Goto, Return
  <2> QED BY <2>1, FlagsKept
<1> QED BY <1>1, <1>2, <1>3, <1>4, <1>5, StartFileFlags, TakeSubStreamFlags, EndFilesFlags
        DEF Next

(* Every bit of an accepted table is its file's own, the garbage of the    *)
(* allocated bytes is overwritten, and the CRC of a file is the one the    *)
(* header means: of its folder, if that is the folder's only file, or else *)
(* the next of the digests (7zArcIn.c:1304-1331, 1374-1378, 1389-1406).    *)
THEOREM FlagsCorrect == Spec => []FlagsRight
<1>1. FlagsInv => FlagsRight
  BY FlagsAre DEF FlagsInv, FlagsRight
<1> QED BY InitInv, NextInv, InitType, TypeInv, InitHeader, HeaderNext, InitFlags, FlagsNext,
        <1>1, PTL DEF Spec
=============================================================================
