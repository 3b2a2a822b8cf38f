------------------------ MODULE WalletServicesProofs ------------------------
(* What holds of the services of a wallet for every ledger, every account  *)
(* and however often the chain moves on under a request.                   *)
EXTENDS WalletServices, SequenceTheorems, FiniteSetTheorems, WellFoundedInduction, TLAPS

-----------------------------------------------------------------------------
(* Sums over a finite set, by induction on its cardinality.                *)

(* What a fold that adds up the values of a finite set satisfies.          *)
Summing(w, S, g) ==
  g = [s \in SUBSET S |-> IF s = {} THEN 0 ELSE w[CHOOSE x \in s : TRUE] + g[s \ {CHOOSE x \in s : TRUE}]]

(* Induction: a set of naturals that is not empty has a least element.     *)
LEMMA LeastOf ==
  ASSUME NEW S, S \subseteq Nat, S # {}
  PROVE  \E i \in S : \A j \in S : i <= j
<1> DEFINE Below == {ss \in Nat \X Nat : ss[1] < ss[2]}
<1>1. IsWellFoundedOn(Below, Nat)
  BY NatLessThanWellFounded DEF OpToRel
<1>2. PICK i \in S : \A j \in S : ~(<<j, i>> \in Below)
  BY <1>1, WFMin, Zenon
<1>3. ASSUME NEW j \in S PROVE i <= j
  <2>1. ~(<<j, i>> \in Below)
    BY <1>2
  <2>2. j \in Nat /\ i \in Nat /\ (j < i => <<j, i>> \in Below)
    OBVIOUS
  <2> QED BY <2>1, <2>2
<1> QED BY <1>3

LEMMA SmallerBy ==
  ASSUME NEW S, IsFiniteSet(S), NEW s \in SUBSET S, NEW x \in s
  PROVE  /\ IsFiniteSet(s) /\ IsFiniteSet(s \ {x}) /\ Cardinality(s) \in Nat
         /\ Cardinality(s \ {x}) = Cardinality(s) - 1 /\ Cardinality(s \ {x}) \in Nat
<1>1. IsFiniteSet(s)
  BY FS_Subset
<1>2. Cardinality(s \ {x}) = Cardinality(s) - 1 /\ IsFiniteSet(s \ {x})
  BY <1>1, FS_RemoveElement
<1> QED BY <1>1, <1>2, FS_CardinalityType

LEMMA SumExists ==
  ASSUME NEW S, IsFiniteSet(S), NEW w
  PROVE  \E g : Summing(w, S, g)
<1> DEFINE Small(n) == {s \in SUBSET S : Cardinality(s) <= n}
           Pick(s) == CHOOSE x \in s : TRUE
           Part(n, g) == g = [s \in Small(n) |-> IF s = {} THEN 0 ELSE w[Pick(s)] + g[s \ {Pick(s)}]]
           Bad == {n \in Nat : ~\E g : Part(n, g)}
<1>1. Cardinality({}) = 0
  BY FS_EmptySet
<1>2. ASSUME NEW n \in Nat, NEW s \in Small(n), s # {}
      PROVE  Pick(s) \in s /\ s \ {Pick(s)} \in Small(n) /\ s \ {Pick(s)} \in Small(n - 1)
  <2>1. Pick(s) \in s
    BY <1>2
  <2> HIDE DEF Pick
  <2>2. s \in SUBSET S /\ Cardinality(s) <= n
    OBVIOUS
  <2>3. /\ Cardinality(s) \in Nat /\ Cardinality(s \ {Pick(s)}) = Cardinality(s) - 1
    BY <2>1, <2>2, SmallerBy
  <2>4. Cardinality(s \ {Pick(s)}) <= n - 1 /\ Cardinality(s \ {Pick(s)}) <= n
    BY <2>2, <2>3
  <2> QED BY <2>1, <2>2, <2>4
<1>3. ASSUME Bad # {} PROVE FALSE
  <2>1. PICK n \in Bad : \A k \in Bad : n <= k
    BY <1>3, LeastOf
  <2>2. n # 0
    <3> DEFINE g0 == [s \in Small(0) |-> 0]
    <3>1. \A s \in Small(0) : s = {}
      BY FS_EmptySet, FS_Subset, FS_CardinalityType
    <3>2. Part(0, g0)
      BY <3>1
    <3> HIDE DEF Part, g0
    <3> QED BY <2>1, <3>2
  <2>3. PICK g : Part(n - 1, g)
    <3> HIDE DEF Part
    <3>1. n - 1 \in Nat /\ ~(n <= n - 1)
      BY <2>1, <2>2
    <3> QED BY <2>1, <3>1
  <2> DEFINE h == [s \in Small(n) |-> IF s = {} THEN 0 ELSE w[Pick(s)] + g[s \ {Pick(s)}]]
  <2>4. ASSUME NEW s \in Small(n), s # {}
        PROVE  h[s \ {Pick(s)}] = g[s \ {Pick(s)}]
    <3> DEFINE t == s \ {Pick(s)}
    <3>1. t \in Small(n) /\ t \in Small(n - 1)
      BY <1>2, <2>4
    <3> HIDE DEF t, Pick, Small
    <3>2. h[t] = IF t = {} THEN 0 ELSE w[Pick(t)] + g[t \ {Pick(t)}]
      BY <3>1
    <3>3. g[t] = IF t = {} THEN 0 ELSE w[Pick(t)] + g[t \ {Pick(t)}]
      BY <2>3, <3>1
    <3> QED BY <3>2, <3>3 DEF t
  <2>5. h = [s \in Small(n) |-> IF s = {} THEN 0 ELSE w[Pick(s)] + h[s \ {Pick(s)}]]
    <3> HIDE DEF Small, Pick
    <3> QED BY <2>4, Zenon
  <2> QED BY <2>1, <2>5
<1>4. PICK g : Part(Cardinality(S), g)
  BY <1>3, FS_CardinalityType
<1>5. Small(Cardinality(S)) = SUBSET S
  BY FS_Subset
<1> QED BY <1>4, <1>5 DEF Summing

LEMMA SumTyped ==
  ASSUME NEW S, IsFiniteSet(S), NEW w, \A x \in S : w[x] \in Int, NEW g, Summing(w, S, g)
  PROVE  g \in [SUBSET S -> Int]
<1> DEFINE Pick(s) == CHOOSE x \in s : TRUE
           Bad == {n \in Nat : \E s \in SUBSET S : Cardinality(s) = n /\ g[s] \notin Int}
<1>1. \A s \in SUBSET S : g[s] = IF s = {} THEN 0 ELSE w[Pick(s)] + g[s \ {Pick(s)}]
  BY DEF Summing
<1>2. DOMAIN g = SUBSET S /\ g = [s \in SUBSET S |-> g[s]]
  BY DEF Summing
<1>3. ASSUME Bad # {} PROVE FALSE
  <2>1. PICK n \in Bad : \A k \in Bad : n <= k
    BY <1>3, LeastOf
  <2>2. PICK s \in SUBSET S : Cardinality(s) = n /\ g[s] \notin Int
    BY <2>1
  <2>3. s # {} /\ Pick(s) \in s
    <3>1. s # {}
      <4>1. s = {} => g[s] = 0
        BY <1>1, Zenon
      <4> QED BY <2>2, <4>1
    <3> QED BY <3>1
  <2> HIDE DEF Pick
  <2>4. Cardinality(s \ {Pick(s)}) = n - 1 /\ n - 1 \in Nat
    BY <2>2, <2>3, SmallerBy
  <2>5. g[s \ {Pick(s)}] \in Int
    BY <2>1, <2>4
  <2>6. w[Pick(s)] \in Int
    BY <2>3
  <2>7. g[s] = w[Pick(s)] + g[s \ {Pick(s)}]
    BY <1>1, <2>3, Zenon
  <2> QED BY <2>2, <2>5, <2>6, <2>7
<1>4. \A s \in SUBSET S : g[s] \in Int
  BY <1>3, FS_Subset, FS_CardinalityType
<1> QED BY <1>2, <1>4

LEMMA SumAny ==
  ASSUME NEW S, IsFiniteSet(S), NEW w, \A x \in S : w[x] \in Int, NEW g, Summing(w, S, g), NEW s \in SUBSET S, NEW x \in s
  PROVE  g[s] = w[x] + g[s \ {x}]
<1> DEFINE Pick(t) == CHOOSE y \in t : TRUE
           Off(t) == \E y \in t : g[t] # w[y] + g[t \ {y}]
           Bad == {n \in Nat : \E t \in SUBSET S : Cardinality(t) = n /\ Off(t)}
<1>1. \A t \in SUBSET S : g[t] = IF t = {} THEN 0 ELSE w[Pick(t)] + g[t \ {Pick(t)}]
  BY DEF Summing
<1>2. g \in [SUBSET S -> Int]
  BY SumTyped
<1>3. ASSUME Bad # {} PROVE FALSE
  <2>1. PICK n \in Bad : \A k \in Bad : n <= k
    BY <1>3, LeastOf
  <2>0. PICK t \in SUBSET S : Cardinality(t) = n /\ Off(t)
    BY <2>1
  <2>2. PICK y \in t : Cardinality(t) = n /\ g[t] # w[y] + g[t \ {y}]
    BY <2>0
  <2>3. Pick(t) \in t
    BY <2>2
  <2>4. g[t] = w[Pick(t)] + g[t \ {Pick(t)}]
    BY <1>1, <2>3
  <2> HIDE DEF Pick
  <2>5. Pick(t) # y
    BY <2>2, <2>4
  <2>6. Cardinality(t \ {Pick(t)}) = n - 1 /\ Cardinality(t \ {y}) = n - 1 /\ n - 1 \in Nat
    BY <2>2, <2>3, SmallerBy
  <2>7. ~Off(t \ {Pick(t)}) /\ ~Off(t \ {y})
    <3> HIDE DEF Off
    <3>1. ~(n <= n - 1)
      BY <2>1
    <3> QED BY <2>1, <2>6, <3>1
  <2>8. y \in t \ {Pick(t)} /\ Pick(t) \in t \ {y} /\ (t \ {Pick(t)}) \ {y} = (t \ {y}) \ {Pick(t)}
    BY <2>3, <2>5
  <2>9. /\ g[t \ {Pick(t)}] = w[y] + g[(t \ {y}) \ {Pick(t)}]
        /\ g[t \ {y}] = w[Pick(t)] + g[(t \ {y}) \ {Pick(t)}]
    BY <2>7, <2>8
  <2>10. w[y] \in Int /\ w[Pick(t)] \in Int /\ g[(t \ {y}) \ {Pick(t)}] \in Int
    BY <1>2, <2>3
  <2> QED BY <2>2, <2>4, <2>9, <2>10
<1>4. ~Off(s)
  <2> HIDE DEF Off
  <2> QED BY <1>3, FS_Subset, FS_CardinalityType
<1> QED BY <1>4

LEMMA SumAgrees ==
  ASSUME NEW S, IsFiniteSet(S), NEW T \in SUBSET S, NEW w, NEW v, \A x \in T : w[x] = v[x],
         NEW g, Summing(w, S, g), NEW h, Summing(v, T, h)
  PROVE  \A s \in SUBSET T : g[s] = h[s]
<1> DEFINE Pick(s) == CHOOSE x \in s : TRUE
           Bad == {n \in Nat : \E s \in SUBSET T : Cardinality(s) = n /\ g[s] # h[s]}
<1>1. \A s \in SUBSET S : g[s] = IF s = {} THEN 0 ELSE w[Pick(s)] + g[s \ {Pick(s)}]
  BY DEF Summing
<1>2. \A s \in SUBSET T : h[s] = IF s = {} THEN 0 ELSE v[Pick(s)] + h[s \ {Pick(s)}]
  BY DEF Summing
<1>3. ASSUME Bad # {} PROVE FALSE
  <2>1. PICK n \in Bad : \A k \in Bad : n <= k
    BY <1>3, LeastOf
  <2>2. PICK s \in SUBSET T : Cardinality(s) = n /\ g[s] # h[s]
    BY <2>1
  <2>3. s # {} /\ s \in SUBSET S
    BY <1>1, <1>2, <2>2, Zenon
  <2>4. Pick(s) \in s
    BY <2>3
  <2> HIDE DEF Pick
  <2>5. Cardinality(s \ {Pick(s)}) = n - 1 /\ n - 1 \in Nat
    BY <2>2, <2>3, <2>4, SmallerBy
  <2>6. g[s \ {Pick(s)}] = h[s \ {Pick(s)}]
    <3>1. ~(n <= n - 1) /\ s \ {Pick(s)} \in SUBSET T
      BY <2>1, <2>2
    <3> QED BY <2>1, <2>5, <3>1
  <2> QED BY <1>1, <1>2, <2>2, <2>3, <2>4, <2>6
<1> QED BY <1>3, FS_Subset, FS_CardinalityType

(* The sum of the values of a function on a set: nothing of none, and with *)
(* one more its value more.                                                *)
LEMMA SumIs ==
  ASSUME NEW S, IsFiniteSet(S), NEW w
  PROVE  \E g : Summing(w, S, g) /\ SumFunctionOnSet(w, S) = g[S]
<1> DEFINE g == CHOOSE h : Summing(w, S, h)
<1>1. Summing(w, S, g)
  BY SumExists
<1>2. SumFunctionOnSet(w, S) = g[S]
  BY DEF SumFunctionOnSet, FoldFunctionOnSet, MapThenFoldSet, Summing
<1> QED BY <1>1, <1>2

LEMMA SumOfNone ==
  ASSUME NEW w
  PROVE  SumFunctionOnSet(w, {}) = 0
<1>1. PICK g : Summing(w, {}, g) /\ SumFunctionOnSet(w, {}) = g[{}]
  BY SumIs, FS_EmptySet
<1> QED BY <1>1 DEF Summing

LEMMA SumOfInts ==
  ASSUME NEW S, IsFiniteSet(S), NEW w, \A x \in S : w[x] \in Int
  PROVE  SumFunctionOnSet(w, S) \in Int
<1>1. PICK g : Summing(w, S, g) /\ SumFunctionOnSet(w, S) = g[S]
  BY SumIs
<1>2. g \in [SUBSET S -> Int] /\ S \in SUBSET S
  BY <1>1, SumTyped
<1> QED BY <1>1, <1>2

LEMMA SumOfOneMore ==
  ASSUME NEW S, IsFiniteSet(S), NEW w, \A x \in S : w[x] \in Int, NEW x \in S
  PROVE  SumFunctionOnSet(w, S) = w[x] + SumFunctionOnSet(w, S \ {x})
<1>1. PICK g : Summing(w, S, g) /\ SumFunctionOnSet(w, S) = g[S]
  BY SumIs
<1>2. PICK h : Summing(w, S \ {x}, h) /\ SumFunctionOnSet(w, S \ {x}) = h[S \ {x}]
  BY SumIs, FS_Subset
<1>3. g[S \ {x}] = h[S \ {x}]
  BY <1>1, <1>2, SumAgrees
<1>4. g[S] = w[x] + g[S \ {x}]
  BY <1>1, SumAny
<1> QED BY <1>1, <1>2, <1>3, <1>4

LEMMA SumOfSame ==
  ASSUME NEW S, IsFiniteSet(S), NEW w, NEW v, \A x \in S : w[x] = v[x]
  PROVE  SumFunctionOnSet(w, S) = SumFunctionOnSet(v, S)
<1>1. PICK g : Summing(w, S, g) /\ SumFunctionOnSet(w, S) = g[S]
  BY SumIs
<1>2. PICK h : Summing(v, S, h) /\ SumFunctionOnSet(v, S) = h[S]
  BY SumIs
<1>3. S \in SUBSET S
  OBVIOUS
<1>4. \A s \in SUBSET S : g[s] = h[s]
  BY <1>1, <1>2, <1>3, SumAgrees
<1> QED BY <1>1, <1>2, <1>3, <1>4

(* A sum over two sets that have no element in common.                     *)
LEMMA SumJoined ==
  ASSUME NEW S, IsFiniteSet(S), NEW T, IsFiniteSet(T), S \cap T = {}, NEW w, \A x \in S \cup T : w[x] \in Int
  PROVE  /\ SumFunctionOnSet(w, S \cup T) = SumFunctionOnSet(w, S) + SumFunctionOnSet(w, T)
         /\ SumFunctionOnSet(w, S) \in Int /\ SumFunctionOnSet(w, T) \in Int
<1> DEFINE Total(s) == SumFunctionOnSet(w, s)
           Bad == {n \in Nat : \E t \in SUBSET T : Cardinality(t) = n /\ Total(S \cup t) # Total(S) + Total(t)}
<1>1. ASSUME NEW t \in SUBSET T PROVE IsFiniteSet(t) /\ IsFiniteSet(S \cup t) /\ \A x \in S \cup t : w[x] \in Int
  BY FS_Subset, FS_Union
<1>2. ASSUME NEW t \in SUBSET T PROVE Total(t) \in Int
  BY <1>1, SumOfInts
<1>3. Total(S) \in Int
  BY SumOfInts
<1>4. Total({}) = 0
  BY SumOfNone
<1>5. ASSUME NEW t \in SUBSET T, NEW x \in t
      PROVE  /\ Total(t) = w[x] + Total(t \ {x})
             /\ Total(S \cup t) = w[x] + Total(S \cup (t \ {x}))
  <2>1. Total(t) = w[x] + Total(t \ {x})
    BY <1>1, SumOfOneMore
  <2>2. (S \cup t) \ {x} = S \cup (t \ {x}) /\ x \in S \cup t
    OBVIOUS
  <2>3. Total(S \cup t) = w[x] + Total((S \cup t) \ {x})
    BY <1>1, <2>2, SumOfOneMore
  <2> QED BY <2>1, <2>2, <2>3
<1> HIDE DEF Total
<1>6. ASSUME Bad # {} PROVE FALSE
  <2>1. PICK n \in Bad : \A k \in Bad : n <= k
    BY <1>6, LeastOf
  <2>2. PICK t \in SUBSET T : Cardinality(t) = n /\ Total(S \cup t) # Total(S) + Total(t)
    BY <2>1
  <2>3. t # {}
    <3>1. S \cup {} = S
      OBVIOUS
    <3> QED BY <1>3, <1>4, <2>2, <3>1
  <2>4. PICK x \in t : TRUE
    BY <2>3
  <2>5. Cardinality(t \ {x}) = n - 1 /\ n - 1 \in Nat
    BY <2>2, <2>4, SmallerBy
  <2>6. Total(S \cup (t \ {x})) = Total(S) + Total(t \ {x})
    <3>1. ~(n <= n - 1) /\ t \ {x} \in SUBSET T
      BY <2>1
    <3> QED BY <2>1, <2>5, <3>1
  <2>7. w[x] \in Int /\ Total(t \ {x}) \in Int
    BY <1>2
  <2>8. Total(t) = w[x] + Total(t \ {x}) /\ Total(S \cup t) = w[x] + Total(S \cup (t \ {x}))
    BY <1>5, <2>4
  <2> QED BY <1>3, <2>2, <2>6, <2>7, <2>8
<1>7. Total(S \cup T) = Total(S) + Total(T)
  <2>1. Cardinality(T) \in Nat /\ T \in SUBSET T
    BY FS_CardinalityType
  <2> QED BY <1>6, <2>1
<1> QED BY <1>2, <1>3, <1>7 DEF Total

(* What is nothing may be left out of a sum.                               *)
LEMMA SumWithoutNothing ==
  ASSUME NEW S, IsFiniteSet(S), NEW T \in SUBSET S, NEW w, \A x \in S : w[x] \in Int, \A x \in S \ T : w[x] = 0
  PROVE  SumFunctionOnSet(w, S) = SumFunctionOnSet(w, T)
<1> DEFINE Total(s) == SumFunctionOnSet(w, s)
           Bad == {n \in Nat : \E t \in SUBSET (S \ T) : Cardinality(t) = n /\ Total(t) # 0}
<1>0. IsFiniteSet(S \ T) /\ IsFiniteSet(T) /\ S = T \cup (S \ T) /\ T \cap (S \ T) = {}
  BY FS_Subset
<1>1. Total(S) = Total(T) + Total(S \ T) /\ Total(T) \in Int
  <2> DEFINE R == S \ T
  <2>1. IsFiniteSet(R) /\ IsFiniteSet(T) /\ S = T \cup R /\ T \cap R = {} /\ \A x \in T \cup R : w[x] \in Int
    BY <1>0
  <2> HIDE DEF R
  <2>2. SumFunctionOnSet(w, T \cup R) = SumFunctionOnSet(w, T) + SumFunctionOnSet(w, R) /\ SumFunctionOnSet(w, T) \in Int
    BY <2>1, SumJoined
  <2> QED BY <2>1, <2>2 DEF R
<1>2. Total({}) = 0
  BY SumOfNone
<1>3. ASSUME NEW t \in SUBSET (S \ T), NEW x \in t PROVE Total(t) = w[x] + Total(t \ {x}) /\ w[x] = 0
  <2>1. IsFiniteSet(t) /\ \A y \in t : w[y] \in Int
    BY FS_Subset
  <2> QED BY <2>1, SumOfOneMore
<1> HIDE DEF Total
<1>4. ASSUME Bad # {} PROVE FALSE
  <2>1. PICK n \in Bad : \A k \in Bad : n <= k
    BY <1>4, LeastOf
  <2>2. PICK t \in SUBSET (S \ T) : Cardinality(t) = n /\ Total(t) # 0
    BY <2>1
  <2>3. PICK x \in t : TRUE
    BY <1>2, <2>2
  <2>4. Cardinality(t \ {x}) = n - 1 /\ n - 1 \in Nat
    BY <2>2, <2>3, SmallerBy
  <2>5. Total(t \ {x}) = 0
    <3>1. ~(n <= n - 1) /\ t \ {x} \in SUBSET (S \ T)
      BY <2>1
    <3> QED BY <2>1, <2>4, <3>1
  <2> QED BY <1>3, <2>2, <2>5
<1>5. Total(S \ T) = 0
  <2>1. Cardinality(S \ T) \in Nat /\ S \ T \in SUBSET (S \ T)
    BY <1>0, FS_CardinalityType
  <2> QED BY <1>4, <2>1
<1> QED BY <1>1, <1>5 DEF Total

LEMMA IsBijection ==
  ASSUME NEW S, NEW T, NEW f \in [S -> T], \A x, y \in S : f[x] = f[y] => x = y, \A y \in T : \E x \in S : f[x] = y
  PROVE  f \in Bijection(S, T)
BY DEF Bijection, Injection, IsInjective, Surjection

(* A sum told over other names of the same.                                *)
Renames(f, S, T, w, v) ==
  f \in Bijection(S, T) /\ \A x \in S : w[x] \in Int /\ v[f[x]] = w[x]

LEMMA SumRenamed ==
  ASSUME NEW S, IsFiniteSet(S), NEW T, IsFiniteSet(T), NEW f, NEW w, NEW v, Renames(f, S, T, w, v)
  PROVE  SumFunctionOnSet(w, S) = SumFunctionOnSet(v, T)
<1> DEFINE Im(s) == {f[x] : x \in s}
           OnNames(s) == SumFunctionOnSet(w, s)
           Two(s) == SumFunctionOnSet(v, s)
           Bad == {n \in Nat : \E s \in SUBSET S : Cardinality(s) = n /\ OnNames(s) # Two(Im(s))}
<1>0. f \in [S -> T] /\ (\A x, y \in S : f[x] = f[y] => x = y) /\ (\A y \in T : \E x \in S : f[x] = y)
  BY DEF Renames, Bijection, Injection, IsInjective, Surjection
<1>01. \A x \in S : w[x] \in Int /\ v[f[x]] = w[x]
  BY DEF Renames
<1>1. ASSUME NEW s \in SUBSET S PROVE IsFiniteSet(s) /\ IsFiniteSet(Im(s)) /\ \A y \in Im(s) : v[y] \in Int
  <2>1. Im(s) \in SUBSET T
    BY <1>0
  <2>2. \A y \in Im(s) : v[y] \in Int
    BY <1>0, <1>01
  <2> HIDE DEF Im
  <2>3. IsFiniteSet(s)
    BY FS_Subset
  <2>4. IsFiniteSet(Im(s))
    BY <2>1, FS_Subset
  <2> QED BY <2>2, <2>3, <2>4
<1>2. ASSUME NEW s \in SUBSET S, NEW x \in s
      PROVE  OnNames(s) = w[x] + OnNames(s \ {x}) /\ Two(Im(s)) = w[x] + Two(Im(s \ {x}))
  <2>1. OnNames(s) = w[x] + OnNames(s \ {x})
    BY <1>1, <1>01, SumOfOneMore
  <2>2. f[x] \in Im(s) /\ Im(s) \ {f[x]} = Im(s \ {x}) /\ v[f[x]] = w[x]
    BY <1>0, <1>01
  <2> HIDE DEF Im
  <2>3. Two(Im(s)) = v[f[x]] + Two(Im(s) \ {f[x]})
    BY <1>1, <2>2, SumOfOneMore
  <2> QED BY <2>1, <2>2, <2>3
<1>3. OnNames({}) = 0 /\ Two({}) = 0 /\ Im({}) = {}
  BY SumOfNone
<1>4. Im(S) = T
  BY <1>0
<1> HIDE DEF OnNames, Two, Im
<1>5. ASSUME Bad # {} PROVE FALSE
  <2>1. PICK n \in Bad : \A k \in Bad : n <= k
    BY <1>5, LeastOf
  <2>2. PICK s \in SUBSET S : Cardinality(s) = n /\ OnNames(s) # Two(Im(s))
    BY <2>1
  <2>3. PICK x \in s : TRUE
    BY <1>3, <2>2
  <2>4. Cardinality(s \ {x}) = n - 1 /\ n - 1 \in Nat
    <3>1. Cardinality(s \ {x}) = Cardinality(s) - 1 /\ Cardinality(s \ {x}) \in Nat
      BY <2>2, <2>3, SmallerBy
    <3> QED BY <2>2, <3>1
  <2>5. OnNames(s \ {x}) = Two(Im(s \ {x}))
    <3>1. ~(n <= n - 1) /\ s \ {x} \in SUBSET S
      BY <2>1
    <3> QED BY <2>1, <2>4, <3>1
  <2> QED BY <1>2, <2>2, <2>3, <2>5
<1>6. OnNames(S) = Two(Im(S))
  <2>1. Cardinality(S) \in Nat /\ S \in SUBSET S
    BY FS_CardinalityType
  <2> QED BY <1>5, <2>1
<1> QED BY <1>4, <1>6 DEF OnNames, Two

-----------------------------------------------------------------------------
(* The burn and the transfer of an NFT.                                    *)

OrderStates == {"idle", "asked", "found", "refused", "answered", "done", "failed", "unresolved"}
Orders == {"none", "burn", "transfer"}
Routes == {"refused", "programmable", "print", "master", "token"} \cup Compressed
Parties == People \cup {Nobody}
StepNames == {"burn", "transfer", "lookup_table_create", "lookup_table_extend", "landed"}
Interfaces == {"none", "v1_nft", "v1_print", "programmablenft", "fungibletoken", "mplcoreasset"}

InstructionsBuilt == [op : Orders, route : Routes, from : Parties, to : Parties]
StepsBuilt == [step : StepNames, instruction : InstructionsBuilt, expected : Nat, addresses : Seq(Nat)]

OrdersBuilt == [pc : OrderStates, op : Orders, owner : Parties, to : Parties, steps : Seq(StepsBuilt),
                readHolder : Parties, moved : Nat]

OrdersTyped ==
  /\ kind \in Kinds /\ holder \in Parties /\ handovers \in Nat /\ table \in Seq(Nat)
  /\ seen \in [owner : Parties, interface : Interfaces, isOriginal : {"none", "true", "false"}]
  /\ order \in OrdersBuilt /\ (order.pc # "idle" => order.op # "none")

(* What was read of the index is what it says of the asset.                *)
SeenTrue ==
  order.pc \notin {"idle", "asked"} =>
    \E d \in Descriptions(kind) : seen.interface = d.interface /\ seen.isOriginal = d.isOriginal

(* The last transaction suits the asset, and names the caller as its       *)
(* holder: rightly, when it was built, or for a print and a caller whom    *)
(* the index does not contradict.                                          *)
LastFits ==
  LET last == order.steps[Len(order.steps)].instruction
  IN  order.pc \in {"answered", "failed"} =>
        /\ order.steps # <<>> /\ Suits(last) /\ last.from = order.owner
        /\ order.readHolder = order.owner \/ (last.route = "print" /\ seen.owner \in {Nobody, order.owner})

(* The asset stays where it was as long as no one hands it over.           *)
StaysPut ==
  order.pc = "answered" => order.moved <= handovers /\ (handovers = order.moved => holder = order.readHolder)

NeverFailsAlone ==
  order.pc = "failed" => handovers > order.moved \/ order.readHolder # order.owner

(* The inductive invariant of a burn or a transfer.                        *)
OrderInv == OrdersTyped /\ SeenTrue /\ LastFits /\ StaysPut /\ NeverFailsAlone

-----------------------------------------------------------------------------
(* What the index says leads to an instruction for what the asset is; a    *)
(* Token-2022 asset and a programmable edition are told apart by the node. *)
LEMMA RouteSuits ==
  ASSUME OrdersTyped, SeenTrue, order.pc = "found", Route # "refused",
         Route \in {"master", "token"} => kind # "token2022",
         Route = "programmable" => kind # "programmableEdition"
  PROVE  Suits(Instruction) /\ Instruction.from = order.owner
<1>1. PICK d \in Descriptions(kind) : seen.interface = d.interface /\ seen.isOriginal = d.isOriginal
  BY DEF SeenTrue
<1>2. kind \in {"master", "print", "programmable", "programmableEdition", "token2022", "leafV1", "leafV2",
                "fungible", "core"}
  BY ActionsAssumption DEF OrdersTyped
<1>3. Instruction.route = (IF Route = "leaf" THEN kind ELSE Route) /\ Instruction.from = order.owner
  BY DEF Instruction
<1>4. CASE order.op = "burn"
  <2>1. Route = BurnRoute
    BY <1>4 DEF Route
  <2> QED BY <1>1, <1>2, <1>3, <2>1
          DEF BurnRoute, Suits, Descriptions, Compressed, Programmable, IsFungibleToken, IsEditionToken,
              IsMasterEditionToken
<1>5. CASE order.op # "burn"
  <2>1. Route = TransferRoute
    BY <1>5 DEF Route
  <2> QED BY <1>1, <1>2, <1>3, <2>1
          DEF TransferRoute, Suits, Descriptions, Compressed, Programmable, IsFungibleToken
<1> QED BY <1>4, <1>5

(* The transactions that are built are well formed, and end in one for the *)
(* instruction.                                                            *)
LEMMA SingleBuilt ==
  ASSUME OrdersTyped, order.op \in {"burn", "transfer"}, Route # "refused"
  PROVE  /\ Instruction \in InstructionsBuilt /\ Single \in Seq(StepsBuilt)
         /\ Len(Single) = 1 /\ Single[1].instruction = Instruction
<1>1. Route \in Routes \cup {"leaf"} /\ (Route = "leaf" => kind \in Compressed)
  BY DEF Route, BurnRoute, TransferRoute, Routes
<1>2. Instruction \in InstructionsBuilt
  BY <1>1 DEF Instruction, InstructionsBuilt, OrdersTyped, OrdersBuilt, Routes
<1>3. [step |-> order.op, instruction |-> Instruction, expected |-> 0, addresses |-> <<>>] \in StepsBuilt
  BY <1>2 DEF StepsBuilt, StepNames
<1> QED BY <1>2, <1>3 DEF Single

(* The chunks of a table: each but the last is full, none is empty, and    *)
(* they end where the addresses do.                                        *)
ChunkCount == (Len(Addresses) + ExtendChunkSize - 1) \div ExtendChunkSize
UpTo(i) == Min({i * ExtendChunkSize, Len(Addresses)})

LEMMA LesserOf ==
  ASSUME NEW a \in Int, NEW b \in Int
  PROVE  Min({a, b}) = IF a <= b THEN a ELSE b
<1> DEFINE m == IF a <= b THEN a ELSE b
<1>1. m \in {a, b} /\ \A y \in {a, b} : m <= y
  OBVIOUS
<1>2. \A x \in {a, b} : (\A y \in {a, b} : x <= y) => x = m
  OBVIOUS
<1> QED BY <1>1, <1>2 DEF Min

LEMMA TimesKeepsOrder ==
  ASSUME NEW c \in Nat, NEW a \in Int, NEW b \in Int, a <= b
  PROVE  a * c <= b * c
<1>1. (b - a) * c >= 0
  OBVIOUS
<1> QED BY <1>1

LEMMA ChunkBounds ==
  /\ ChunkCount \in Nat /\ UpTo(0) = 0 /\ UpTo(ChunkCount) = Len(Addresses)
  /\ \A i \in 1 .. ChunkCount :
       /\ UpTo(i - 1) = (i - 1) * ExtendChunkSize /\ UpTo(i - 1) < UpTo(i)
       /\ UpTo(i - 1) \in Nat /\ UpTo(i) \in Nat /\ UpTo(i) <= Len(Addresses)
<1> DEFINE C == ExtendChunkSize
           n == Len(Addresses)
           K == ChunkCount
<1>1. C \in Nat \ {0} /\ n \in Nat
  BY ActionsAssumption
<1>2. K \in Nat /\ K * C <= n + C - 1 /\ n + C - 1 < K * C + C
  BY <1>1 DEF ChunkCount
<1>3. \A i \in Nat : i * C \in Nat /\ UpTo(i) = IF i * C <= n THEN i * C ELSE n
  BY <1>1, LesserOf DEF UpTo
<1> HIDE DEF C, n, K
<1>4. UpTo(0) = 0 /\ UpTo(K) = n
  BY <1>1, <1>2, <1>3
<1>5. ASSUME NEW i \in 1 .. K
      PROVE  UpTo(i - 1) = (i - 1) * C /\ UpTo(i - 1) < UpTo(i) /\ UpTo(i - 1) \in Nat
             /\ UpTo(i) \in Nat /\ UpTo(i) <= n
  <2>1. i * C <= K * C /\ (i - 1) * C = i * C - C
    BY <1>1, <1>2, TimesKeepsOrder
  <2>2. (i - 1) * C < n
    BY <1>1, <1>2, <1>3, <2>1
  <2> QED BY <1>1, <1>2, <1>3, <2>1, <2>2
<1> QED BY <1>2, <1>4, <1>5 DEF C, n, K

LEMMA ChunksAre ==
  /\ DOMAIN Chunks = 1 .. ChunkCount /\ DOMAIN ChunkLengths = 1 .. ChunkCount
  /\ \A i \in 1 .. ChunkCount :
       /\ Chunks[i] = SubSeq(Addresses, UpTo(i - 1) + 1, UpTo(i)) /\ Chunks[i] \in Seq(Nat)
       /\ ChunkLengths[i] = UpTo(i) - UpTo(i - 1)
<1>1. DOMAIN Chunks = 1 .. ChunkCount /\ DOMAIN ChunkLengths = 1 .. ChunkCount
  BY DEF Chunks, ChunkLengths, ChunkCount
<1>2. ASSUME NEW i \in 1 .. ChunkCount
      PROVE  /\ Chunks[i] = SubSeq(Addresses, UpTo(i - 1) + 1, UpTo(i)) /\ Chunks[i] \in Seq(Nat)
             /\ ChunkLengths[i] = UpTo(i) - UpTo(i - 1)
  <2>1. Chunks[i] = SubSeq(Addresses, (i - 1) * ExtendChunkSize + 1, UpTo(i))
    BY DEF Chunks, ChunkCount, UpTo
  <2>2. UpTo(i - 1) = (i - 1) * ExtendChunkSize /\ UpTo(i - 1) < UpTo(i) /\ UpTo(i) \in Nat /\ UpTo(i) <= Len(Addresses)
        /\ UpTo(i - 1) \in Nat
    BY ChunkBounds
  <2>3. \A j \in UpTo(i - 1) + 1 .. UpTo(i) : Addresses[j] \in Nat
    BY <2>2, ActionsAssumption
  <2>4. Chunks[i] \in Seq(Nat) /\ Len(Chunks[i]) = UpTo(i) - UpTo(i - 1)
    BY <2>1, <2>2, <2>3, SubSeqProperties
  <2> QED BY <1>1, <2>1, <2>2, <2>4 DEF ChunkLengths
<1> QED BY <1>1, <1>2

(* What a step names is the end of its chunk.                              *)
LEMMA CountNamed ==
  ASSUME NEW i \in 0 .. ChunkCount
  PROVE  ExpectedLookupTableAddressCount(i) = UpTo(i)
<1> DEFINE Bad == {k \in 0 .. ChunkCount : ExpectedLookupTableAddressCount(k) # UpTo(k)}
<1>1. ASSUME Bad # {} PROVE FALSE
  <2>1. PICK k \in Bad : \A j \in Bad : k <= j
    <3>1. Bad \subseteq Nat
      BY ChunkBounds
    <3> QED BY <1>1, <3>1, LeastOf
  <2>2. k # 0
    BY <2>1, SumOfNone, ChunkBounds DEF ExpectedLookupTableAddressCount
  <2>3. k \in 1 .. ChunkCount /\ k - 1 \notin Bad
    BY <2>1, <2>2, ChunkBounds
  <2>4. IsFiniteSet(1 .. k) /\ (1 .. k) \ {k} = 1 .. (k - 1) /\ k \in 1 .. k
    <3>1. k \in Nat /\ k >= 1
      BY <2>3, ChunkBounds
    <3>2. IsFiniteSet(1 .. k)
      BY <3>1, FS_Interval
    <3>3. (1 .. k) \ {k} = 1 .. (k - 1) /\ k \in 1 .. k
      BY <3>1
    <3> QED BY <3>2, <3>3
  <2>5. \A j \in 1 .. k : ChunkLengths[j] \in Int
    <3>1. \A j \in 1 .. k : j \in 1 .. ChunkCount
      BY <2>3, ChunkBounds
    <3>2. \A j \in 1 .. ChunkCount : UpTo(j) \in Int /\ UpTo(j - 1) \in Int
      BY ChunkBounds
    <3> QED BY <3>1, <3>2, ChunksAre
  <2>6. ExpectedLookupTableAddressCount(k) = ChunkLengths[k] + ExpectedLookupTableAddressCount(k - 1)
    BY <2>4, <2>5, SumOfOneMore DEF ExpectedLookupTableAddressCount
  <2> QED BY <2>1, <2>3, <2>6, ChunksAre, ChunkBounds
<1> QED BY <1>1

(* A fallback's steps: the table, its chunks, and the burn.                *)
StepOf(k) ==
  IF k = 1 THEN "lookup_table_create" ELSE IF k = ChunkCount + 2 THEN "burn" ELSE "lookup_table_extend"

FallbackSteps(steps) ==
  /\ Len(steps) = ChunkCount + 2
  /\ \A k \in 1 .. (ChunkCount + 1) : steps[k].expected = UpTo(k - 1)
  /\ \A k \in 1 .. ChunkCount : steps[k + 1].addresses = SubSeq(Addresses, UpTo(k - 1) + 1, UpTo(k))
  /\ steps[ChunkCount + 2].addresses = Addresses

LEMMA FallbackBuilt ==
  ASSUME OrdersTyped, order.op = "burn", Route # "refused"
  PROVE  /\ Fallback \in Seq(StepsBuilt) /\ Fallback # <<>> /\ Fallback[Len(Fallback)].instruction = Instruction
         /\ FallbackSteps(Fallback) /\ \A k \in DOMAIN Fallback : Fallback[k].step = StepOf(k)
<1> DEFINE K == ChunkCount
           made(name, e, addresses) ==
             [step |-> name, instruction |-> Instruction, expected |-> e, addresses |-> addresses]
           create  == <<made("lookup_table_create", 0, <<>>)>>
           extends == [i \in DOMAIN Chunks |->
                         made("lookup_table_extend", ExpectedLookupTableAddressCount(i), Chunks[i])]
           burn    == <<made("burn", 0, Addresses)>>
<1>1. Fallback = (create \o extends) \o burn
  BY DEF Fallback, CreateLookupTableFallbackTransactions
<1>2. Instruction \in InstructionsBuilt
  BY SingleBuilt
<1>3. K \in Nat /\ Addresses \in Seq(Nat) /\ UpTo(0) = 0
  BY ChunkBounds, ActionsAssumption
<1>4. create \in Seq(StepsBuilt) /\ burn \in Seq(StepsBuilt) /\ Len(create) = 1 /\ Len(burn) = 1
  BY <1>2, <1>3 DEF StepsBuilt, StepNames
<1>5. ASSUME NEW i \in 1 .. K
      PROVE  /\ extends[i] = made("lookup_table_extend", UpTo(i), Chunks[i])
             /\ made("lookup_table_extend", UpTo(i), Chunks[i]) \in StepsBuilt
  <2>1. UpTo(i) \in Nat /\ Chunks[i] \in Seq(Nat) /\ i \in DOMAIN Chunks /\ i \in 0 .. K
    BY ChunkBounds, ChunksAre
  <2>2. ExpectedLookupTableAddressCount(i) = UpTo(i)
    BY <2>1, CountNamed
  <2> QED BY <1>2, <2>1, <2>2 DEF StepsBuilt, StepNames
<1>6. extends \in Seq(StepsBuilt) /\ Len(extends) = K
  <2>1. DOMAIN extends = 1 .. K
    BY ChunksAre
  <2>2. extends \in [1 .. K -> StepsBuilt]
    BY <1>5, <2>1
  <2> QED BY <1>3, <2>2
<1> HIDE DEF create, extends, burn, K
<1> DEFINE table1 == create \o extends
<1>a. /\ table1 \in Seq(StepsBuilt) /\ Len(table1) = K + 1
      /\ table1[1] = create[1] /\ \A i \in 1 .. K : table1[i + 1] = extends[i]
  <2>1. /\ table1 \in Seq(StepsBuilt) /\ Len(table1) = 1 + K
        /\ \A i \in 1 .. (1 + K) : table1[i] = IF i <= 1 THEN create[i] ELSE extends[i - 1]
    <3>1. /\ table1 \in Seq(StepsBuilt) /\ Len(table1) = Len(create) + Len(extends)
          /\ \A i \in 1 .. (Len(create) + Len(extends)) :
               table1[i] = IF i <= Len(create) THEN create[i] ELSE extends[i - Len(create)]
      BY <1>4, <1>6, ConcatProperties, Zenon
    <3> HIDE DEF table1
    <3> QED BY <1>4, <1>6, <3>1
  <2> HIDE DEF table1
  <2>2. ASSUME NEW i \in 1 .. K PROVE table1[i + 1] = extends[i]
    <3>1. i + 1 \in 1 .. (1 + K) /\ ~(i + 1 <= 1) /\ (i + 1) - 1 = i
      BY <1>3
    <3>2. table1[i + 1] = extends[(i + 1) - 1]
      BY <2>1, <3>1
    <3> QED BY <3>1, <3>2
  <2> QED BY <1>3, <2>1, <2>2
<1>7. Fallback \in Seq(StepsBuilt) /\ Len(Fallback) = K + 2
  <2>1. Fallback \in Seq(StepsBuilt) /\ Len(Fallback) = Len(table1) + Len(burn)
    BY <1>1, <1>4, <1>a, ConcatProperties, Zenon
  <2> HIDE DEF table1
  <2> QED BY <1>3, <1>4, <1>a, <2>1
<1>8. Fallback[1] = create[1] /\ Fallback[K + 2] = burn[1] /\ \A i \in 1 .. K : Fallback[i + 1] = extends[i]
  <2> HIDE DEF table1
  <2>1. \A i \in 1 .. (K + 2) : Fallback[i] = IF i <= K + 1 THEN table1[i] ELSE burn[i - (K + 1)]
    <3>1. Fallback = table1 \o burn
      BY <1>1 DEF table1
    <3> QED BY <1>3, <1>4, <1>a, <3>1, ConcatProperties
  <2>2. 1 \in 1 .. (K + 2) /\ K + 2 \in 1 .. (K + 2) /\ ~(K + 2 <= K + 1) /\ (K + 2) - (K + 1) = 1 /\ 1 <= K + 1
        /\ \A i \in 1 .. K : i + 1 \in 1 .. (K + 2) /\ i + 1 <= K + 1
    BY <1>3
  <2>3. Fallback[1] = table1[1]
    BY <2>1, <2>2
  <2>4. Fallback[K + 2] = burn[(K + 2) - (K + 1)]
    BY <2>1, <2>2
  <2>5. \A i \in 1 .. K : Fallback[i + 1] = table1[i + 1]
    BY <2>1, <2>2
  <2> QED BY <1>a, <2>2, <2>3, <2>4, <2>5
<1>9. Fallback[1] = made("lookup_table_create", 0, <<>>) /\ Fallback[K + 2] = made("burn", 0, Addresses)
  BY <1>8 DEF create, burn
<1>10. \A i \in 1 .. K : Fallback[i + 1] = made("lookup_table_extend", UpTo(i), Chunks[i])
  BY <1>5, <1>8
<1>11. ASSUME NEW k \in 1 .. (K + 2)
       PROVE  k = 1 \/ k = K + 2 \/ k - 1 \in 1 .. K
  BY <1>3
<1>12. \A k \in 1 .. (K + 1) : Fallback[k].expected = UpTo(k - 1)
  <2> SUFFICES ASSUME NEW k \in 1 .. (K + 1) PROVE Fallback[k].expected = UpTo(k - 1)
    OBVIOUS
  <2>1. CASE k = 1
    BY <1>3, <1>9, <2>1
  <2>2. CASE k # 1
    <3>1. PICK j \in 1 .. K : k = j + 1
      <4>1. k - 1 \in 1 .. K /\ k = (k - 1) + 1
        BY <1>3, <2>2
      <4> QED BY <4>1
    <3>2. Fallback[j + 1] = made("lookup_table_extend", UpTo(j), Chunks[j])
      BY <1>10, Zenon
    <3>3. j = k - 1
      BY <1>3, <3>1
    <3> QED BY <3>1, <3>2, <3>3
  <2> QED BY <2>1, <2>2
<1>13. \A k \in 1 .. K : Fallback[k + 1].addresses = SubSeq(Addresses, UpTo(k - 1) + 1, UpTo(k))
  <2>1. \A k \in 1 .. K : Fallback[k + 1].addresses = Chunks[k]
    <3> SUFFICES ASSUME NEW k \in 1 .. K PROVE Fallback[k + 1].addresses = Chunks[k]
      OBVIOUS
    <3>1. Fallback[k + 1] = made("lookup_table_extend", UpTo(k), Chunks[k])
      BY <1>10, Zenon
    <3> QED BY <3>1
  <2> QED BY <2>1, ChunksAre DEF K
<1>14. \A k \in 1 .. (K + 2) : Fallback[k].step = StepOf(k)
  <2> SUFFICES ASSUME NEW k \in 1 .. (K + 2) PROVE Fallback[k].step = StepOf(k)
    OBVIOUS
  <2>1. CASE k = 1 \/ k = K + 2
    BY <1>3, <1>9, <2>1 DEF StepOf, K
  <2>2. CASE k # 1 /\ k # K + 2
    <3>1. PICK j \in 1 .. K : k = j + 1
      <4>1. k - 1 \in 1 .. K /\ k = (k - 1) + 1
        BY <1>3, <2>2
      <4> QED BY <4>1
    <3>2. Fallback[j + 1] = made("lookup_table_extend", UpTo(j), Chunks[j])
      BY <1>10, Zenon
    <3> QED BY <2>2, <3>1, <3>2 DEF StepOf, K
  <2> QED BY <2>1, <2>2
<1> QED BY <1>3, <1>7, <1>9, <1>12, <1>13, <1>14 DEF FallbackSteps, K

(* The invariant of an order is kept by each of its steps.                 *)
LEMMA OrderKept ==
  ASSUME OrderInv, [ActionsNext]_actionVars
  PROVE  OrderInv'
<1> USE DEF OrderInv
<1>1. ASSUME NEW op \in {"burn", "transfer"}, NEW o \in People, NEW t \in Parties, AskAction(op, o, t)
      PROVE  OrderInv'
  <2>1. order' = [pc |-> "asked", op |-> op, owner |-> o, to |-> t, steps |-> <<>>, readHolder |-> Nobody, moved |-> 0]
    BY <1>1 DEF AskAction, NoOrder
  <2>2. <<>> \in Seq(StepsBuilt) /\ o \in Parties /\ Nobody \in Parties /\ op \in Orders /\ "asked" \in OrderStates
    BY DEF Parties, Orders, OrderStates
  <2>3. order' \in OrdersBuilt
    BY <2>1, <2>2 DEF OrdersBuilt
  <2>4. OrdersTyped'
    BY <1>1, <2>1, <2>3 DEF AskAction, OrdersTyped
  <2> QED BY <2>1, <2>4 DEF SeenTrue, LastFits, StaysPut, NeverFailsAlone
<1>2. ASSUME NEW was \in People, FindFromSourceWithMint(was)
      PROVE  OrderInv'
  <2>1. order' = [order EXCEPT !.pc = "found"] /\ kind' = kind
    BY <1>2 DEF FindFromSourceWithMint
  <2>2. PICK d \in Descriptions(kind), known \in {was, holder, Nobody} :
          seen' = [owner |-> known, interface |-> d.interface, isOriginal |-> d.isOriginal]
    BY <1>2 DEF FindFromSourceWithMint
  <2>3. kind \in {"master", "print", "programmable", "programmableEdition", "token2022", "leafV1", "leafV2",
                  "fungible", "core"}
    BY ActionsAssumption DEF OrdersTyped
  <2>4. d.interface \in Interfaces /\ d.isOriginal \in {"none", "true", "false"}
    BY <2>2, <2>3 DEF Descriptions, Interfaces, Compressed, Programmable
  <2>5. seen' \in [owner : Parties, interface : Interfaces, isOriginal : {"none", "true", "false"}]
    BY <2>2, <2>4 DEF OrdersTyped, Parties
  <2>6. OrdersTyped'
    BY <1>2, <2>1, <2>5 DEF FindFromSourceWithMint, OrdersTyped, OrdersBuilt, OrderStates
  <2>7. SeenTrue'
    BY <2>1, <2>2 DEF SeenTrue, Descriptions
  <2> QED BY <2>1, <2>6, <2>7 DEF LastFits, StaysPut, NeverFailsAlone, OrdersTyped, OrdersBuilt
<1>3. CASE Build
  <2>1. order.pc = "found" /\ UNCHANGED <<kind, holder, handovers, seen, table>>
    BY <1>3 DEF Build
  <2>2. CASE Refuse
    <3>1. order' = [order EXCEPT !.pc = "refused"]
      BY <2>2 DEF Refuse
    <3>2. OrdersTyped' /\ SeenTrue'
      BY <2>1, <3>1 DEF OrdersTyped, OrdersBuilt, OrderStates, SeenTrue, Descriptions
    <3> QED BY <3>1, <3>2 DEF LastFits, StaysPut, NeverFailsAlone, OrdersTyped, OrdersBuilt
  <2>3. ASSUME NEW steps \in Seq(StepsBuilt), steps # <<>>, steps[Len(steps)].instruction = Instruction,
               Suits(Instruction), Instruction.from = order.owner, Answered(steps),
               holder = order.owner \/ (Instruction.route = "print" /\ seen.owner \in {Nobody, order.owner})
        PROVE  OrderInv'
    <3>1. order' = [order EXCEPT !.pc = "answered", !.steps = steps, !.readHolder = holder, !.moved = handovers]
      BY <2>3 DEF Answered
    <3>2. OrdersTyped' /\ SeenTrue'
      BY <2>1, <3>1 DEF OrdersTyped, OrdersBuilt, OrderStates, SeenTrue, Descriptions
    <3>3. /\ order'.pc = "answered" /\ order'.steps = steps /\ order'.readHolder = holder
          /\ order'.moved = handovers /\ order'.owner = order.owner
      BY <3>1 DEF OrdersTyped, OrdersBuilt
    <3>4. LastFits'
      BY <2>1, <2>3, <3>3 DEF LastFits, Suits
    <3> QED BY <2>1, <3>2, <3>3, <3>4 DEF StaysPut, NeverFailsAlone, OrdersTyped, OrdersBuilt
  <2>4. order.op \in {"burn", "transfer"} /\ kind \in Kinds
    BY <2>1 DEF OrdersTyped, OrdersBuilt, Orders
  <2>5. ASSUME Answered(Single), Route # "refused", order.op \in {"burn", "transfer"},
               Suits(Instruction), Instruction.from = order.owner,
               holder = order.owner \/ (Instruction.route = "print" /\ seen.owner \in {Nobody, order.owner})
        PROVE  OrderInv'
    <3>1. Single \in Seq(StepsBuilt) /\ Len(Single) = 1 /\ Single[1].instruction = Instruction
      BY <2>5, SingleBuilt
    <3>2. Single # <<>> /\ Single[Len(Single)].instruction = Instruction
      BY <3>1
    <3> QED BY <2>3, <2>5, <3>1, <3>2
  <2>6. CASE BurnMasterEdition /\ LoadOwnedDigitalAsset /\ Answered(Single)
    BY <2>1, <2>4, <2>5, <2>6, RouteSuits DEF BurnMasterEdition, LoadOwnedDigitalAsset, Route, TransferRoute, Orders
  <2>7. CASE BurnEditions
    <3>1. Route = "print" /\ Answered(Single)
      BY <2>7 DEF BurnEditions
    <3>2. Instruction.route = "print" /\ seen.owner \in {Nobody, order.owner}
      BY <3>1 DEF Instruction, Route, BurnRoute, TransferRoute, AssertOwnership
    <3> QED BY <2>1, <2>4, <2>5, <3>1, <3>2, RouteSuits
  <2>8. CASE BurnProgrammableNft /\ LoadOwnedDigitalAsset /\ kind # "programmableEdition" /\ Answered(Single)
    BY <2>1, <2>4, <2>5, <2>8, RouteSuits DEF BurnProgrammableNft, LoadOwnedDigitalAsset
  <2>9. CASE BurnCompressedNft /\ OwnsLeaf /\ Answered(Single)
    BY <2>1, <2>4, <2>5, <2>9, RouteSuits DEF BurnCompressedNft, OwnsLeaf
  <2>10. CASE BurnCompressedNft /\ OwnsLeaf /\ Answered(Fallback)
    BY <2>1, <2>3, <2>10, RouteSuits, FallbackBuilt DEF BurnCompressedNft, OwnsLeaf
  <2>11. CASE TransferNft /\ LoadOwnedDigitalAsset /\ Answered(Single)
    BY <2>1, <2>4, <2>5, <2>11, RouteSuits DEF TransferNft, LoadOwnedDigitalAsset
  <2>12. CASE TransferCompressedNft /\ OwnsLeaf /\ Answered(Single)
    BY <2>1, <2>4, <2>5, <2>12, RouteSuits DEF TransferCompressedNft, OwnsLeaf
  <2>13. \/ Unsupported \/ BurnMasterEdition \/ BurnEditions \/ BurnProgrammableNft \/ BurnCompressedNft
         \/ TransferNft \/ TransferCompressedNft
    BY <1>3 DEF Build
  <2>14. CASE Unsupported
    BY <2>2, <2>14 DEF Unsupported
  <2>15. CASE BurnMasterEdition
    BY <2>2, <2>6, <2>15 DEF BurnMasterEdition
  <2>16. CASE BurnProgrammableNft
    BY <2>2, <2>8, <2>16 DEF BurnProgrammableNft
  <2>17. CASE BurnCompressedNft
    BY <2>2, <2>9, <2>10, <2>17 DEF BurnCompressedNft
  <2>18. CASE TransferNft
    BY <2>2, <2>11, <2>18 DEF TransferNft
  <2>19. CASE TransferCompressedNft
    BY <2>2, <2>12, <2>19 DEF TransferCompressedNft
  <2> QED BY <2>7, <2>13, <2>14, <2>15, <2>16, <2>17, <2>18, <2>19
<1>4. ASSUME NEW i \in DOMAIN order.steps, LandTableStep(i)
      PROVE  OrderInv'
  <2> DEFINE steps == [order.steps EXCEPT ![i].step = "landed"]
  <2>1. /\ order' = [order EXCEPT !.steps = steps] /\ order.pc = "answered"
        /\ UNCHANGED <<kind, holder, handovers, seen>>
    BY <1>4 DEF LandTableStep, Landed
  <2>2. order.steps \in Seq(StepsBuilt) /\ order.steps[i] \in StepsBuilt /\ order \in OrdersBuilt
    BY DEF OrdersTyped, OrdersBuilt
  <2>3. [order.steps[i] EXCEPT !.step = "landed"] \in StepsBuilt
    BY <2>2 DEF StepsBuilt, StepNames
  <2>4. steps \in Seq(StepsBuilt) /\ Len(steps) = Len(order.steps)
    BY <2>2, <2>3
  <2>5. \A k \in DOMAIN order.steps : steps[k].instruction = order.steps[k].instruction
    BY <2>2 DEF StepsBuilt
  <2>6. table' \in Seq(Nat)
    <3>1. order.steps[i].addresses \in Seq(Nat) /\ table \in Seq(Nat)
      BY <2>2 DEF OrdersTyped, StepsBuilt
    <3>2. table' = <<>> \/ table' = table \o order.steps[i].addresses
      BY <1>4 DEF LandTableStep
    <3>3. table \o order.steps[i].addresses \in Seq(Nat) /\ <<>> \in Seq(Nat)
      BY <3>1, ConcatProperties, EmptySeq, Zenon
    <3> QED BY <3>2, <3>3
  <2> HIDE DEF steps
  <2>7. order'.steps = steps /\ order' \in OrdersBuilt /\ order'.pc = order.pc /\ order'.owner = order.owner
        /\ order'.readHolder = order.readHolder /\ order'.moved = order.moved /\ order'.op = order.op
    BY <2>1, <2>2, <2>4 DEF OrdersBuilt
  <2>8. OrdersTyped'
    BY <2>1, <2>6, <2>7 DEF OrdersTyped
  <2>9. SeenTrue'
    BY <2>1, <2>7 DEF SeenTrue, Descriptions
  <2>10. Len(order.steps) \in DOMAIN order.steps /\ order.steps # <<>>
    BY <2>1, <2>2 DEF LastFits
  <2>11. steps[Len(steps)].instruction = order.steps[Len(order.steps)].instruction /\ steps # <<>>
    BY <2>2, <2>4, <2>5, <2>10
  <2>12. LastFits'
    BY <2>1, <2>7, <2>11 DEF LastFits, Suits
  <2> QED BY <2>1, <2>7, <2>8, <2>9, <2>12 DEF StaysPut, NeverFailsAlone
<1>5. ASSUME NEW i \in DOMAIN order.steps, SendLast(i)
      PROVE  OrderInv'
  <2> DEFINE step == order.steps[i]
             fine == Resolves(step) /\ Suits(step.instruction) /\ holder = step.instruction.from
             end  == IF fine THEN "done" ELSE IF Resolves(step) THEN "failed" ELSE "unresolved"
  <2>1. /\ order.pc = "answered" /\ i = Len(order.steps)
        /\ order' = [order EXCEPT !.pc = end]
        /\ holder' = IF fine THEN step.instruction.to ELSE holder
        /\ UNCHANGED <<kind, handovers, seen, table>>
    BY <1>5 DEF SendLast
  <2>2. step \in StepsBuilt /\ order \in OrdersBuilt
    BY DEF OrdersTyped, OrdersBuilt
  <2>3. holder' \in Parties
    BY <2>1, <2>2 DEF OrdersTyped, StepsBuilt, InstructionsBuilt
  <2>4. end = "failed" => ~fine /\ Resolves(step)
    OBVIOUS
  <2>5. end \in {"done", "failed", "unresolved"}
    OBVIOUS
  <2>6. end = "failed" => handovers > order.moved \/ order.readHolder # order.owner
    <3>1. Suits(step.instruction) /\ step.instruction.from = order.owner
      BY <2>1 DEF LastFits
    <3>2. order.moved \in Nat /\ handovers \in Nat
      BY <2>2 DEF OrdersTyped, OrdersBuilt
    <3> QED BY <2>1, <2>4, <3>1, <3>2 DEF StaysPut
  <2> HIDE DEF end, fine, step
  <2>7. order'.steps = order.steps /\ order' \in OrdersBuilt /\ order'.pc = end /\ order'.owner = order.owner
        /\ order'.readHolder = order.readHolder /\ order'.moved = order.moved /\ order'.op = order.op
    BY <2>1, <2>2, <2>5 DEF OrdersBuilt, OrderStates
  <2>8. OrdersTyped'
    BY <2>1, <2>3, <2>7 DEF OrdersTyped
  <2>9. SeenTrue'
    BY <2>1, <2>7 DEF SeenTrue, Descriptions
  <2>10. LastFits'
    BY <2>1, <2>7 DEF LastFits, Suits
  <2> QED BY <2>1, <2>5, <2>6, <2>7, <2>8, <2>9, <2>10 DEF StaysPut, NeverFailsAlone
<1>6. ASSUME NEW p \in People, HandOver(p)
      PROVE  OrderInv'
  <2>1. /\ handovers' = handovers + 1 /\ holder' = p
        /\ UNCHANGED <<kind, seen, order, table>>
    BY <1>6 DEF HandOver
  <2>2. OrdersTyped'
    BY <2>1 DEF OrdersTyped, Parties
  <2>3. SeenTrue'
    BY <2>1 DEF SeenTrue, Descriptions
  <2>4. LastFits'
    BY <2>1 DEF LastFits, Suits
  <2> QED BY <2>1, <2>2, <2>3, <2>4 DEF OrdersTyped, OrdersBuilt, StaysPut, NeverFailsAlone
<1>7. CASE UNCHANGED actionVars
  BY <1>7 DEF actionVars, OrdersTyped, SeenTrue, LastFits, StaysPut, NeverFailsAlone, Suits, Descriptions
<1> QED BY <1>1, <1>2, <1>3, <1>4, <1>5, <1>6, <1>7 DEF ActionsNext, Parties

-----------------------------------------------------------------------------
(* The steps land in order, and the table holds the chunks of those that   *)
(* did.                                                                    *)
LandedUpTo(steps, held, n) ==
  /\ \A k \in 1 .. (ChunkCount + 2) : steps[k].step = IF k <= n THEN "landed" ELSE StepOf(k)
  /\ held = IF n = 0 THEN NoTable ELSE SubSeq(Addresses, 1, UpTo(n - 1))

TableInv ==
  /\ order.pc \in {"idle", "asked", "found", "refused"} => table = NoTable
  /\ order.pc = "answered" =>
       \/ /\ Len(order.steps) = 1 /\ order.steps[1].addresses = <<>>
          /\ order.steps[1].step \in {"burn", "transfer"}
       \/ FallbackSteps(order.steps) /\ \E n \in 0 .. (ChunkCount + 1) : LandedUpTo(order.steps, table, n)
  /\ order.pc # "unresolved"

LEMMA UpToGrows ==
  ASSUME NEW a \in 0 .. ChunkCount, NEW b \in 0 .. ChunkCount, a < b
  PROVE  UpTo(a) \in Nat /\ UpTo(b) \in Nat /\ UpTo(a) < UpTo(b)
<1>1. ChunkCount \in Nat /\ ExtendChunkSize \in Nat
  BY ChunkBounds, ActionsAssumption
<1>2. b \in 1 .. ChunkCount /\ a + 1 \in 1 .. ChunkCount /\ (a + 1) - 1 = a /\ a <= b - 1 /\ a \in Int /\ b - 1 \in Int
  BY <1>1
<1>3. UpTo((a + 1) - 1) = ((a + 1) - 1) * ExtendChunkSize /\ UpTo((a + 1) - 1) \in Nat
  BY <1>2, ChunkBounds
<1>4. UpTo(b - 1) = (b - 1) * ExtendChunkSize /\ UpTo(b - 1) < UpTo(b) /\ UpTo(b) \in Nat /\ UpTo(b - 1) \in Nat
  BY <1>2, ChunkBounds
<1>5. a * ExtendChunkSize <= (b - 1) * ExtendChunkSize
  BY <1>1, <1>2, TimesKeepsOrder
<1> QED BY <1>2, <1>3, <1>4, <1>5

LEMMA ChunkAppended ==
  ASSUME NEW s \in Seq(Nat), NEW a \in Nat, NEW b \in Nat, a <= b, b <= Len(s)
  PROVE  SubSeq(s, 1, a) \o SubSeq(s, a + 1, b) = SubSeq(s, 1, b)
  OBVIOUS

LEMMA TableKept ==
  ASSUME OrderInv, TableInv, [ActionsNext]_actionVars
  PROVE  TableInv'
<1>1. ASSUME NEW op, NEW o, NEW t, AskAction(op, o, t)
      PROVE  TableInv'
  BY <1>1 DEF AskAction, TableInv, NoOrder
<1>2. ASSUME NEW was, FindFromSourceWithMint(was)
      PROVE  TableInv'
  <2>1. order' = [order EXCEPT !.pc = "found"] /\ order.pc = "asked" /\ table' = table /\ order \in OrdersBuilt
    BY <1>2 DEF FindFromSourceWithMint, OrderInv, OrdersTyped
  <2> QED BY <2>1 DEF TableInv, OrdersBuilt
<1>3. CASE Build
  <2>1. order.pc = "found" /\ table = NoTable /\ table' = table /\ order \in OrdersBuilt /\ OrdersTyped
    BY <1>3 DEF Build, TableInv, OrderInv, OrdersTyped
  <2>2. CASE Refuse
    BY <2>1, <2>2 DEF Refuse, TableInv, OrdersBuilt
  <2>3. CASE Answered(Single)
    <3>1. order'.pc = "answered" /\ order'.steps = Single
      BY <2>1, <2>3 DEF Answered, OrdersBuilt
    <3>2. Len(Single) = 1 /\ Single[1].addresses = <<>> /\ Single[1].step \in {"burn", "transfer"}
      BY <2>1 DEF Single, OrdersTyped, OrdersBuilt, Orders
    <3> QED BY <3>1, <3>2 DEF TableInv
  <2>4. CASE BurnCompressedNft /\ Answered(Fallback)
    <3>1. order'.pc = "answered" /\ order'.steps = Fallback
      BY <2>1, <2>4 DEF Answered, OrdersBuilt
    <3>2. order.op = "burn" /\ Route # "refused"
      BY <2>4 DEF BurnCompressedNft
    <3>3. FallbackSteps(Fallback) /\ \A k \in DOMAIN Fallback : Fallback[k].step = StepOf(k)
      BY <2>1, <3>2, FallbackBuilt
    <3>4. DOMAIN Fallback = 1 .. (ChunkCount + 2) /\ 0 \in 0 .. (ChunkCount + 1)
      BY <2>1, <3>2, <3>3, FallbackBuilt, ChunkBounds DEF FallbackSteps
    <3>5. LandedUpTo(Fallback, table, 0)
      <4>1. ASSUME NEW k \in 1 .. (ChunkCount + 2) PROVE ~(k <= 0)
        BY ChunkBounds
      <4> QED BY <2>1, <3>3, <3>4, <4>1 DEF LandedUpTo
    <3> QED BY <2>1, <3>1, <3>3, <3>4, <3>5 DEF TableInv
  <2> QED BY <1>3, <2>2, <2>3, <2>4
          DEF Build, Unsupported, BurnMasterEdition, BurnEditions, BurnProgrammableNft, BurnCompressedNft, TransferNft,
              TransferCompressedNft
<1>4. ASSUME NEW i \in DOMAIN order.steps, LandTableStep(i)
      PROVE  TableInv'
  <2> DEFINE steps == [order.steps EXCEPT ![i].step = "landed"]
             K == ChunkCount
  <2>1. order' = [order EXCEPT !.steps = steps] /\ order.pc = "answered"
    BY <1>4 DEF LandTableStep, Landed
  <2>2. order.steps \in Seq(StepsBuilt) /\ order \in OrdersBuilt /\ K \in Nat
    BY ChunkBounds DEF OrderInv, OrdersTyped, OrdersBuilt
  <2>3. order.steps[i].step \in {"lookup_table_create", "lookup_table_extend"}
    BY <1>4 DEF LandTableStep
  <2>4. i \in 1 .. Len(order.steps)
    BY <2>2
  <2>5. FallbackSteps(order.steps)
    BY <2>1, <2>3, <2>4 DEF TableInv
  <2>6. PICK n \in 0 .. (K + 1) : LandedUpTo(order.steps, table, n)
    BY <2>1, <2>3, <2>4 DEF TableInv
  <2>7. /\ Len(steps) = Len(order.steps)
        /\ \A k \in 1 .. (K + 2) : steps[k].step = (IF k = i THEN "landed" ELSE order.steps[k].step)
        /\ \A k \in 1 .. (K + 2) : steps[k].expected = order.steps[k].expected
        /\ \A k \in 1 .. (K + 2) : steps[k].addresses = order.steps[k].addresses
    <3>1. Len(order.steps) = K + 2 /\ DOMAIN order.steps = 1 .. (K + 2)
      BY <2>2, <2>5 DEF FallbackSteps
    <3>2. Len(steps) = Len(order.steps)
      BY <2>2
    <3>3. ASSUME NEW k \in 1 .. (K + 2)
          PROVE  steps[k] = (IF k = i THEN [order.steps[k] EXCEPT !.step = "landed"] ELSE order.steps[k])
                 /\ order.steps[k] \in StepsBuilt
      BY <2>2, <3>1
    <3> HIDE DEF steps
    <3>4. ASSUME NEW k \in 1 .. (K + 2)
          PROVE  /\ steps[k].step = (IF k = i THEN "landed" ELSE order.steps[k].step)
                 /\ steps[k].expected = order.steps[k].expected /\ steps[k].addresses = order.steps[k].addresses
      BY <3>3 DEF StepsBuilt
    <3> QED BY <3>2, <3>4
  <2> HIDE DEF steps, K
  <2>8. order'.steps = steps /\ order'.pc = "answered"
    BY <2>1, <2>2 DEF OrdersBuilt
  <2>9. FallbackSteps(steps)
    <3>1. \A k \in 1 .. (K + 1) : k \in 1 .. (K + 2)
      BY <2>2
    <3>2. \A k \in 1 .. K : k + 1 \in 1 .. (K + 2)
      BY <2>2
    <3>3. K + 2 \in 1 .. (K + 2)
      BY <2>2
    <3>4. \A k \in 1 .. K : steps[k + 1].addresses = SubSeq(Addresses, UpTo(k - 1) + 1, UpTo(k))
      <4> SUFFICES ASSUME NEW k \in 1 .. K
                   PROVE  steps[k + 1].addresses = SubSeq(Addresses, UpTo(k - 1) + 1, UpTo(k))
        OBVIOUS
      <4>1. order.steps[k + 1].addresses = SubSeq(Addresses, UpTo(k - 1) + 1, UpTo(k))
        BY <2>5, Zenon DEF FallbackSteps, K
      <4>2. k + 1 \in 1 .. (K + 2)
        BY <3>2
      <4> QED BY <2>7, <4>1, <4>2
    <3> QED BY <2>5, <2>7, <3>1, <3>3, <3>4 DEF FallbackSteps, K
  <2>10. i \in 1 .. (K + 2) /\ n < i /\ StepOf(i) = order.steps[i].step
    <3>1. i \in 1 .. (K + 2)
      BY <2>4, <2>5 DEF FallbackSteps, K
    <3>2. order.steps[i].step = IF i <= n THEN "landed" ELSE StepOf(i)
      BY <2>6, <3>1 DEF LandedUpTo, K
    <3>3. ~(i <= n)
      BY <2>3, <3>2
    <3> QED BY <3>1, <3>2, <3>3
  <2>11. ASSUME n = i - 1, table' = SubSeq(Addresses, 1, UpTo(i - 1))
         PROVE  LandedUpTo(steps, table', i)
    <3>1. ASSUME NEW k \in 1 .. (K + 2) PROVE steps[k].step = IF k <= i THEN "landed" ELSE StepOf(k)
      <4>1. order.steps[k].step = IF k <= n THEN "landed" ELSE StepOf(k)
        BY <2>6 DEF LandedUpTo, K
      <4>2. steps[k].step = IF k = i THEN "landed" ELSE order.steps[k].step
        BY <2>7
      <4>3. k <= i <=> k <= n \/ k = i
        BY <2>2, <2>10, <2>11
      <4> QED BY <4>1, <4>2, <4>3
    <3>2. i # 0
      BY <2>10
    <3> QED BY <2>11, <3>1, <3>2 DEF LandedUpTo, K
  <2>12. CASE order.steps[i].step = "lookup_table_create"
    <3>1. table' = <<>>
      BY <1>4, <2>12 DEF LandTableStep
    <3>2. i = 1 /\ n = 0
      BY <2>2, <2>10, <2>12 DEF StepOf, K
    <3>3. SubSeq(Addresses, 1, UpTo(i - 1)) = <<>>
      BY <3>2, ChunkBounds, ActionsAssumption
    <3>4. LandedUpTo(steps, table', i)
      <4>1. n = i - 1
        BY <3>2
      <4> QED BY <2>11, <3>1, <3>3, <4>1
    <3>5. i \in 0 .. (ChunkCount + 1)
      BY <2>2, <3>2 DEF K
    <3> QED BY <2>8, <2>9, <3>4, <3>5 DEF TableInv
  <2>13. CASE order.steps[i].step = "lookup_table_extend"
    <3>1. i \in 2 .. (K + 1)
      BY <2>2, <2>10, <2>13 DEF StepOf, K
    <3>2. /\ table # NoTable /\ Len(table) >= order.steps[i - 1].expected
          /\ table' = table \o order.steps[i].addresses
      BY <1>4, <2>13, <3>1 DEF LandTableStep
    <3>3. n # 0 /\ table = SubSeq(Addresses, 1, UpTo(n - 1))
      BY <2>6, <3>2 DEF LandedUpTo
    <3>4. order.steps[i - 1].expected = UpTo((i - 1) - 1)
      <4>1. i - 1 \in 1 .. (K + 1)
        BY <2>2, <3>1
      <4> QED BY <2>5, <4>1 DEF FallbackSteps, K
    <3>5. order.steps[(i - 1) + 1].addresses = SubSeq(Addresses, UpTo((i - 1) - 1) + 1, UpTo(i - 1))
      BY <2>2, <2>5, <3>1 DEF FallbackSteps, K
    <3>6. n - 1 \in 0 .. K /\ (i - 1) - 1 \in 0 .. K /\ (i - 1) - 1 = i - 2 /\ (i - 1) + 1 = i /\ i - 1 \in 1 .. K
      BY <2>2, <2>10, <3>1, <3>3
    <3>7. Len(table) = UpTo(n - 1)
      <4>1. UpTo(n - 1) \in Nat /\ UpTo(n - 1) <= Len(Addresses)
        <5>1. CASE n - 1 = 0
          <6>1. UpTo(0) = 0 /\ Len(Addresses) \in Nat
            BY ChunkBounds, ActionsAssumption
          <6> QED BY <5>1, <6>1
        <5>2. CASE n - 1 \in 1 .. ChunkCount
          BY <5>2, ChunkBounds
        <5>3. n - 1 = 0 \/ n - 1 \in 1 .. ChunkCount
          <6>1. ChunkCount \in Nat
            BY ChunkBounds
          <6> QED BY <3>6, <6>1 DEF K
        <5> QED BY <5>1, <5>2, <5>3
      <4> QED BY <3>3, <4>1, ActionsAssumption
    <3>8. n = i - 1
      <4>1. UpTo(n - 1) >= UpTo(i - 2)
        BY <3>2, <3>4, <3>6, <3>7
      <4>2. n - 1 < i - 2 => UpTo(n - 1) \in Nat /\ UpTo(i - 2) \in Nat /\ UpTo(n - 1) < UpTo(i - 2)
        BY <3>6, UpToGrows DEF K
      <4> QED BY <2>10, <3>1, <3>6, <4>1, <4>2
    <3>9. table' = SubSeq(Addresses, 1, UpTo(i - 1))
      <4>1. /\ UpTo((i - 1) - 1) < UpTo(i - 1) /\ UpTo((i - 1) - 1) \in Nat /\ UpTo(i - 1) \in Nat
            /\ UpTo(i - 1) <= Len(Addresses)
        BY <3>6, ChunkBounds DEF K
      <4>2. table' = SubSeq(Addresses, 1, UpTo((i - 1) - 1)) \o SubSeq(Addresses, UpTo((i - 1) - 1) + 1, UpTo(i - 1))
        BY <3>2, <3>3, <3>5, <3>6, <3>8
      <4>3. Addresses \in Seq(Nat)
        BY ActionsAssumption
      <4>4. UpTo((i - 1) - 1) <= UpTo(i - 1)
        BY <4>1
      <4> QED BY <4>1, <4>2, <4>3, <4>4, ChunkAppended
    <3>10. LandedUpTo(steps, table', i)
      BY <2>11, <3>8, <3>9
    <3>11. i \in 0 .. (ChunkCount + 1)
      BY <2>2, <3>1 DEF K
    <3> QED BY <2>8, <2>9, <3>10, <3>11 DEF TableInv
  <2> QED BY <2>3, <2>12, <2>13
<1>5. ASSUME NEW i \in DOMAIN order.steps, SendLast(i)
      PROVE  TableInv'
  <2> DEFINE step == order.steps[i]
             K == ChunkCount
  <2>1. /\ order.pc = "answered" /\ i = Len(order.steps) /\ order \in OrdersBuilt
        /\ i > 1 => Len(table) >= order.steps[i - 1].expected /\ table # NoTable
        /\ Resolves(step) => order' = [order EXCEPT !.pc = "done"] \/ order' = [order EXCEPT !.pc = "failed"]
    BY <1>5 DEF SendLast, OrderInv, OrdersTyped
  <2>2. Resolves(step)
    <3>1. CASE Len(order.steps) = 1 /\ order.steps[1].addresses = <<>>
      BY <2>1, <3>1 DEF Resolves
    <3>2. CASE FallbackSteps(order.steps) /\ \E n \in 0 .. (K + 1) : LandedUpTo(order.steps, table, n)
      <4>1. K \in Nat /\ i = K + 2 /\ step.addresses = Addresses
        BY <2>1, <3>2, ChunkBounds DEF FallbackSteps
      <4>2. PICK n \in 0 .. (K + 1) : LandedUpTo(order.steps, table, n)
        BY <3>2
      <4>3. order.steps[K + 1].expected = UpTo((K + 1) - 1)
        BY <3>2, <4>1 DEF FallbackSteps
      <4>4. i > 1 /\ i - 1 = K + 1 /\ (K + 1) - 1 = K
        BY <4>1
      <4>5. Len(table) >= UpTo(K) /\ table # NoTable
        BY <2>1, <4>3, <4>4
      <4>6. n # 0 /\ table = SubSeq(Addresses, 1, UpTo(n - 1))
        BY <4>2, <4>5 DEF LandedUpTo
      <4> HIDE DEF K, step
      <4>7. n - 1 \in 0 .. K /\ K \in 0 .. K
        BY <4>1, <4>6
      <4>8. Len(table) = UpTo(n - 1)
        <5>1. UpTo(n - 1) \in Nat /\ UpTo(n - 1) <= Len(Addresses)
          BY <4>7, ChunkBounds, ActionsAssumption DEF K
        <5> QED BY <4>6, <5>1, ActionsAssumption
      <4>9. n - 1 = K
        <5>1. n - 1 < K => UpTo(n - 1) \in Nat /\ UpTo(K) \in Nat /\ UpTo(n - 1) < UpTo(K)
          BY <4>7, UpToGrows DEF K
        <5> QED BY <4>1, <4>5, <4>7, <4>8, <5>1
      <4>10. table = Addresses
        <5>1. UpTo(K) = Len(Addresses)
          BY ChunkBounds DEF K
        <5> QED BY <4>6, <4>9, <5>1, ActionsAssumption
      <4> QED BY <4>1, <4>10 DEF Resolves
    <3> QED BY <2>1, <3>1, <3>2 DEF TableInv
  <2> QED BY <2>1, <2>2 DEF TableInv, OrdersBuilt
<1>6. ASSUME NEW p, HandOver(p)
      PROVE  TableInv'
  BY <1>6 DEF HandOver, TableInv, FallbackSteps, LandedUpTo
<1>7. CASE UNCHANGED actionVars
  BY <1>7 DEF actionVars, TableInv, FallbackSteps, LandedUpTo
<1> QED BY <1>1, <1>2, <1>3, <1>4, <1>5, <1>6, <1>7 DEF ActionsNext

(* An order of a wallet: none, unless that is what it asks for.            *)
ActionsServed == IF service = "nft actions" THEN OrderInv /\ TableInv ELSE order = NoOrder

LEMMA NoTableIsOne == NoTable \in Seq(Nat)
  BY DEF NoTable

LEMMA ActionsServedAlways == ServicesSpec => []ActionsServed
<1>1. ServicesInit => ActionsServed
  <2> SUFFICES ASSUME ServicesInit, service = "nft actions" PROVE OrderInv /\ TableInv
    BY DEF ServicesInit, AssetsOf, ActionsServed
  <2>1. /\ kind \in Kinds /\ holder \in People /\ handovers = 0 /\ order = NoOrder /\ table = NoTable
        /\ seen = [owner |-> Nobody, interface |-> "none", isOriginal |-> "none"]
    BY DEF ServicesInit, ActionsInit, AssetsOf
  <2>2. order \in OrdersBuilt /\ order.pc = "idle"
    <3>1. <<>> \in Seq(StepsBuilt)
      BY EmptySeq, Zenon
    <3> QED BY <2>1, <3>1 DEF OrdersBuilt, NoOrder, OrderStates, Orders, Parties
  <2>3. OrdersTyped
    <3>1. NoTable \in Seq(Nat)
      BY NoTableIsOne
    <3> QED BY <2>1, <2>2, <3>1 DEF OrdersTyped, Parties, Interfaces
  <2> QED BY <2>1, <2>2, <2>3 DEF OrderInv, SeenTrue, LastFits, StaysPut, NeverFailsAlone, TableInv
<1>2. ActionsServed /\ [ServicesNext]_serviceVars => ActionsServed'
  <2> SUFFICES ASSUME ActionsServed, [ServicesNext]_serviceVars PROVE ActionsServed'
    OBVIOUS
  <2>1. service' = service
    BY DEF ServicesNext, serviceVars
  <2>2. CASE NftAction
    <3>1. OrderInv /\ TableInv /\ ActionsNext
      BY <2>2 DEF NftAction, ActionsServed
    <3>2. OrderInv' /\ TableInv'
      BY <3>1, OrderKept, TableKept
    <3> QED BY <2>1, <2>2, <3>2 DEF NftAction, ActionsServed
  <2>3. CASE UNCHANGED actionVars
    <3>1. CASE service = "nft actions"
      <4>1. OrderInv' /\ TableInv'
        BY <2>3, <3>1, OrderKept, TableKept DEF ActionsServed
      <4> QED BY <2>1, <3>1, <4>1 DEF ActionsServed
    <3>2. CASE service # "nft actions"
      BY <2>1, <2>3, <3>2 DEF ActionsServed, actionVars, NoOrder
    <3> QED BY <3>1, <3>2
  <2> QED BY <2>2, <2>3
          DEF ServicesNext, serviceVars, Transactions, SkrStake, Staking, Nfts, Events, Bitcoin, Balance
<1> QED BY <1>1, <1>2, PTL DEF ServicesSpec

(* A burn that was given a lookup table finds every address of it there,   *)
(* at its place, however long its list and however large the chunks        *)
(* (createLookupTableFallbackTransactions).                                *)
THEOREM TableHolds == ServicesSpec => []TableAsBuilt
<1>1. ActionsServed => TableAsBuilt
  <2>1. order = NoOrder => order.pc = "idle"
    BY DEF NoOrder
  <2> QED BY <2>1 DEF ActionsServed, TableInv, TableAsBuilt
<1> QED BY <1>1, ActionsServedAlways, PTL

(* A burn or a transfer that was built does what was asked when it lands,  *)
(* whatever the asset is and whatever the index says of it, unless the     *)
(* asset changed hands since or a print was burnt for one who does not     *)
(* hold it (createBurnTransaction, createTransferTransaction).             *)
THEOREM DoesWhatWasAsked == ServicesSpec => []BuiltDoesWhatWasAsked
<1>1. ActionsServed => BuiltDoesWhatWasAsked
  <2> SUFFICES ASSUME ActionsServed, order.pc = "failed" PROVE BuiltDoesWhatWasAsked
    BY DEF BuiltDoesWhatWasAsked
  <2>1. OrderInv
    <3>1. NoOrder.pc = "idle"
      BY DEF NoOrder
    <3> QED BY <3>1 DEF ActionsServed
  <2> QED BY <2>1 DEF OrderInv, LastFits, NeverFailsAlone, BuiltDoesWhatWasAsked
<1> QED BY <1>1, ActionsServedAlways, PTL

-----------------------------------------------------------------------------
(* The native stake accounts.                                              *)

Epochs == Nat \cup {NoEpoch}
Delegations == [state : {"inactive", "activating", "active", "deactivating"}, activationEpoch : Epochs,
                deactivationEpoch : Epochs, earns : BOOLEAN]
MapsTo(T) == UNION {[D -> T] : D \in SUBSET Stakes}
StakeLists == [pc : {"idle", "reading", "rewards", "replied"}, read : SUBSET {"staker", "withdrawer", "epoch"},
               epoch : Nat, account : MapsTo(Delegations), seenAt : MapsTo(Nat), next : Int,
               rewards : SUBSET (Stakes \X Int), paid : SUBSET (Stakes \X Int)]

StakesTyped ==
  /\ epoch \in Nat /\ delegation \in [Stakes -> Delegations]
  /\ due \subseteq Stakes \X Int /\ paid \subseteq due
  /\ stakeList \in StakeLists /\ DOMAIN stakeList.seenAt = DOMAIN stakeList.account

(* What the epochs of a delegation say of its state in an epoch.           *)
StandsIn(d, e) ==
  /\ d.state = "inactive" =>
       ~d.earns /\ (d.activationEpoch = NoEpoch <=> d.deactivationEpoch = NoEpoch)
       /\ (d.deactivationEpoch # NoEpoch => d.deactivationEpoch < e \/ (d.deactivationEpoch = e /\ d.activationEpoch = e))
  /\ d.state = "activating" =>
       /\ d.activationEpoch # NoEpoch /\ d.deactivationEpoch = NoEpoch
       /\ IF d.earns THEN d.activationEpoch < e ELSE d.activationEpoch = e
  /\ d.state = "active" =>
       d.earns /\ d.activationEpoch # NoEpoch /\ d.activationEpoch < e /\ d.deactivationEpoch = NoEpoch
  /\ d.state = "deactivating" =>
       /\ d.earns /\ d.activationEpoch # NoEpoch /\ d.deactivationEpoch # NoEpoch
       /\ d.activationEpoch < e /\ d.deactivationEpoch <= e

(* What was never delegated earned nothing.                                *)
EarnedBy(d, a, rewards) == d.activationEpoch = NoEpoch => \A e \in Int : <<a, e>> \notin rewards

Delegated ==
  /\ \A a \in Stakes : StandsIn(delegation[a], epoch) /\ EarnedBy(delegation[a], a, due)
  /\ \A a \in Stakes, e \in Int : <<a, e>> \in due => e < epoch

(* What was read of an account is what it was when it was read.            *)
ReadTrue ==
  /\ stakeList.pc # "idle" => stakeList.paid \subseteq paid
  /\ \A a \in DOMAIN stakeList.account :
       /\ StandsIn(stakeList.account[a], stakeList.seenAt[a])
       /\ EarnedBy(stakeList.account[a], a, stakeList.paid)

(* An answer that was kept is right, or was given too early.               *)
KeptTrue ==
  \A k \in DOMAIN rewardCache : rewardCache[k] \in BOOLEAN /\ (IF rewardCache[k] THEN k \in paid ELSE k \in early)

(* The epochs that were asked for have their rewards.                      *)
Asked ==
  /\ stakeList.rewards \subseteq paid
  /\ stakeList.pc = "reading" =>
       stakeList.rewards = {} /\ ("epoch" \in stakeList.read => stakeList.next = stakeList.epoch - 1)
  /\ stakeList.pc \in {"rewards", "replied"} /\ stakeList.account # <<>> =>
       \A a \in DOMAIN stakeList.account, e \in (stakeList.next + 1) .. (stakeList.epoch - 1) :
         EarnedIn(stakeList.account[a], e) => <<a, e>> \in stakeList.rewards \cup early
  /\ stakeList.pc = "replied" /\ stakeList.account # <<>> => stakeList.next < stakeList.epoch - RewardEpochs

(* The inductive invariant of the stake accounts.                          *)
StakesInv == StakesTyped /\ Delegated /\ ReadTrue /\ KeptTrue /\ Asked

(* What a delegation is, from one step of the cluster to the next.         *)
LEMMA DelegatedKept ==
  ASSUME StakesTyped, Delegated, (\E a \in Stakes : Delegate(a) \/ Deactivate(a)) \/ NewEpoch
  PROVE  /\ Delegated' /\ delegation' \in [Stakes -> Delegations] /\ epoch' \in Nat
         /\ due \subseteq due' /\ due' \subseteq Stakes \X Int
<1> USE StakesAssumption
<1>0. epoch \in Nat /\ delegation \in [Stakes -> Delegations] /\ due \subseteq Stakes \X Int
  BY DEF StakesTyped
<1>1. ASSUME NEW a \in Stakes, Delegate(a)
      PROVE  /\ Delegated' /\ delegation' \in [Stakes -> Delegations] /\ epoch' \in Nat
             /\ due \subseteq due' /\ due' \subseteq Stakes \X Int
  <2> DEFINE d == [state |-> "activating", activationEpoch |-> epoch, deactivationEpoch |-> NoEpoch, earns |-> FALSE]
  <2>1. delegation' = [delegation EXCEPT ![a] = d] /\ epoch' = epoch /\ due' = due
    BY <1>1 DEF Delegate
  <2>2. d \in Delegations
    BY <1>0 DEF Delegations, Epochs
  <2>3. delegation' \in [Stakes -> Delegations] /\ \A b \in Stakes : delegation'[b] = IF b = a THEN d ELSE delegation[b]
    BY <1>0, <2>1, <2>2
  <2>4. StandsIn(d, epoch) /\ EarnedBy(d, a, due)
    BY <1>0 DEF StandsIn, EarnedBy, Delegated
  <2> HIDE DEF d
  <2>5. \A b \in Stakes : StandsIn(delegation'[b], epoch') /\ EarnedBy(delegation'[b], b, due')
    BY <2>1, <2>3, <2>4 DEF Delegated
  <2> QED BY <1>0, <2>1, <2>3, <2>5 DEF Delegated
<1>2. ASSUME NEW a \in Stakes, Deactivate(a)
      PROVE  /\ Delegated' /\ delegation' \in [Stakes -> Delegations] /\ epoch' \in Nat
             /\ due \subseteq due' /\ due' \subseteq Stakes \X Int
  <2> DEFINE d == [delegation[a] EXCEPT !.state = IF delegation[a].earns THEN "deactivating" ELSE "inactive",
                                        !.deactivationEpoch = epoch]
  <2>1. delegation' = [delegation EXCEPT ![a] = d] /\ epoch' = epoch /\ due' = due
        /\ delegation[a].state \in {"activating", "active"}
    BY <1>0, <1>2 DEF Deactivate
  <2>2. d \in Delegations /\ delegation[a] \in Delegations
    BY <1>0 DEF Delegations, Epochs
  <2>3. delegation' \in [Stakes -> Delegations] /\ \A b \in Stakes : delegation'[b] = IF b = a THEN d ELSE delegation[b]
    BY <1>0, <2>1, <2>2
  <2>4. StandsIn(delegation[a], epoch) /\ EarnedBy(delegation[a], a, due) /\ \A e \in Int : <<a, e>> \in due => e < epoch
    BY DEF Delegated
  <2>5. /\ d.state = IF delegation[a].earns THEN "deactivating" ELSE "inactive"
        /\ d.deactivationEpoch = epoch /\ d.earns = delegation[a].earns
        /\ d.activationEpoch = delegation[a].activationEpoch
    BY <2>2 DEF Delegations
  <2> HIDE DEF d
  <2>6. StandsIn(d, epoch)
    BY <1>0, <2>1, <2>2, <2>4, <2>5 DEF StandsIn, Delegations, Epochs
  <2>7. EarnedBy(d, a, due)
    BY <1>0, <2>4, <2>5 DEF EarnedBy
  <2>8. \A b \in Stakes : StandsIn(delegation'[b], epoch') /\ EarnedBy(delegation'[b], b, due')
    BY <2>1, <2>3, <2>6, <2>7 DEF Delegated
  <2> QED BY <1>0, <2>1, <2>3, <2>8 DEF Delegated
<1>3. CASE NewEpoch
  <2>1. PICK slow \in SUBSET Stakes :
          /\ epoch' = epoch + 1 /\ due' = due \cup {<<a, epoch>> : a \in {b \in Stakes : delegation[b].earns}}
          /\ delegation' = [a \in Stakes |-> AtNextEpoch(delegation[a], a \in slow)]
    BY <1>3 DEF NewEpoch
  <2>2. ASSUME NEW a \in Stakes
        PROVE  /\ AtNextEpoch(delegation[a], a \in slow) \in Delegations
               /\ StandsIn(AtNextEpoch(delegation[a], a \in slow), epoch + 1)
               /\ EarnedBy(AtNextEpoch(delegation[a], a \in slow), a, due')
    <3> DEFINE d == delegation[a]
               n == AtNextEpoch(d, a \in slow)
    <3>1. d \in Delegations /\ StandsIn(d, epoch) /\ EarnedBy(d, a, due)
      BY <1>0 DEF Delegated
    <3>2. \A e \in Int : <<a, e>> \in due' => <<a, e>> \in due \/ (e = epoch /\ d.earns)
      BY <2>1
    <3> HIDE DEF d
    <3>3. d.activationEpoch = NoEpoch => ~d.earns
      BY <3>1 DEF StandsIn, Delegations
    <3>4. CASE d.state = "activating"
      <4>1. n = [d EXCEPT !.state = IF a \in slow THEN @ ELSE "active", !.earns = TRUE]
        BY <3>4 DEF AtNextEpoch
      <4>2. /\ n.state \in {"activating", "active"} /\ n.earns = TRUE /\ n.activationEpoch = d.activationEpoch
            /\ n.deactivationEpoch = d.deactivationEpoch /\ n \in Delegations
        <5>1. CASE a \in slow
          BY <3>1, <3>4, <4>1, <5>1 DEF Delegations
        <5>2. CASE a \notin slow
          BY <3>1, <3>4, <4>1, <5>2 DEF Delegations
        <5> QED BY <5>1, <5>2
      <4> HIDE DEF n
      <4>3. d.activationEpoch # NoEpoch /\ d.activationEpoch \in Nat /\ d.activationEpoch < epoch + 1
            /\ d.deactivationEpoch = NoEpoch
        BY <1>0, <3>1, <3>4 DEF StandsIn, Delegations, Epochs
      <4>4. StandsIn(n, epoch + 1)
        BY <1>0, <4>2, <4>3 DEF StandsIn
      <4>5. EarnedBy(n, a, due')
        BY <4>2, <4>3 DEF EarnedBy
      <4> QED BY <4>2, <4>4, <4>5 DEF d, n
    <3>5. CASE d.state = "deactivating" /\ a \notin slow
      <4>1. n = [d EXCEPT !.state = "inactive", !.earns = FALSE]
        BY <3>5 DEF AtNextEpoch
      <4>2. /\ n.state = "inactive" /\ n.earns = FALSE /\ n.activationEpoch = d.activationEpoch
            /\ n.deactivationEpoch = d.deactivationEpoch /\ n \in Delegations
        BY <3>1, <4>1 DEF Delegations
      <4> HIDE DEF n
      <4>3. d.activationEpoch # NoEpoch /\ d.deactivationEpoch # NoEpoch /\ d.deactivationEpoch \in Nat
            /\ d.deactivationEpoch < epoch + 1
        BY <1>0, <3>1, <3>5 DEF StandsIn, Delegations, Epochs
      <4>4. StandsIn(n, epoch + 1)
        BY <1>0, <4>2, <4>3 DEF StandsIn
      <4>5. EarnedBy(n, a, due')
        BY <4>2, <4>3 DEF EarnedBy
      <4> QED BY <4>2, <4>4, <4>5 DEF d, n
    <3>6. CASE d.state \in {"active", "inactive"} \/ (d.state = "deactivating" /\ a \in slow)
      <4>1. n = d
        BY <3>6 DEF AtNextEpoch
      <4> HIDE DEF n
      <4>2. StandsIn(d, epoch + 1)
        BY <1>0, <3>1, <3>6 DEF StandsIn, Delegations, Epochs
      <4>3. EarnedBy(d, a, due')
        BY <3>1, <3>2, <3>3 DEF EarnedBy
      <4> QED BY <3>1, <4>1, <4>2, <4>3 DEF d, n
    <3> QED BY <3>1, <3>4, <3>5, <3>6 DEF Delegations
  <2>3. delegation' \in [Stakes -> Delegations]
    BY <2>1, <2>2
  <2>4. due \subseteq due' /\ due' \subseteq Stakes \X Int /\ epoch' \in Nat
    BY <1>0, <2>1
  <2>5. \A a \in Stakes, e \in Int : <<a, e>> \in due' => e < epoch'
    BY <1>0, <2>1 DEF Delegated
  <2> QED BY <2>1, <2>2, <2>3, <2>4, <2>5 DEF Delegated
<1> QED BY <1>1, <1>2, <1>3

(* The cluster's steps leave the list as it is, and only add rewards.      *)
LEMMA ClusterKeeps ==
  ASSUME StakesInv, (\E a \in Stakes : Delegate(a) \/ Deactivate(a)) \/ NewEpoch \/ Distribute
  PROVE  StakesInv'
<1>1. /\ Delegated' /\ delegation' \in [Stakes -> Delegations] /\ epoch' \in Nat
      /\ due' \subseteq Stakes \X Int /\ paid' \subseteq due' /\ paid \subseteq paid'
      /\ UNCHANGED <<stakeList, rewardCache, early>>
  <2>1. CASE (\E a \in Stakes : Delegate(a) \/ Deactivate(a)) \/ NewEpoch
    <3>1. /\ Delegated' /\ delegation' \in [Stakes -> Delegations] /\ epoch' \in Nat
          /\ due \subseteq due' /\ due' \subseteq Stakes \X Int
      BY <2>1, DelegatedKept DEF StakesInv
    <3> QED BY <2>1, <3>1 DEF Delegate, Deactivate, NewEpoch, StakesInv, StakesTyped
  <2>2. CASE Distribute
    BY <2>2 DEF Distribute, StakesInv, StakesTyped, Delegated
  <2> QED BY <2>1, <2>2
<1>2. StakesTyped'
  BY <1>1 DEF StakesInv, StakesTyped
<1>3. ReadTrue'
  BY <1>1 DEF StakesInv, ReadTrue
<1>4. KeptTrue'
  BY <1>1 DEF StakesInv, KeptTrue
<1>5. Asked'
  BY <1>1 DEF StakesInv, Asked
<1> QED BY <1>1, <1>2, <1>3, <1>4, <1>5 DEF StakesInv

LEMMA EmptyIsMap ==
  ASSUME NEW T
  PROVE  DOMAIN <<>> = {} /\ <<>> \in MapsTo(T)
<1>1. <<>> \in [{} -> T] /\ {} \in SUBSET Stakes
  OBVIOUS
<1> QED BY <1>1 DEF MapsTo

(* Each step of the request keeps the invariant.                           *)
LEMMA ListKept ==
  ASSUME StakesInv, ListStakeAccounts
  PROVE  StakesInv'
<1> USE StakesAssumption
<1>0. UNCHANGED <<epoch, delegation, due, paid>> /\ stakeList \in StakeLists
  BY DEF ListStakeAccounts, StakesInv, StakesTyped
<1>1. Delegated'
  BY <1>0 DEF StakesInv, Delegated
<1>2. ASSUME stakeList' \in StakeLists, DOMAIN stakeList'.seenAt = DOMAIN stakeList'.account
      PROVE  StakesTyped'
  BY <1>0, <1>2 DEF StakesInv, StakesTyped
<1>3. ASSUME UNCHANGED <<rewardCache, early>>
      PROVE  KeptTrue'
  BY <1>0, <1>3 DEF StakesInv, KeptTrue
<1>4. \E D \in SUBSET Stakes : stakeList.account \in [D -> Delegations] /\ stakeList.seenAt \in [D -> Nat]
  BY <1>0 DEF StakeLists, StakesInv, StakesTyped, MapsTo
<1>5. ASSUME NEW p \in {"idle", "reading"}, NEW before \in SUBSET (Stakes \X Int), before \subseteq paid,
             stakeList' = [pc |-> p, read |-> {}, epoch |-> 0, account |-> <<>>, seenAt |-> <<>>, next |-> 0,
                           rewards |-> {}, paid |-> before],
             UNCHANGED <<rewardCache, early>>
      PROVE  StakesInv'
  <2>1. /\ stakeList'.pc = p /\ stakeList'.paid = before /\ stakeList'.read = {} /\ stakeList'.rewards = {}
        /\ stakeList'.account = <<>> /\ stakeList'.seenAt = <<>>
    BY <1>5
  <2>2. stakeList' \in StakeLists
    <3>1. <<>> \in MapsTo(Delegations) /\ <<>> \in MapsTo(Nat)
      BY EmptyIsMap
    <3> QED BY <1>5, <3>1 DEF StakeLists
  <2>3. DOMAIN stakeList'.account = {}
    BY <2>1, EmptyIsMap
  <2>4. ReadTrue'
    BY <1>0, <1>5, <2>1, <2>3 DEF ReadTrue
  <2>5. Asked'
    BY <1>0, <1>5, <2>1 DEF Asked
  <2> QED BY <1>1, <1>2, <1>3, <1>5, <2>1, <2>2, <2>4, <2>5 DEF StakesInv
<1>6. CASE AskStakes
  <2>1. /\ stakeList' = [pc |-> "reading", read |-> {}, epoch |-> 0, account |-> <<>>, seenAt |-> <<>>, next |-> 0,
                           rewards |-> {}, paid |-> paid]
        /\ UNCHANGED <<rewardCache, early>>
    BY <1>6 DEF AskStakes, NoList
  <2>2. paid \in SUBSET (Stakes \X Int)
    BY DEF StakesInv, StakesTyped
  <2> QED BY <1>5, <2>1, <2>2
<1>7. CASE StakesOver
  BY <1>5, <1>7 DEF StakesOver, NoList
<1>8. ASSUME NEW authority \in {"staker", "withdrawer"}, ListByAuthority(authority)
      PROVE  StakesInv'
  <2> DEFINE listed == {a \in Stakes : authority \in Authorities[a]}
             known  == DOMAIN stakeList.account
             taken  == IF authority = "withdrawer" THEN listed ELSE listed \ known
             accounts == [a \in known \cup taken |-> IF a \in taken THEN delegation[a] ELSE stakeList.account[a]]
             seens    == [a \in known \cup taken |-> IF a \in taken THEN epoch ELSE stakeList.seenAt[a]]
  <2>1. /\ stakeList.pc = "reading" /\ UNCHANGED <<rewardCache, early>>
        /\ stakeList' = [stakeList EXCEPT !.read = @ \cup {authority}, !.account = accounts, !.seenAt = seens]
    BY <1>8 DEF ListByAuthority
  <2>2. taken \subseteq Stakes
    OBVIOUS
  <2> HIDE DEF taken
  <2>3. PICK D \in SUBSET Stakes : stakeList.account \in [D -> Delegations] /\ stakeList.seenAt \in [D -> Nat]
    BY <1>4
  <2>4. delegation \in [Stakes -> Delegations] /\ epoch \in Nat
    BY DEF StakesInv, StakesTyped
  <2>5. accounts \in [known \cup taken -> Delegations] /\ seens \in [known \cup taken -> Nat]
        /\ known \cup taken \in SUBSET Stakes
    BY <2>2, <2>3, <2>4
  <2>6. ASSUME NEW a \in known \cup taken
        PROVE  StandsIn(accounts[a], seens[a]) /\ EarnedBy(accounts[a], a, stakeList.paid)
    <3>1. CASE a \in taken
      <4>1. accounts[a] = delegation[a] /\ seens[a] = epoch
        BY <3>1
      <4>2. StandsIn(delegation[a], epoch) /\ EarnedBy(delegation[a], a, due)
        BY <2>2, <3>1 DEF StakesInv, Delegated
      <4>3. stakeList.paid \subseteq due
        BY <2>1 DEF StakesInv, ReadTrue, StakesTyped
      <4>4. EarnedBy(delegation[a], a, stakeList.paid)
        BY <4>2, <4>3 DEF EarnedBy
      <4> QED BY <4>1, <4>2, <4>4
    <3>2. CASE a \notin taken
      <4>1. accounts[a] = stakeList.account[a] /\ seens[a] = stakeList.seenAt[a]
        BY <3>2
      <4> QED BY <3>2, <4>1 DEF StakesInv, ReadTrue
    <3> QED BY <3>1, <3>2
  <2> HIDE DEF accounts, seens
  <2>7. /\ stakeList'.account = accounts /\ stakeList'.seenAt = seens /\ stakeList'.paid = stakeList.paid
        /\ stakeList'.pc = "reading" /\ stakeList'.rewards = stakeList.rewards /\ stakeList'.next = stakeList.next
        /\ stakeList'.epoch = stakeList.epoch /\ stakeList'.read = stakeList.read \cup {authority}
    BY <1>0, <2>1 DEF StakeLists
  <2>8. stakeList' \in StakeLists
    <3>1. accounts \in MapsTo(Delegations) /\ seens \in MapsTo(Nat)
      BY <2>5 DEF MapsTo
    <3> QED BY <1>0, <2>1, <3>1 DEF StakeLists
  <2>9. DOMAIN accounts = known \cup taken /\ DOMAIN seens = known \cup taken
    BY <2>5
  <2>10. ReadTrue'
    BY <1>0, <2>1, <2>6, <2>7, <2>9 DEF StakesInv, ReadTrue
  <2>11. Asked'
    BY <1>0, <2>1, <2>7 DEF StakesInv, Asked
  <2> QED BY <1>1, <1>2, <1>3, <2>1, <2>7, <2>8, <2>9, <2>10, <2>11 DEF StakesInv
<1>9. CASE GetEpochInfo
  <2>1. /\ stakeList.pc = "reading" /\ UNCHANGED <<rewardCache, early>>
        /\ stakeList' = [stakeList EXCEPT !.read = @ \cup {"epoch"}, !.epoch = epoch, !.next = epoch - 1]
    BY <1>9 DEF GetEpochInfo
  <2>2. epoch \in Nat
    BY DEF StakesInv, StakesTyped
  <2>3. /\ stakeList' \in StakeLists /\ stakeList'.account = stakeList.account /\ stakeList'.seenAt = stakeList.seenAt
        /\ stakeList'.paid = stakeList.paid /\ stakeList'.pc = "reading" /\ stakeList'.rewards = stakeList.rewards
        /\ stakeList'.next = epoch - 1 /\ stakeList'.epoch = epoch
    <3>1. stakeList.read \cup {"epoch"} \in SUBSET {"staker", "withdrawer", "epoch"} /\ epoch - 1 \in Int
      BY <1>0, <2>2 DEF StakeLists
    <3> QED BY <1>0, <2>1, <2>2, <3>1 DEF StakeLists
  <2>4. ReadTrue'
    BY <1>0, <2>1, <2>3 DEF StakesInv, ReadTrue
  <2>5. Asked'
    BY <1>0, <2>1, <2>3 DEF StakesInv, Asked
  <2>6. DOMAIN stakeList'.seenAt = DOMAIN stakeList'.account
    BY <2>3 DEF StakesInv, StakesTyped
  <2> QED BY <1>1, <1>2, <1>3, <2>1, <2>3, <2>4, <2>5, <2>6 DEF StakesInv
<1>10. ASSUME NEW p \in {"rewards", "replied"}, stakeList' = [stakeList EXCEPT !.pc = p], stakeList.pc # "idle",
              UNCHANGED <<rewardCache, early>>, Asked'
       PROVE  StakesInv'
  <2>1. /\ stakeList' \in StakeLists /\ stakeList'.account = stakeList.account /\ stakeList'.seenAt = stakeList.seenAt
        /\ stakeList'.paid = stakeList.paid
    BY <1>0, <1>10 DEF StakeLists
  <2>2. ReadTrue'
    BY <1>0, <1>10, <2>1 DEF StakesInv, ReadTrue
  <2>3. DOMAIN stakeList'.seenAt = DOMAIN stakeList'.account
    BY <2>1 DEF StakesInv, StakesTyped
  <2> QED BY <1>1, <1>2, <1>3, <1>10, <2>1, <2>2, <2>3 DEF StakesInv
<1>11. CASE ListsRead
  <2> DEFINE p == IF stakeList.account = <<>> THEN "replied" ELSE "rewards"
  <2>1. /\ stakeList.pc = "reading" /\ "epoch" \in stakeList.read /\ UNCHANGED <<rewardCache, early>>
        /\ stakeList' = [stakeList EXCEPT !.pc = p] /\ p \in {"rewards", "replied"}
        /\ p = "replied" => stakeList.account = <<>>
    BY <1>11 DEF ListsRead
  <2> HIDE DEF p
  <2>2. /\ stakeList'.pc = p /\ stakeList'.account = stakeList.account /\ stakeList'.rewards = stakeList.rewards
        /\ stakeList'.next = stakeList.next /\ stakeList'.epoch = stakeList.epoch
        /\ stakeList.next \in Int /\ stakeList.epoch \in Nat
    BY <1>0, <2>1 DEF StakeLists
  <2>3. stakeList.next = stakeList.epoch - 1
    BY <2>1 DEF StakesInv, Asked
  <2>4. \A e \in (stakeList.next + 1) .. (stakeList.epoch - 1) : FALSE
    BY <2>2, <2>3
  <2>5. Asked'
    BY <1>0, <2>1, <2>2, <2>4 DEF StakesInv, Asked
  <2> QED BY <1>10, <2>1, <2>5
<1>12. CASE StakesReply
  <2>1. /\ stakeList.pc = "rewards" /\ UNCHANGED <<rewardCache, early>> /\ stakeList' = [stakeList EXCEPT !.pc = "replied"]
        /\ stakeList.next < stakeList.epoch - RewardEpochs
    BY <1>12 DEF StakesReply
  <2>2. /\ stakeList'.pc = "replied" /\ stakeList'.account = stakeList.account /\ stakeList'.rewards = stakeList.rewards
        /\ stakeList'.next = stakeList.next /\ stakeList'.epoch = stakeList.epoch
    BY <1>0, <2>1 DEF StakeLists
  <2>3. Asked'
    BY <1>0, <2>1, <2>2 DEF StakesInv, Asked
  <2> QED BY <1>10, <2>1, <2>3
<1>13. CASE GetInflationReward
  <2> DEFINE e       == stakeList.next
             earning == {a \in DOMAIN stakeList.account : EarnedIn(stakeList.account[a], e)}
             missing == {a \in earning : <<a, e>> \notin DOMAIN rewardCache}
             has(a)  == IF a \in missing THEN <<a, e>> \in paid ELSE rewardCache[<<a, e>>]
             more    == {<<a, e>> : a \in {b \in earning : has(b)}}
             asked   == {<<a, e>> : a \in missing}
  <2>1. /\ stakeList.pc = "rewards"
        /\ rewardCache' = [k \in DOMAIN rewardCache \cup asked |->
                              IF k \in DOMAIN rewardCache THEN rewardCache[k] ELSE k \in paid]
        /\ early' = early \cup (asked \ paid)
        /\ stakeList' = [stakeList EXCEPT !.next = e - 1, !.rewards = @ \cup more]
    BY <1>13 DEF GetInflationReward
  <2>2. KeptTrue
    BY DEF StakesInv
  <2>3. DOMAIN stakeList.account \subseteq Stakes /\ e \in Int /\ stakeList.epoch \in Nat
    BY <1>0, <1>4 DEF StakeLists
  <2>4. ASSUME NEW a \in earning
        PROVE  /\ <<a, e>> \in more => <<a, e>> \in paid
               /\ <<a, e>> \in more \cup early'
    <3>1. CASE a \in missing
      BY <2>1, <3>1
    <3>2. CASE a \notin missing
      <4>1. <<a, e>> \in DOMAIN rewardCache
        BY <3>2
      <4>2. rewardCache[<<a, e>>] \in BOOLEAN
            /\ (IF rewardCache[<<a, e>>] THEN <<a, e>> \in paid ELSE <<a, e>> \in early)
        BY <2>2, <4>1 DEF KeptTrue
      <4> QED BY <2>1, <3>2, <4>2
    <3> QED BY <3>1, <3>2
  <2>5. \A k \in more : \E a \in earning : k = <<a, e>>
    OBVIOUS
  <2>6. more \subseteq paid /\ more \subseteq Stakes \X Int
    <3>1. \A a \in earning : <<a, e>> \in Stakes \X Int
      BY <2>3
    <3> QED BY <2>4, <2>5, <3>1
  <2>7. KeptTrue'
    <3> SUFFICES ASSUME NEW k \in DOMAIN rewardCache'
                 PROVE  rewardCache'[k] \in BOOLEAN /\ (IF rewardCache'[k] THEN k \in paid' ELSE k \in early')
      BY DEF KeptTrue
    <3>1. CASE k \in DOMAIN rewardCache
      <4>1. rewardCache'[k] = rewardCache[k]
        BY <2>1, <3>1
      <4> QED BY <1>0, <2>1, <2>2, <3>1, <4>1 DEF KeptTrue
    <3>2. CASE k \notin DOMAIN rewardCache
      <4>1. k \in asked
        BY <2>1, <3>2
      <4>2. rewardCache'[k] = (k \in paid)
        BY <2>1, <3>2, <4>1
      <4>3. k \in paid \/ k \in early'
        BY <2>1, <4>1
      <4>4. paid' = paid
        BY <1>0
      <4>5. CASE k \in paid
        <5>1. rewardCache'[k] = TRUE
          BY <4>2, <4>5, Zenon
        <5> QED BY <4>4, <4>5, <5>1
      <4>6. CASE k \notin paid
        <5>0. (k \in paid) = FALSE
          BY <4>6
        <5>1. rewardCache'[k] = FALSE
          BY <4>2, <5>0
        <5> QED BY <4>3, <4>6, <5>1
      <4> QED BY <4>5, <4>6
    <3> QED BY <3>1, <3>2
  <2> HIDE DEF more, asked
  <2>8. /\ stakeList' \in StakeLists /\ stakeList'.account = stakeList.account /\ stakeList'.seenAt = stakeList.seenAt
        /\ stakeList'.paid = stakeList.paid /\ stakeList'.pc = "rewards" /\ stakeList'.epoch = stakeList.epoch
        /\ stakeList'.next = e - 1 /\ stakeList'.rewards = stakeList.rewards \cup more
    <3>1. stakeList.rewards \cup more \in SUBSET (Stakes \X Int) /\ e - 1 \in Int
      BY <1>0, <2>3, <2>6 DEF StakeLists
    <3> HIDE DEF e
    <3> QED BY <1>0, <2>1, <3>1 DEF StakeLists
  <2>9. ReadTrue'
    BY <1>0, <2>1, <2>8 DEF StakesInv, ReadTrue
  <2>10. DOMAIN stakeList'.seenAt = DOMAIN stakeList'.account
    BY <2>8 DEF StakesInv, StakesTyped
  <2>11. ASSUME stakeList.account # <<>>, NEW a \in DOMAIN stakeList.account,
                NEW f \in ((e - 1) + 1) .. (stakeList.epoch - 1), EarnedIn(stakeList.account[a], f)
         PROVE  <<a, f>> \in (stakeList.rewards \cup more) \cup early'
    <3>1. CASE f = e
      BY <2>4, <2>11, <3>1
    <3>2. CASE f # e
      <4>1. f \in (e + 1) .. (stakeList.epoch - 1)
        BY <2>3, <3>2
      <4>2. <<a, f>> \in stakeList.rewards \cup early
        BY <2>1, <2>11, <4>1 DEF StakesInv, Asked
      <4> QED BY <2>1, <4>2
    <3> QED BY <3>1, <3>2
  <2> HIDE DEF e, earning, missing
  <2>12. Asked'
    BY <1>0, <2>1, <2>6, <2>8, <2>11 DEF StakesInv, Asked
  <2> QED BY <1>1, <1>2, <2>7, <2>8, <2>9, <2>10, <2>12 DEF StakesInv
<1> QED BY <1>6, <1>7, <1>8, <1>9, <1>11, <1>12, <1>13 DEF ListStakeAccounts

LEMMA StakesInvAlways == ServicesSpec => []StakesInv
<1> USE StakesAssumption
<1>1. ServicesInit => StakesInv
  <2> SUFFICES ASSUME StakesInit PROVE StakesInv
    BY DEF ServicesInit
  <2>1. /\ epoch \in Nat /\ delegation = [a \in Stakes |-> Undelegated] /\ due = {} /\ paid = {}
        /\ rewardCache = <<>> /\ stakeList = NoList
    BY DEF StakesInit
  <2>2. Undelegated \in Delegations /\ NoEpoch \in Epochs
    BY DEF Undelegated, Delegations, Epochs
  <2>3. stakeList \in StakeLists
    <3>1. <<>> \in MapsTo(Delegations) /\ <<>> \in MapsTo(Nat)
      BY EmptyIsMap
    <3> QED BY <2>1, <3>1 DEF NoList, StakeLists
  <2>4. /\ stakeList.pc = "idle" /\ stakeList.paid = {} /\ stakeList.rewards = {}
        /\ stakeList.account = <<>> /\ stakeList.seenAt = <<>> /\ DOMAIN <<>> = {}
    BY <2>1, EmptyIsMap DEF NoList
  <2>5. StakesTyped
    BY <2>1, <2>2, <2>3, <2>4 DEF StakesTyped
  <2>6. Delegated
    BY <2>1 DEF Delegated, Undelegated, StandsIn, EarnedBy
  <2> QED BY <2>1, <2>4, <2>5, <2>6 DEF StakesInv, ReadTrue, KeptTrue, Asked
<1>2. StakesInv /\ [ServicesNext]_serviceVars => StakesInv'
  <2> SUFFICES ASSUME StakesInv, [ServicesNext]_serviceVars PROVE StakesInv'
    OBVIOUS
  <2>1. CASE Staking
    BY <2>1, ClusterKeeps, ListKept DEF Staking, StakesNext
  <2>2. CASE UNCHANGED stakeVars
    <3>1. StakesTyped' /\ Delegated'
      BY <2>2 DEF stakeVars, StakesInv, StakesTyped, Delegated
    <3> QED BY <2>2, <3>1 DEF stakeVars, StakesInv, ReadTrue, KeptTrue, Asked
  <2> QED BY <2>1, <2>2
          DEF ServicesNext, serviceVars, Transactions, SkrStake, Nfts, NftAction, Events, Bitcoin, Balance
<1> QED BY <1>1, <1>2, PTL DEF ServicesSpec

(* However many epochs pass between the reads of a request, however long   *)
(* the warm-up rate stretches a change, and whatever is in the cache: of   *)
(* an account that was read in the epoch of the request the state shown is *)
(* the cluster's, or done where the cluster is not done yet, or leaving    *)
(* where nothing had been active; no reward is shown that was not paid,    *)
(* and none up to the deactivation is missed but what was asked for too    *)
(* early (stakeState, rewardsFor).                                         *)
THEOREM StakesShown == ServicesSpec => []StakesAsOnChain
<1>1. StakesInv => StakesAsOnChain
  <2> SUFFICES ASSUME StakesInv, stakeList.pc = "replied" PROVE RewardsAsPaid /\ StateAsOnChain
    BY DEF StakesAsOnChain
  <2> USE StakesAssumption
  <2>1. /\ stakeList \in StakeLists /\ stakeList.epoch \in Nat /\ stakeList.next \in Int
        /\ \E D \in SUBSET Stakes : stakeList.account \in [D -> Delegations] /\ DOMAIN stakeList.account = D
    BY DEF StakesInv, StakesTyped, StakeLists, MapsTo
  <2>2. StateAsOnChain
    <3> SUFFICES ASSUME NEW a \in DOMAIN stakeList.account, stakeList.seenAt[a] = stakeList.epoch
                 PROVE  LET d     == stakeList.account[a]
                            shown == StakeState(d, stakeList.epoch)
                        IN  \/ shown = d.state \/ ShownDoneEarly(d, shown, stakeList.epoch)
                            \/ ShownLeaving(d, shown, stakeList.epoch)
      BY DEF StateAsOnChain
    <3> DEFINE d == stakeList.account[a]
    <3>1. d \in Delegations /\ StandsIn(d, stakeList.epoch)
      BY <2>1 DEF StakesInv, ReadTrue
    <3> HIDE DEF d
    <3>2. CASE d.state = "inactive"
      BY <2>1, <3>1, <3>2 DEF StakeState, StandsIn, Delegations, Epochs, ShownLeaving, d
    <3>3. CASE d.state = "activating"
      BY <2>1, <3>1, <3>3 DEF StakeState, StandsIn, Delegations, Epochs, ShownDoneEarly, d
    <3>4. CASE d.state = "active"
      BY <2>1, <3>1, <3>4 DEF StakeState, StandsIn, Delegations, Epochs, d
    <3>5. CASE d.state = "deactivating"
      BY <2>1, <3>1, <3>5 DEF StakeState, StandsIn, Delegations, Epochs, ShownDoneEarly, d
    <3> QED BY <3>1, <3>2, <3>3, <3>4, <3>5 DEF Delegations
  <2>3. ASSUME NEW k \in stakeList.paid, k[2] \in (stakeList.epoch - RewardEpochs) .. (stakeList.epoch - 1),
               k[1] \in DOMAIN stakeList.account, k[2] > stakeList.account[k[1]].activationEpoch,
               \/ stakeList.account[k[1]].deactivationEpoch = NoEpoch
               \/ k[2] <= stakeList.account[k[1]].deactivationEpoch
        PROVE  k \in stakeList.rewards \cup early
    <3>1. PICK a \in Stakes, e \in Int : k = <<a, e>>
      BY <2>1 DEF StakeLists
    <3>2. EarnedBy(stakeList.account[a], a, stakeList.paid)
      BY <2>3, <3>1 DEF StakesInv, ReadTrue
    <3>3. EarnedIn(stakeList.account[a], e)
      <4>1. stakeList.account[a].activationEpoch # NoEpoch /\ stakeList.account[a].activationEpoch \in Epochs
        BY <2>1, <2>3, <3>1, <3>2 DEF EarnedBy, Delegations
      <4>2. stakeList.account[a].deactivationEpoch \in Epochs
        BY <2>1, <2>3, <3>1 DEF Delegations
      <4> QED BY <2>3, <3>1, <4>1, <4>2 DEF EarnedIn, Epochs
    <3>4. stakeList.account # <<>>
      BY <2>3, EmptyIsMap
    <3>5. e \in (stakeList.next + 1) .. (stakeList.epoch - 1)
      BY <2>1, <2>3, <3>1, <3>4 DEF StakesInv, Asked
    <3> QED BY <2>3, <3>1, <3>3, <3>4, <3>5 DEF StakesInv, Asked
  <2>4. RewardsAsPaid
    BY <2>3 DEF RewardsAsPaid, StakesInv, Asked
  <2> QED BY <2>2, <2>4
<1> QED BY <1>1, StakesInvAlways, PTL

-----------------------------------------------------------------------------
(* The balance of a Solana wallet.                                         *)

Factors == Multipliers \cup {1}
SettingsSet == [multiplier : Factors, next : Factors, from : Nat \cup {Unset}, set : Nat]

BalanceShaped ==
  balance = [pc |-> balance.pc, includeSpam |-> balance.includeSpam, available |-> balance.available,
             metadata |-> balance.metadata, visible |-> balance.visible, toRead |-> balance.toRead,
             known |-> balance.known, ui |-> balance.ui, prices |-> balance.prices, asked |-> balance.asked,
             uiAt |-> balance.uiAt, repliedAt |-> balance.repliedAt]

BalanceTyped ==
  /\ clock \in Nat /\ settings \in [Scaled -> Seq(SettingsSet)] /\ BalanceShaped
  /\ balance.asked \in Nat /\ balance.asked <= clock
  /\ balance.pc \in {"idle", "accounts", "metadata", "extensions", "prices", "replied", "failed"}

(* The settings of a mint follow one another in time.                      *)
SettingsOrdered ==
  \A m \in Scaled :
    /\ settings[m] # <<>> /\ settings[m][1].set = 0
    /\ \A i \in DOMAIN settings[m] : settings[m][i].set <= clock
    /\ \A i \in DOMAIN settings[m] : \A j \in DOMAIN settings[m] : i <= j => settings[m][i].set <= settings[m][j].set

(* A mint's i-th setting was its last at a moment of tick t.               *)
LastAt(m, i, t) ==
  /\ i \in DOMAIN settings[m] /\ t \in Nat /\ t <= clock /\ settings[m][i].set <= t
  /\ i = Len(settings[m]) \/ t <= settings[m][i + 1].set

(* What is kept of a mint was the issuer's less than a TTL ago.            *)
ExtensionsKept ==
  \A m \in Scaled : extensions[m] # Unset =>
    \E i \in DOMAIN settings[m], t \in Nat :
      /\ LastAt(m, i, t) /\ extensions[m].setting = settings[m][i]
      /\ extensions[m].until = t + ShortTtl /\ clock < t + ShortTtl

QuotesKept ==
  \A m \in Scaled : quotes[m] # Unset =>
    \E i \in DOMAIN settings[m], t \in Nat :
      /\ LastAt(m, i, t) /\ quotes[m].price = MintOf[m].worth \div ScaledUiMultiplier(settings[m][i], t)
      /\ quotes[m].until = t + ShortTtl /\ clock < t + ShortTtl

(* What a request has read was so less than a TTL before it was asked.     *)
ReadLately(m, i, t) == LastAt(m, i, t) /\ balance.asked - ShortTtl < t

KnownLately ==
  \A k \in balance.known : k.mint \in Scaled =>
    \E i \in DOMAIN settings[k.mint], t \in Nat : ReadLately(k.mint, i, t) /\ k.setting = settings[k.mint][i]

UiLately ==
  /\ balance.pc \in {"accounts", "metadata", "extensions"} => DOMAIN balance.ui = {}
  /\ \A m \in Scaled \cap DOMAIN balance.ui :
       /\ balance.uiAt \in Nat /\ balance.asked <= balance.uiAt /\ balance.uiAt <= clock
       /\ \E i \in DOMAIN settings[m], t \in Nat :
            /\ ReadLately(m, i, t) /\ t <= balance.uiAt
            /\ LET x == ScaledUiMultiplier(settings[m][i], balance.uiAt)
               IN  balance.ui[m] = IF x = 1 THEN Unset ELSE Raw(m) * x

PricesLately ==
  balance.pc = "replied" =>
    /\ balance.repliedAt \in Nat /\ balance.repliedAt <= clock
    /\ DOMAIN balance.ui \cap Scaled # {} => balance.uiAt <= balance.repliedAt
    /\ \A m \in Scaled \cap DOMAIN balance.prices :
         \E i \in DOMAIN settings[m], t \in Nat :
           /\ ReadLately(m, i, t) /\ t <= balance.repliedAt
           /\ balance.prices[m] = MintOf[m].worth \div ScaledUiMultiplier(settings[m][i], t)

VisibleTrue ==
  balance.pc \in {"extensions", "prices", "replied"} =>
    /\ Range(balance.visible) = Visible(balance.includeSpam, balance.available, balance.metadata)
    /\ balance.available => balance.metadata = GetByMints

(* The inductive invariant of a balance.                                   *)
BalanceInv ==
  /\ BalanceTyped /\ SettingsOrdered /\ ExtensionsKept /\ QuotesKept
  /\ KnownLately /\ UiLately /\ PricesLately /\ VisibleTrue

LEMMA FactorsNatural == Factors \subseteq Nat \ {0}
  BY BalancesAssumption DEF Factors

LEMMA RawTyped == ASSUME NEW m \in HeldMints PROVE Raw(m) \in Int
<1> DEFINE amounts == MintOf[m].accounts
<1>1. amounts \in Seq(Nat)
  BY BalancesAssumption
<1>2. DOMAIN amounts = 1 .. Len(amounts) /\ Len(amounts) \in Nat
  BY <1>1
<1>3. \A i \in DOMAIN amounts : amounts[i] \in Int
  BY <1>1
<1> HIDE DEF amounts
<1>4. IsFiniteSet(DOMAIN amounts)
  BY <1>2, FS_Interval, 1 \in Int
<1>5. SumFunctionOnSet(amounts, DOMAIN amounts) \in Int
  BY <1>3, <1>4, SumOfInts
<1> QED BY <1>5 DEF Raw, SumFunction, amounts

(* A finite set that is put in a sequence is the sequence's range.         *)
LEMMA ListedWhole ==
  ASSUME NEW S, IsFiniteSet(S)
  PROVE  Range(SetToSeq(S)) = S
<1> DEFINE n == Cardinality(S)
           f == SetToSeq(S)
<1>1. n \in Nat
  BY FS_CardinalityType
<1>2. \E g \in [1 .. n -> S] : IsInjective(g)
  <2>1. PICK k \in Nat : ExistsBijection(1 .. k, S)
    BY FS_NatBijection
  <2>2. k = n
    BY <2>1, FS_CountingElements
  <2> QED BY <2>1, <2>2 DEF ExistsBijection, Bijection, Injection, IsInjective
<1>3. f \in [1 .. n -> S] /\ IsInjective(f)
  BY <1>2 DEF SetToSeq
<1>4. f \in Injection(1 .. n, S)
  BY <1>3 DEF Injection, IsInjective
<1>5. IsFiniteSet(1 .. n) /\ Cardinality(1 .. n) = n
  BY <1>1, FS_Interval
<1>6. f \in Surjection(1 .. n, S)
  BY <1>4, <1>5, FS_Injection
<1> HIDE DEF f, n
<1>7. Range(f) = S
  BY <1>3, <1>6 DEF Surjection, Range
<1> QED BY <1>7 DEF f

LEMMA MultiplierTyped ==
  ASSUME NEW s \in SettingsSet, NEW at
  PROVE  ScaledUiMultiplier(s, at) \in Factors
  BY DEF SettingsSet, ScaledUiMultiplier

LEMMA SettingTyped ==
  ASSUME BalanceTyped, NEW m \in Scaled, NEW i \in DOMAIN settings[m]
  PROVE  settings[m][i] \in SettingsSet /\ settings[m][i] # Unset
<1>1. settings[m] \in Seq(SettingsSet)
  BY DEF BalanceTyped
<1>2. settings[m][i] \in SettingsSet
  BY <1>1, ElementOfSeq
<1>3. SettingsSet \subseteq [multiplier : Nat, next : Nat, from : Nat \cup {Unset}, set : Nat]
  BY FactorsNatural DEF SettingsSet
<1> QED BY <1>2, <1>3, BalancesAssumption

(* The last setting of a mint is so now.                                   *)
LEMMA LastNow ==
  ASSUME BalanceTyped, SettingsOrdered, NEW m \in Scaled
  PROVE  /\ LastAt(m, Len(settings[m]), clock) /\ Last(settings[m]) = settings[m][Len(settings[m])]
         /\ Last(settings[m]) \in SettingsSet /\ Last(settings[m]) # Unset
<1>1. settings[m] \in Seq(SettingsSet) /\ settings[m] # <<>> /\ clock \in Nat
  BY DEF BalanceTyped, SettingsOrdered
<1>2. Len(settings[m]) \in DOMAIN settings[m]
  BY <1>1
<1>3. Last(settings[m]) = settings[m][Len(settings[m])]
  BY DEF Last
<1>4. settings[m][Len(settings[m])].set <= clock
  BY <1>2 DEF SettingsOrdered
<1> QED BY <1>1, <1>2, <1>3, <1>4, SettingTyped DEF LastAt

(* The chain goes on: what a mint's setting was at a time remains so.      *)

SettingsGrow ==
  /\ clock \in Nat /\ clock' \in Nat /\ clock <= clock'
  /\ \A m \in Scaled : \A i \in DOMAIN settings[m] :
       /\ i \in DOMAIN settings'[m] /\ settings'[m][i] = settings[m][i]
       /\ \A t \in Nat : LastAt(m, i, t) => LastAt(m, i, t)'

LEMMA ClockGrows ==
  ASSUME BalanceTyped, SettingsOrdered, ClockOn
  PROVE  SettingsGrow /\ SettingsOrdered' /\ BalanceTyped'
<1>1. clock \in Nat /\ clock' = clock + 1 /\ UNCHANGED <<settings, balance>>
  BY DEF ClockOn, BalanceTyped
<1>2. ASSUME NEW m \in Scaled, NEW i \in DOMAIN settings[m]
      PROVE  settings[m][i].set \in Nat
  BY <1>2, SettingTyped DEF SettingsSet
<1>3. SettingsGrow
  BY <1>1 DEF SettingsGrow, LastAt
<1>4. SettingsOrdered'
  BY <1>1, <1>2 DEF SettingsOrdered
<1> QED BY <1>1, <1>3, <1>4 DEF BalanceTyped, BalanceShaped

LEMMA SettingAppended ==
  ASSUME BalanceTyped, SettingsOrdered,
         NEW n \in Scaled, NEW x \in Multipliers, NEW from \in {Unset, clock, LastClock}, SetMultiplier(n, x, from)
  PROVE  SettingsGrow /\ SettingsOrdered' /\ BalanceTyped'
<1> DEFINE added == [multiplier |-> InForce(n, clock), next |-> x, from |-> from, set |-> clock]
           old == settings[n]
<1>1. /\ clock \in Nat /\ UNCHANGED <<clock, balance>> /\ old \in Seq(SettingsSet) /\ DOMAIN settings = Scaled
      /\ settings' = [settings EXCEPT ![n] = Append(old, added)] /\ Scaled' = Scaled
  BY DEF SetMultiplier, BalanceTyped
<1>2. added \in SettingsSet
  <2>1. InForce(n, clock) \in Factors
    BY LastNow, MultiplierTyped DEF InForce
  <2> QED BY <1>1, <2>1, BalancesAssumption DEF SettingsSet, Factors
<1> HIDE DEF added
<1>3. /\ Append(old, added) \in Seq(SettingsSet) /\ Len(Append(old, added)) = Len(old) + 1
      /\ \A i \in DOMAIN old : i \in DOMAIN Append(old, added) /\ Append(old, added)[i] = old[i]
      /\ Append(old, added)[Len(old) + 1] = added /\ DOMAIN Append(old, added) = 1 .. (Len(old) + 1)
      /\ DOMAIN old = 1 .. Len(old) /\ Len(old) \in Nat
  BY <1>1, <1>2
<1>4. settings' \in [Scaled -> Seq(SettingsSet)]
  BY <1>1, <1>3 DEF BalanceTyped
<1>5. BalanceTyped'
  BY <1>1, <1>4 DEF BalanceTyped, BalanceShaped
<1>6. added.set = clock
  BY DEF added
<1>7. ASSUME NEW m \in Scaled, NEW i \in DOMAIN settings[m]
      PROVE  settings[m][i].set \in Nat /\ settings[m][i].set <= clock
  BY SettingTyped DEF SettingsSet, SettingsOrdered
<1>8. SettingsOrdered'
  <2> SUFFICES ASSUME NEW m \in Scaled
               PROVE  /\ settings'[m] # <<>> /\ settings'[m][1].set = 0
                      /\ \A i \in DOMAIN settings'[m] : settings'[m][i].set <= clock
                      /\ \A i \in DOMAIN settings'[m] : \A j \in DOMAIN settings'[m] :
                           i <= j => settings'[m][i].set <= settings'[m][j].set
    BY <1>1 DEF SettingsOrdered
  <2>1. CASE m # n
    BY <1>1, <2>1 DEF SettingsOrdered
  <2>2. CASE m = n
    <3>1. settings'[m] = Append(old, added)
      BY <1>1, <2>2
    <3>2. old # <<>> /\ 1 \in DOMAIN old
      BY <1>3, <2>2 DEF SettingsOrdered
    <3>3. \A i \in DOMAIN Append(old, added) : i \in DOMAIN old \/ i = Len(old) + 1
      BY <1>3
    <3>4. \A i \in DOMAIN Append(old, added) : Append(old, added)[i].set <= clock
      BY <1>1, <1>3, <1>6, <1>7, <2>2, <3>3
    <3>5. settings'[m][1].set = 0 /\ settings'[m] # <<>>
      BY <1>3, <2>2, <3>1, <3>2 DEF SettingsOrdered
    <3>6. ASSUME NEW i \in DOMAIN Append(old, added), NEW j \in DOMAIN Append(old, added), i <= j
          PROVE  Append(old, added)[i].set <= Append(old, added)[j].set
      <4>1. CASE j = Len(old) + 1
        BY <1>3, <1>6, <3>4, <4>1
      <4>2. CASE j \in DOMAIN old
        <5>1. i \in DOMAIN old
          BY <1>3, <3>6, <4>2
        <5> QED BY <1>3, <2>2, <3>6, <4>2, <5>1 DEF SettingsOrdered
      <4> QED BY <3>3, <4>1, <4>2
    <3> QED BY <3>1, <3>4, <3>5, <3>6
  <2> QED BY <2>1, <2>2
<1>9. SettingsGrow
  <2> SUFFICES ASSUME NEW m \in Scaled, NEW i \in DOMAIN settings[m]
               PROVE  /\ i \in DOMAIN settings'[m] /\ settings'[m][i] = settings[m][i]
                      /\ \A t \in Nat : LastAt(m, i, t) => LastAt(m, i, t)'
    BY <1>1 DEF SettingsGrow
  <2>1. CASE m # n
    BY <1>1, <2>1 DEF LastAt
  <2>2. CASE m = n
    <3>1. settings'[m] = Append(old, added)
      BY <1>1, <2>2
    <3>2. ASSUME NEW t \in Nat, LastAt(m, i, t) PROVE LastAt(m, i, t)'
      <4>1. i # Len(old) => i + 1 \in DOMAIN old
        BY <1>3, <2>2
      <4>2. i = Len(old) => settings'[m][i + 1].set = clock
        BY <1>3, <1>6, <3>1
      <4> QED BY <1>1, <1>3, <2>2, <3>1, <3>2, <4>1, <4>2 DEF LastAt
    <3> QED BY <1>3, <2>2, <3>1, <3>2
  <2> QED BY <2>1, <2>2
<1> QED BY <1>5, <1>8, <1>9

(* What a request has read stands, though the chain goes on.               *)
LEMMA ReadsStand ==
  ASSUME SettingsGrow, UNCHANGED balance, BalanceTyped, KnownLately, UiLately, PricesLately, VisibleTrue
  PROVE  KnownLately' /\ UiLately' /\ PricesLately' /\ VisibleTrue'
<1>1. \A m \in Scaled : \A i \in DOMAIN settings[m] : \A t \in Nat :
        ReadLately(m, i, t) => ReadLately(m, i, t)' /\ i \in DOMAIN settings'[m] /\ settings'[m][i] = settings[m][i]
  BY DEF SettingsGrow, ReadLately
<1>2. KnownLately'
  BY <1>1 DEF KnownLately
<1>3. UiLately'
  <2>1. \A n \in Nat : n <= clock => n <= clock'
    BY DEF SettingsGrow
  <2> SUFFICES ASSUME NEW m \in Scaled \cap DOMAIN balance.ui
               PROVE  \E i \in DOMAIN settings'[m], t \in Nat :
                        /\ ReadLately(m, i, t)' /\ t <= balance.uiAt
                        /\ LET x == ScaledUiMultiplier(settings'[m][i], balance.uiAt)
                           IN  balance.ui[m] = IF x = 1 THEN Unset ELSE Raw(m) * x
    BY <2>1 DEF UiLately
  <2>2. PICK i \in DOMAIN settings[m], t \in Nat :
          /\ ReadLately(m, i, t) /\ t <= balance.uiAt
          /\ LET x == ScaledUiMultiplier(settings[m][i], balance.uiAt)
             IN  balance.ui[m] = IF x = 1 THEN Unset ELSE Raw(m) * x
    BY DEF UiLately
  <2> QED BY <1>1, <2>2
<1>4. PricesLately'
  <2> SUFFICES ASSUME balance.pc = "replied" PROVE PricesLately'
    BY DEF PricesLately
  <2>1. \A n \in Nat : n <= clock => n <= clock'
    BY DEF SettingsGrow
  <2>2. ASSUME NEW m \in Scaled \cap DOMAIN balance.prices
        PROVE  \E i \in DOMAIN settings'[m], t \in Nat :
                 /\ ReadLately(m, i, t)' /\ t <= balance.repliedAt
                 /\ balance.prices[m] = MintOf[m].worth \div ScaledUiMultiplier(settings'[m][i], t)
    <3>1. PICK i \in DOMAIN settings[m], t \in Nat :
            /\ ReadLately(m, i, t) /\ t <= balance.repliedAt
            /\ balance.prices[m] = MintOf[m].worth \div ScaledUiMultiplier(settings[m][i], t)
      BY DEF PricesLately
    <3> QED BY <1>1, <3>1
  <2> QED BY <2>1, <2>2 DEF PricesLately
<1>5. VisibleTrue'
  BY DEF VisibleTrue
<1> QED BY <1>2, <1>3, <1>4, <1>5

LEMMA ChainKeeps ==
  ASSUME BalanceInv,
         ClockOn \/ \E m \in Scaled, x \in Multipliers, from \in {Unset, clock, LastClock} : SetMultiplier(m, x, from)
  PROVE  BalanceInv'
<1> USE DEF BalanceInv
<1>1. SettingsGrow /\ SettingsOrdered' /\ BalanceTyped'
  BY ClockGrows, SettingAppended
<1>2. UNCHANGED balance
  BY DEF ClockOn, SetMultiplier
<1>3. KnownLately' /\ UiLately' /\ PricesLately' /\ VisibleTrue'
  BY <1>1, <1>2, ReadsStand
<1> DEFINE Stays(kept, m) == kept'[m] # Unset => kept'[m] = kept[m] /\ \A u \in Nat : kept[m].until = u /\ clock < u => clock' < u
<1>4. \A m \in Scaled : Stays(extensions, m) /\ Stays(quotes, m)
  <2>1. CASE ClockOn
    <3>1. clock \in Nat /\ clock' = clock + 1
      BY <2>1 DEF ClockOn, BalanceTyped
    <3> SUFFICES ASSUME NEW m \in Scaled PROVE Stays(extensions, m) /\ Stays(quotes, m)
      OBVIOUS
    <3>2. m \in HeldMints
      BY DEF Scaled
    <3>3. \A e : e.until \in Nat /\ ~(e.until <= clock + 1) => clock' < e.until
      BY <3>1
    <3>4. extensions'[m] = IF extensions[m] # Unset /\ extensions[m].until <= clock + 1 THEN Unset ELSE extensions[m]
      BY <2>1, <3>2 DEF ClockOn
    <3>5. quotes'[m] = IF quotes[m] # Unset /\ quotes[m].until <= clock + 1 THEN Unset ELSE quotes[m]
      BY <2>1, <3>2 DEF ClockOn
    <3> QED BY <3>3, <3>4, <3>5
  <2>2. CASE UNCHANGED <<clock, extensions, quotes>>
    BY <2>2
  <2> QED BY <2>1, <2>2 DEF SetMultiplier
<1>5. ExtensionsKept'
  <2> SUFFICES ASSUME NEW m \in Scaled, extensions'[m] # Unset
               PROVE  \E i \in DOMAIN settings'[m], t \in Nat :
                        /\ LastAt(m, i, t)' /\ extensions'[m].setting = settings'[m][i]
                        /\ extensions'[m].until = t + ShortTtl /\ clock' < t + ShortTtl
    BY DEF ExtensionsKept
  <2>1. extensions'[m] = extensions[m]
    BY <1>4
  <2>2. PICK i \in DOMAIN settings[m], t \in Nat :
          /\ LastAt(m, i, t) /\ extensions[m].setting = settings[m][i]
          /\ extensions[m].until = t + ShortTtl /\ clock < t + ShortTtl
    BY <2>1 DEF ExtensionsKept
  <2>3. t + ShortTtl \in Nat
    BY BalancesAssumption
  <2>4. clock' < t + ShortTtl
    BY <1>4, <2>2, <2>3
  <2> QED BY <1>1, <2>1, <2>2, <2>4 DEF SettingsGrow
<1>6. QuotesKept'
  <2> SUFFICES ASSUME NEW m \in Scaled, quotes'[m] # Unset
               PROVE  \E i \in DOMAIN settings'[m], t \in Nat :
                        /\ LastAt(m, i, t)' /\ quotes'[m].price = MintOf[m].worth \div ScaledUiMultiplier(settings'[m][i], t)
                        /\ quotes'[m].until = t + ShortTtl /\ clock' < t + ShortTtl
    BY DEF QuotesKept
  <2>1. quotes'[m] = quotes[m]
    BY <1>4
  <2>2. PICK i \in DOMAIN settings[m], t \in Nat :
          /\ LastAt(m, i, t) /\ quotes[m].price = MintOf[m].worth \div ScaledUiMultiplier(settings[m][i], t)
          /\ quotes[m].until = t + ShortTtl /\ clock < t + ShortTtl
    BY <2>1 DEF QuotesKept
  <2>3. t + ShortTtl \in Nat
    BY BalancesAssumption
  <2>4. clock' < t + ShortTtl
    BY <1>4, <2>2, <2>3
  <2> QED BY <1>1, <2>1, <2>2, <2>4 DEF SettingsGrow
<1> QED BY <1>1, <1>3, <1>5, <1>6

-----------------------------------------------------------------------------
(* A request reads and replies.                                            *)

LEMMA AskKeeps ==
  ASSUME BalanceInv, NEW includeSpam \in BOOLEAN, AskBalance(includeSpam)
  PROVE  BalanceInv'
<1> USE DEF BalanceInv
<1>1. /\ UNCHANGED <<clock, settings, extensions, quotes>>
      /\ balance' = [pc |-> "accounts", includeSpam |-> includeSpam, available |-> FALSE, metadata |-> {},
                     visible |-> <<>>, toRead |-> <<>>, known |-> {}, ui |-> <<>>, prices |-> <<>>,
                     asked |-> clock, uiAt |-> 0, repliedAt |-> 0]
  BY DEF AskBalance, NoBalance
<1>2. BalanceTyped'
  BY <1>1 DEF BalanceTyped, BalanceShaped
<1>3. SettingsOrdered' /\ ExtensionsKept' /\ QuotesKept'
  BY <1>1 DEF SettingsOrdered, ExtensionsKept, QuotesKept, LastAt
<1>4. balance'.pc = "accounts" /\ balance'.known = {} /\ DOMAIN balance'.ui = {}
  BY <1>1, EmptyIsMap
<1>5. KnownLately' /\ UiLately' /\ PricesLately' /\ VisibleTrue'
  BY <1>4 DEF KnownLately, UiLately, PricesLately, VisibleTrue
<1> QED BY <1>2, <1>3, <1>5

(* The accounts are read, or the request ends.                             *)
LEMMA OnOrOut ==
  ASSUME BalanceInv, ReadAccounts \/ BalanceFails
  PROVE  BalanceInv'
<1> USE DEF BalanceInv
<1>1. UNCHANGED <<clock, settings, extensions, quotes>>
  BY DEF ReadAccounts, BalanceFails, Chain
<1>2. \/ balance.pc = "accounts" /\ balance' = [balance EXCEPT !.pc = "metadata"]
      \/ balance' = [balance EXCEPT !.pc = "failed"]
  BY DEF ReadAccounts, BalanceFails
<1>3. /\ balance'.pc \in {"metadata", "failed"}
      /\ balance'.pc = "metadata" => balance.pc = "accounts"
      /\ balance'.known = balance.known /\ balance'.ui = balance.ui /\ balance'.asked = balance.asked
      /\ balance'.uiAt = balance.uiAt /\ BalanceShaped'
  BY <1>2 DEF BalanceTyped, BalanceShaped
<1>4. BalanceTyped'
  BY <1>1, <1>3 DEF BalanceTyped
<1>5. SettingsOrdered' /\ ExtensionsKept' /\ QuotesKept'
  BY <1>1 DEF SettingsOrdered, ExtensionsKept, QuotesKept, LastAt
<1>6. KnownLately' /\ UiLately'
  BY <1>1, <1>3 DEF KnownLately, UiLately, ReadLately, LastAt
<1>7. PricesLately' /\ VisibleTrue'
  BY <1>3 DEF PricesLately, VisibleTrue
<1> QED BY <1>4, <1>5, <1>6, <1>7

(* The reads of a request leave the chain, its account of what was shown   *)
(* before, and when it was asked.                                          *)
LEMMA DecorateKeeps ==
  ASSUME BalanceInv, balance.pc = "metadata", NEW available \in BOOLEAN, NEW metadata,
         available => metadata = GetByMints, Decorate(available, metadata), UNCHANGED <<clock, settings, extensions, quotes>>
  PROVE  BalanceInv'
<1> USE DEF BalanceInv
<1> DEFINE visible == Visible(balance.includeSpam, available, metadata)
           scaling == {m \in visible : \E t \in metadata : t.mint = m /\ t.token2022}
           had == {[mint |-> m, setting |-> extensions[m].setting] : m \in {x \in scaling : extensions[x] # Unset}}
           unseen == SetToSeq({x \in scaling : extensions[x] = Unset})
           on == IF scaling = {} THEN "prices" ELSE "extensions"
<1>1. balance' = [balance EXCEPT !.available = available, !.metadata = metadata, !.visible = SetToSeq(visible),
                    !.known = had, !.toRead = unseen, !.pc = on]
  BY Zenon DEF Decorate
<1>2. Range(SetToSeq(visible)) = visible
  <2>1. visible \subseteq HeldMints
    BY DEF Visible
  <2>2. IsFiniteSet(visible)
    BY <2>1, FS_Subset, BalancesAssumption
  <2> QED BY <2>2, ListedWhole
<1>3. ASSUME NEW k \in had, k.mint \in Scaled
      PROVE  \E i \in DOMAIN settings[k.mint], t \in Nat : ReadLately(k.mint, i, t) /\ k.setting = settings[k.mint][i]
  <2>1. PICK m \in scaling : extensions[m] # Unset /\ k = [mint |-> m, setting |-> extensions[m].setting]
    BY <1>3
  <2>2. PICK i \in DOMAIN settings[m], t \in Nat :
          LastAt(m, i, t) /\ extensions[m].setting = settings[m][i] /\ clock < t + ShortTtl
    BY <1>3, <2>1 DEF ExtensionsKept
  <2>3. balance.asked - ShortTtl < t
    BY <2>2, BalancesAssumption DEF BalanceTyped
  <2> QED BY <2>1, <2>2, <2>3 DEF ReadLately
<1>4. on \in {"prices", "extensions"}
  OBVIOUS
<1> HIDE DEF visible, had, unseen, on
<1>5. /\ balance'.pc = on /\ balance'.includeSpam = balance.includeSpam /\ balance'.available = available
      /\ balance'.metadata = metadata /\ balance'.visible = SetToSeq(visible) /\ balance'.known = had
      /\ balance'.ui = balance.ui /\ balance'.asked = balance.asked /\ balance'.uiAt = balance.uiAt /\ BalanceShaped'
  BY <1>1 DEF BalanceTyped, BalanceShaped
<1>6. BalanceTyped'
  BY <1>4, <1>5 DEF BalanceTyped
<1>7. SettingsOrdered' /\ ExtensionsKept' /\ QuotesKept'
  BY DEF SettingsOrdered, ExtensionsKept, QuotesKept, LastAt
<1>8. KnownLately'
  BY <1>3, <1>5 DEF KnownLately, ReadLately, LastAt
<1>9. UiLately'
  BY <1>5 DEF UiLately
<1>10. VisibleTrue'
  BY <1>2, <1>5 DEF VisibleTrue, visible
<1>11. PricesLately'
  BY <1>4, <1>5 DEF PricesLately
<1> QED BY <1>6, <1>7, <1>8, <1>9, <1>10, <1>11

LEMMA MetadataKeeps ==
  ASSUME BalanceInv, ReadMetadata \/ MetadataFails
  PROVE  BalanceInv'
<1>1. balance.pc = "metadata" /\ UNCHANGED <<clock, settings, extensions, quotes>>
  BY DEF ReadMetadata, MetadataFails, Chain
<1>2. CASE Decorate(TRUE, GetByMints)
  BY <1>1, <1>2, DecorateKeeps
<1>3. CASE Decorate(FALSE, {})
  BY <1>1, <1>3, DecorateKeeps
<1> QED BY <1>2, <1>3 DEF ReadMetadata, MetadataFails

LEMMA ExtensionsRead ==
  ASSUME BalanceInv, GetMintExtensions
  PROVE  BalanceInv'
<1> USE DEF BalanceInv
<1> DEFINE slice == SubSeq(balance.toRead, 1, Min({MaxMintsPerBatch, Len(balance.toRead)}))
           R == Range(slice)
           had == balance.known \cup {[mint |-> m, setting |-> Extension(m)] : m \in R}
           rest == SubSeq(balance.toRead, Len(slice) + 1, Len(balance.toRead))
<1>1. /\ balance.pc = "extensions" /\ balance' = [balance EXCEPT !.toRead = rest, !.known = had]
      /\ extensions' = [m \in HeldMints |-> IF m \in R THEN [setting |-> Extension(m), until |-> clock + ShortTtl]
                                         ELSE extensions[m]]
      /\ UNCHANGED <<clock, settings, quotes>>
  BY DEF GetMintExtensions, Chain
<1>2. ASSUME NEW m \in Scaled
      PROVE  /\ LastAt(m, Len(settings[m]), clock) /\ Extension(m) = settings[m][Len(settings[m])]
             /\ Len(settings[m]) \in DOMAIN settings[m] /\ m \in HeldMints
  BY <1>2, LastNow DEF Extension, LastAt, Scaled
<1>3. clock \in Nat /\ clock < clock + ShortTtl /\ balance.asked - ShortTtl < clock
  BY BalancesAssumption DEF BalanceTyped
<1>4. ASSUME NEW k \in had, k.mint \in Scaled
      PROVE  \E i \in DOMAIN settings[k.mint], t \in Nat : ReadLately(k.mint, i, t) /\ k.setting = settings[k.mint][i]
  <2>1. CASE k \in balance.known
    BY <1>4, <2>1 DEF KnownLately
  <2>2. CASE k \notin balance.known
    <3>1. PICK m \in R : k = [mint |-> m, setting |-> Extension(m)]
      BY <1>4, <2>2
    <3> QED BY <1>2, <1>3, <1>4, <3>1 DEF ReadLately
  <2> QED BY <2>1, <2>2
<1> HIDE DEF R, rest, had
<1>5. /\ balance'.pc = "extensions" /\ balance'.includeSpam = balance.includeSpam /\ balance'.available = balance.available
      /\ balance'.metadata = balance.metadata /\ balance'.visible = balance.visible /\ balance'.known = had
      /\ balance'.ui = balance.ui /\ balance'.asked = balance.asked /\ balance'.uiAt = balance.uiAt /\ BalanceShaped'
  BY <1>1 DEF BalanceTyped, BalanceShaped
<1>6. BalanceTyped'
  BY <1>1, <1>5 DEF BalanceTyped
<1>7. SettingsOrdered' /\ QuotesKept'
  BY <1>1 DEF SettingsOrdered, QuotesKept, LastAt
<1>8. ExtensionsKept'
  <2> SUFFICES ASSUME NEW m \in Scaled, extensions'[m] # Unset
               PROVE  \E i \in DOMAIN settings[m], t \in Nat :
                        /\ LastAt(m, i, t) /\ extensions'[m].setting = settings[m][i]
                        /\ extensions'[m].until = t + ShortTtl /\ clock < t + ShortTtl
    BY <1>1 DEF ExtensionsKept, LastAt
  <2>1. CASE m \in R
    BY <1>1, <1>2, <1>3, <2>1
  <2>2. CASE m \notin R
    <3>1. extensions'[m] = extensions[m]
      BY <1>1, <1>2, <2>2
    <3> QED BY <3>1 DEF ExtensionsKept
  <2> QED BY <2>1, <2>2
<1>9. KnownLately'
  BY <1>1, <1>4, <1>5 DEF KnownLately, ReadLately, LastAt
<1>10. UiLately'
  BY <1>1, <1>5 DEF UiLately
<1>11. VisibleTrue' /\ PricesLately'
  BY <1>1, <1>5 DEF VisibleTrue, PricesLately
<1> QED BY <1>6, <1>7, <1>8, <1>9, <1>10, <1>11

LEMMA ExtensionsMissed ==
  ASSUME BalanceInv, ExtensionsFail
  PROVE  BalanceInv'
<1> USE DEF BalanceInv
<1>1. /\ balance.pc = "extensions" /\ balance' = [balance EXCEPT !.pc = "prices", !.toRead = <<>>, !.known = {}]
      /\ UNCHANGED <<clock, settings, extensions, quotes>>
  BY DEF ExtensionsFail, Chain
<1>2. /\ balance'.pc = "prices" /\ balance'.includeSpam = balance.includeSpam /\ balance'.available = balance.available
      /\ balance'.metadata = balance.metadata /\ balance'.visible = balance.visible /\ balance'.known = {}
      /\ balance'.ui = balance.ui /\ balance'.asked = balance.asked /\ balance'.uiAt = balance.uiAt /\ BalanceShaped'
  BY <1>1 DEF BalanceTyped, BalanceShaped
<1>3. BalanceTyped'
  BY <1>1, <1>2 DEF BalanceTyped
<1>4. SettingsOrdered' /\ ExtensionsKept' /\ QuotesKept'
  BY <1>1 DEF SettingsOrdered, ExtensionsKept, QuotesKept, LastAt
<1>5. KnownLately' /\ UiLately' /\ PricesLately' /\ VisibleTrue'
  BY <1>1, <1>2 DEF KnownLately, UiLately, PricesLately, VisibleTrue
<1> QED BY <1>3, <1>4, <1>5

LEMMA AmountsScaled ==
  ASSUME BalanceInv, GetUiAmounts
  PROVE  BalanceInv'
<1> USE DEF BalanceInv
<1> DEFINE shown == [m \in {k.mint : k \in balance.known} |->
                       UiAmount(m, (CHOOSE k \in balance.known : k.mint = m).setting)]
<1>1. /\ balance.pc = "extensions" /\ balance' = [balance EXCEPT !.pc = "prices", !.uiAt = clock, !.ui = shown]
      /\ UNCHANGED <<clock, settings, extensions, quotes>>
  BY DEF GetUiAmounts, Chain
<1>2. ASSUME NEW m \in Scaled \cap DOMAIN shown
      PROVE  \E i \in DOMAIN settings[m], t \in Nat :
               /\ ReadLately(m, i, t) /\ t <= clock
               /\ LET x == ScaledUiMultiplier(settings[m][i], clock)
                  IN  shown[m] = IF x = 1 THEN Unset ELSE Raw(m) * x
  <2> DEFINE known == CHOOSE k \in balance.known : k.mint = m
  <2>1. known \in balance.known /\ known.mint = m /\ shown[m] = UiAmount(m, known.setting)
    <3>1. \E k \in balance.known : k.mint = m
      OBVIOUS
    <3> QED BY <3>1
  <2> HIDE DEF known, shown
  <2>2. PICK i \in DOMAIN settings[m], t \in Nat : ReadLately(m, i, t) /\ known.setting = settings[m][i]
    BY <2>1 DEF KnownLately
  <2>3. settings[m][i] # Unset
    BY <2>2, SettingTyped
  <2>4. t <= clock
    BY <2>2 DEF ReadLately, LastAt
  <2> QED BY <2>1, <2>2, <2>3, <2>4 DEF UiAmount
<1> HIDE DEF shown
<1>3. /\ balance'.pc = "prices" /\ balance'.includeSpam = balance.includeSpam /\ balance'.available = balance.available
      /\ balance'.metadata = balance.metadata /\ balance'.visible = balance.visible /\ balance'.known = balance.known
      /\ balance'.ui = shown /\ balance'.asked = balance.asked /\ balance'.uiAt = clock /\ BalanceShaped'
  BY <1>1 DEF BalanceTyped, BalanceShaped
<1>4. BalanceTyped'
  BY <1>1, <1>3 DEF BalanceTyped
<1>5. SettingsOrdered' /\ ExtensionsKept' /\ QuotesKept'
  BY <1>1 DEF SettingsOrdered, ExtensionsKept, QuotesKept, LastAt
<1>6. KnownLately'
  BY <1>1, <1>3 DEF KnownLately, ReadLately, LastAt
<1>7. \A m, i, t : ReadLately(m, i, t)' <=> ReadLately(m, i, t)
  BY <1>1, <1>3 DEF ReadLately, LastAt
<1>8. clock \in Nat /\ balance.asked <= clock /\ clock <= clock
  BY DEF BalanceTyped
<1>9. UiLately'
  BY <1>1, <1>2, <1>3, <1>7, <1>8 DEF UiLately
<1>10. VisibleTrue' /\ PricesLately'
  BY <1>1, <1>3 DEF VisibleTrue, PricesLately
<1> QED BY <1>4, <1>5, <1>6, <1>9, <1>10

LEMMA PricesRead ==
  ASSUME BalanceInv, GetTokenPrices
  PROVE  BalanceInv'
<1> USE DEF BalanceInv
<1> DEFINE priced == {m \in Range(balance.visible) : MintOf[m].listing # "none"}
           quoted == [m \in priced |-> IF quotes[m] # Unset THEN quotes[m].price ELSE MarketPrice(m)]
<1>1. /\ balance.pc = "prices"
      /\ balance' = [balance EXCEPT !.pc = "replied", !.repliedAt = clock, !.prices = quoted]
      /\ quotes' = [m \in HeldMints |-> IF m \in priced /\ quotes[m] = Unset
                                     THEN [price |-> MarketPrice(m), until |-> clock + ShortTtl] ELSE quotes[m]]
      /\ UNCHANGED <<clock, settings, extensions>>
  BY DEF GetTokenPrices, Chain
<1>2. ASSUME NEW m \in Scaled
      PROVE  /\ LastAt(m, Len(settings[m]), clock) /\ Len(settings[m]) \in DOMAIN settings[m] /\ m \in HeldMints
             /\ MarketPrice(m) = MintOf[m].worth \div ScaledUiMultiplier(settings[m][Len(settings[m])], clock)
  BY <1>2, LastNow DEF MarketPrice, InForce, LastAt, Scaled
<1>3. clock \in Nat /\ clock < clock + ShortTtl /\ balance.asked - ShortTtl < clock /\ clock <= clock
  BY BalancesAssumption DEF BalanceTyped
<1>4. ASSUME NEW m \in Scaled \cap DOMAIN quoted
      PROVE  \E i \in DOMAIN settings[m], t \in Nat :
               /\ ReadLately(m, i, t) /\ t <= clock
               /\ quoted[m] = MintOf[m].worth \div ScaledUiMultiplier(settings[m][i], t)
  <2>1. m \in Scaled /\ quoted[m] = IF quotes[m] # Unset THEN quotes[m].price ELSE MarketPrice(m)
    OBVIOUS
  <2> HIDE DEF quoted
  <2>2. CASE quotes[m] # Unset
    <3>1. PICK i \in DOMAIN settings[m], t \in Nat :
            /\ LastAt(m, i, t) /\ quotes[m].price = MintOf[m].worth \div ScaledUiMultiplier(settings[m][i], t)
            /\ clock < t + ShortTtl
      BY <2>1, <2>2 DEF QuotesKept
    <3>2. balance.asked - ShortTtl < t /\ t <= clock
      BY <3>1, BalancesAssumption DEF BalanceTyped, LastAt
    <3> QED BY <2>1, <2>2, <3>1, <3>2 DEF ReadLately
  <2>3. CASE quotes[m] = Unset
    BY <1>2, <1>3, <2>1, <2>3 DEF ReadLately
  <2> QED BY <2>2, <2>3
<1> HIDE DEF priced, quoted
<1>5. /\ balance'.pc = "replied" /\ balance'.includeSpam = balance.includeSpam /\ balance'.available = balance.available
      /\ balance'.metadata = balance.metadata /\ balance'.visible = balance.visible /\ balance'.known = balance.known
      /\ balance'.ui = balance.ui /\ balance'.asked = balance.asked /\ balance'.uiAt = balance.uiAt
      /\ balance'.prices = quoted /\ balance'.repliedAt = clock /\ BalanceShaped'
  BY <1>1 DEF BalanceTyped, BalanceShaped
<1>6. BalanceTyped'
  BY <1>1, <1>5 DEF BalanceTyped
<1>7. SettingsOrdered' /\ ExtensionsKept'
  BY <1>1 DEF SettingsOrdered, ExtensionsKept, LastAt
<1>8. QuotesKept'
  <2> SUFFICES ASSUME NEW m \in Scaled, quotes'[m] # Unset
               PROVE  \E i \in DOMAIN settings[m], t \in Nat :
                        /\ LastAt(m, i, t) /\ quotes'[m].price = MintOf[m].worth \div ScaledUiMultiplier(settings[m][i], t)
                        /\ quotes'[m].until = t + ShortTtl /\ clock < t + ShortTtl
    BY <1>1 DEF QuotesKept, LastAt
  <2>1. CASE m \in priced /\ quotes[m] = Unset
    BY <1>1, <1>2, <1>3, <2>1
  <2>2. CASE ~(m \in priced /\ quotes[m] = Unset)
    <3>1. quotes'[m] = quotes[m]
      BY <1>1, <1>2, <2>2
    <3> QED BY <3>1 DEF QuotesKept
  <2> QED BY <2>1, <2>2
<1>9. \A m, i, t : ReadLately(m, i, t)' <=> ReadLately(m, i, t)
  BY <1>1, <1>5 DEF ReadLately, LastAt
<1>10. KnownLately'
  BY <1>1, <1>5, <1>9 DEF KnownLately
<1>11. UiLately'
  BY <1>1, <1>5, <1>9 DEF UiLately
<1>12. VisibleTrue'
  BY <1>1, <1>5 DEF VisibleTrue
<1>13. DOMAIN balance.ui \cap Scaled # {} => balance.uiAt <= clock
  BY DEF UiLately
<1>14. PricesLately'
  BY <1>1, <1>3, <1>4, <1>5, <1>9, <1>13 DEF PricesLately
<1> QED BY <1>6, <1>7, <1>8, <1>10, <1>11, <1>12, <1>14

LEMMA BalanceInvAlways == ServicesSpec => []BalanceInv
<1>1. ServicesInit => BalanceInv
  <2> SUFFICES ASSUME BalancesInit PROVE BalanceInv
    BY DEF ServicesInit
  <2> DEFINE first == [multiplier |-> 1, next |-> 1, from |-> 0, set |-> 0]
  <2>1. /\ clock = 0 /\ settings = [m \in Scaled |-> <<first>>]
        /\ extensions = [m \in HeldMints |-> Unset] /\ quotes = [m \in HeldMints |-> Unset]
        /\ balance = NoBalance
    BY DEF BalancesInit
  <2>2. first \in SettingsSet /\ first.set = 0
    BY DEF SettingsSet, Factors
  <2> HIDE DEF first
  <2>3. <<first>> \in Seq(SettingsSet) /\ <<first>> # <<>> /\ DOMAIN <<first>> = {1} /\ <<first>>[1] = first
    BY <2>2
  <2>4. BalanceTyped
    <3>1. settings \in [Scaled -> Seq(SettingsSet)]
      BY <2>1, <2>3
    <3> QED BY <2>1, <3>1 DEF BalanceTyped, BalanceShaped, NoBalance
  <2>5. SettingsOrdered
    BY <2>1, <2>2, <2>3 DEF SettingsOrdered
  <2>6. ExtensionsKept /\ QuotesKept
    BY <2>1 DEF ExtensionsKept, QuotesKept, Scaled
  <2>7. balance.pc = "idle" /\ balance.known = {} /\ DOMAIN balance.ui = {}
    BY <2>1, EmptyIsMap DEF NoBalance
  <2>8. KnownLately /\ UiLately /\ PricesLately /\ VisibleTrue
    BY <2>7 DEF KnownLately, UiLately, PricesLately, VisibleTrue
  <2> QED BY <2>4, <2>5, <2>6, <2>8 DEF BalanceInv
<1>2. BalanceInv /\ [ServicesNext]_serviceVars => BalanceInv'
  <2> SUFFICES ASSUME BalanceInv, [ServicesNext]_serviceVars PROVE BalanceInv'
    OBVIOUS
  <2>1. CASE Balance
    BY <2>1, AskKeeps, OnOrOut, MetadataKeeps, ExtensionsRead, ExtensionsMissed, AmountsScaled, PricesRead, ChainKeeps
       DEF Balance, BalancesNext
  <2>2. CASE UNCHANGED balanceVars
    <3>1. UNCHANGED <<clock, settings, extensions, quotes, balance>>
      BY <2>2 DEF balanceVars
    <3> QED BY <3>1 DEF BalanceInv, BalanceTyped, BalanceShaped, SettingsOrdered, ExtensionsKept, QuotesKept,
               KnownLately, UiLately, PricesLately, VisibleTrue, ReadLately, LastAt
  <2> QED BY <2>1, <2>2
          DEF ServicesNext, serviceVars, Transactions, SkrStake, Staking, Nfts, NftAction, Events, Bitcoin
<1> QED BY <1>1, <1>2, PTL DEF ServicesSpec

(* A unit that is shown is worth its multiplier less: rounding loses none. *)
LEMMA WorthDivided ==
  ASSUME NEW m \in Scaled, NEW x \in Factors
  PROVE  (Raw(m) * x) * (MintOf[m].worth \div x) = Raw(m) * MintOf[m].worth
<1> DEFINE w == MintOf[m].worth
           r == Raw(m)
           q == w \div x
<1>1. m \in HeldMints /\ MintOf[m].scaled
  BY DEF Scaled
<1>2. r \in Int /\ w \in Nat /\ x \in Nat /\ x # 0
  BY <1>1, RawTyped, FactorsNatural, BalancesAssumption
<1>3. w % x = 0
  <2>1. w % 1 = 0
    BY <1>2
  <2> HIDE DEF w
  <2>2. x \in Multipliers => w % x = 0
    BY <1>1, BalancesAssumption DEF w
  <2> QED BY <2>1, <2>2 DEF Factors
<1> HIDE DEF w, r
<1>4. q \in Int /\ w = x * q
  BY <1>2, <1>3
<1> HIDE DEF q
<1>5. (r * x) * q = r * (x * q)
  BY <1>2, <1>4
<1>6. (r * x) * q = r * w
  BY <1>4, <1>5
<1> QED BY <1>6 DEF r, w, q

(* When one multiplier was in force all the time that a request looked at, *)
(* what two reads of it found is the same setting, at the same stage.      *)
LEMMA SameSetting ==
  ASSUME BalanceTyped, SettingsOrdered, NEW m \in Scaled, OneMultiplier(m),
         NEW i \in DOMAIN settings[m], NEW t \in Nat, ReadLately(m, i, t),
         NEW j \in DOMAIN settings[m], NEW u \in Nat, ReadLately(m, j, u),
         balance.repliedAt \in Nat, t <= balance.repliedAt, u <= balance.repliedAt
  PROVE  i = j
<1> USE BalancesAssumption
<1>1. settings[m] \in Seq(SettingsSet) /\ balance.asked \in Nat
  BY DEF BalanceTyped
<1>2. \A k \in DOMAIN settings[m] : settings[m][k].set \in Nat
  BY SettingTyped DEF SettingsSet
<1>3. ASSUME NEW a \in DOMAIN settings[m], NEW v \in Nat, ReadLately(m, a, v),
             NEW b \in DOMAIN settings[m], NEW z \in Nat, ReadLately(m, b, z), z <= balance.repliedAt, a < b
      PROVE  FALSE
  <2>1. a + 1 \in DOMAIN settings[m] /\ a + 1 <= b /\ a + 1 > 1 /\ a # Len(settings[m])
    BY <1>1, <1>3
  <2>2. settings[m][a + 1].set >= v /\ v > balance.asked - ShortTtl
    BY <1>2, <1>3, <2>1 DEF ReadLately, LastAt
  <2>3. settings[m][a + 1].set \notin (balance.asked - ShortTtl) .. balance.repliedAt
    BY <2>1 DEF OneMultiplier
  <2>4. settings[m][a + 1].set > balance.repliedAt
    <3> DEFINE next == settings[m][a + 1].set
               from == balance.asked - ShortTtl
    <3>1. next \in Nat
      BY <1>2, <2>1
    <3>2. from \in Int
      BY <1>1
    <3>3. next > from
      <4> HIDE DEF next, from
      <4>1. next >= v /\ v > from
        BY <2>2 DEF next, from
      <4> QED BY <3>1, <3>2, <4>1
    <3> QED BY <2>3, <3>1, <3>2, <3>3
  <2>5. settings[m][a + 1].set <= settings[m][b].set /\ settings[m][b].set <= z
    BY <1>3, <2>1 DEF SettingsOrdered, ReadLately, LastAt
  <2> QED BY <1>2, <1>3, <2>1, <2>4, <2>5
<1>4. i \in Int /\ j \in Int
  BY <1>1
<1> QED BY <1>3, <1>4

LEMMA SameStage ==
  ASSUME BalanceTyped, SettingsOrdered, NEW m \in Scaled, OneMultiplier(m),
         NEW i \in DOMAIN settings[m], NEW t \in Nat, ReadLately(m, i, t), t <= balance.repliedAt,
         balance.repliedAt \in Nat, balance.uiAt \in Nat, balance.asked <= balance.uiAt, balance.uiAt <= balance.repliedAt
  PROVE  ScaledUiMultiplier(settings[m][i], t) = ScaledUiMultiplier(settings[m][i], balance.uiAt)
<1> USE BalancesAssumption
<1> DEFINE s == settings[m][i]
           first == balance.asked - ShortTtl
<1>1. settings[m] \in Seq(SettingsSet) /\ balance.asked \in Nat /\ first < balance.asked
  BY DEF BalanceTyped
<1>2. s.set \in Nat /\ s.from \in Nat \cup {Unset}
  BY SettingTyped DEF SettingsSet
<1>3. s.set <= t /\ first < t
  BY DEF ReadLately, LastAt
<1>4. s.set <= balance.asked
  <2>1. CASE i = 1
    BY <1>1, <2>1 DEF SettingsOrdered
  <2>2. CASE i # 1
    <3>1. i > 1
      BY <1>1, <2>2
    <3>2. s.set \notin first .. balance.repliedAt
      BY <3>1 DEF OneMultiplier
    <3> QED BY <1>1, <1>2, <1>3, <3>2
  <2> QED BY <2>1, <2>2
<1>5. s.from \notin first .. balance.repliedAt
  BY <1>4 DEF OneMultiplier
<1>6. t \in first .. balance.repliedAt /\ balance.uiAt \in first .. balance.repliedAt
  BY <1>1, <1>3
<1>7. first \in Int
  BY <1>1
<1> HIDE DEF s, first
<1>8. s.from # Unset => (t >= s.from <=> balance.uiAt >= s.from)
  BY <1>2, <1>5, <1>6, <1>7
<1> QED BY <1>8 DEF ScaledUiMultiplier, s

(* What a request has read was the issuer's while the request looks back.  *)
LEMMA ReadInTime ==
  ASSUME BalanceTyped, NEW m \in Scaled, NEW i \in DOMAIN settings[m], NEW t \in Nat, ReadLately(m, i, t),
         NEW end \in Nat, t <= end
  PROVE  settings[m][i] \in SettingsOf(m, end) /\ t \in (balance.asked - ShortTtl + 1) .. end
<1>1. settings[m] \in Seq(SettingsSet) /\ balance.asked \in Nat /\ settings[m][i].set \in Nat /\ ShortTtl \in Nat
  BY SettingTyped, BalancesAssumption DEF BalanceTyped, SettingsSet
<1>2. settings[m][i].set <= end
  BY <1>1 DEF ReadLately, LastAt
<1>3. i # Len(settings[m]) => settings[m][i + 1].set > balance.asked - ShortTtl
  <2> SUFFICES ASSUME i # Len(settings[m]) PROVE settings[m][i + 1].set > balance.asked - ShortTtl
    OBVIOUS
  <2>1. i + 1 \in DOMAIN settings[m]
    BY <1>1
  <2>2. settings[m][i + 1].set \in Nat
    BY <2>1, SettingTyped DEF SettingsSet
  <2> QED BY <1>1, <2>2 DEF ReadLately, LastAt
<1>4. t \in (balance.asked - ShortTtl + 1) .. end
  BY <1>1 DEF ReadLately
<1> QED BY <1>2, <1>3, <1>4 DEF SettingsOf

(* Whatever the issuer of a mint sets, and for when, and whatever is in    *)
(* the caches: the tokens that are held are in the balance, what is shown  *)
(* of one comes of a setting, and its price of one, that was in force less *)
(* than a TTL before the request; only when one multiplier was in force    *)
(* all this time are the two sure to be of one setting, and the value then *)
(* is exact (getBalance, getUiAmounts, computeUsdBalance).                 *)
THEOREM BalanceShown == ServicesSpec => []BalanceAsHeld
<1>1. BalanceInv => BalanceAsHeld
  <2> SUFFICES ASSUME BalanceInv, balance.pc = "replied" PROVE NothingHeldHidden /\ ShownAsIssued
    BY DEF BalanceAsHeld
  <2> USE DEF BalanceInv
  <2>1. NothingHeldHidden
    <3> SUFFICES ASSUME NEW m \in HeldMints, Raw(m) > 0,
                        balance.available => MintOf[m].listing = "verified" /\ MintOf[m].decimals > 0
                 PROVE  m \in Visible(balance.includeSpam, balance.available, balance.metadata)
      BY DEF NothingHeldHidden, VisibleTrue
    <3>1. CASE balance.available
      <4>1. balance.metadata = GetByMints
        BY <3>1 DEF VisibleTrue
      <4>2. Merge(m) \in GetByMints /\ Merge(m).mint = m /\ Merge(m).verified
        BY <3>1 DEF GetByMints, Merge
      <4> QED BY <4>1, <4>2 DEF Visible
    <3>2. CASE ~balance.available
      BY <3>2 DEF Visible
    <3> QED BY <3>1, <3>2
  <2>2. ASSUME NEW m \in Scaled, m \in DOMAIN balance.ui
        PROVE  /\ \E s \in SettingsOf(m, balance.uiAt) : ShownAmount(m) = Raw(m) * ScaledUiMultiplier(s, balance.uiAt)
               /\ OneMultiplier(m) /\ m \in DOMAIN balance.prices => ComputeUsdBalance(m) = Raw(m) * MintOf[m].worth
    <3>1. balance.uiAt \in Nat /\ balance.asked <= balance.uiAt /\ balance.uiAt <= clock
      BY <2>2 DEF UiLately
    <3>2. PICK i \in DOMAIN settings[m], t \in Nat :
            /\ ReadLately(m, i, t) /\ t <= balance.uiAt
            /\ LET x == ScaledUiMultiplier(settings[m][i], balance.uiAt)
               IN  balance.ui[m] = IF x = 1 THEN Unset ELSE Raw(m) * x
      BY <2>2 DEF UiLately
    <3> DEFINE x == ScaledUiMultiplier(settings[m][i], balance.uiAt)
    <3>3. x \in Factors /\ x \in Nat /\ Raw(m) \in Int /\ m \in HeldMints
      BY MultiplierTyped, SettingTyped, FactorsNatural, RawTyped DEF Scaled
    <3>4. ShownAmount(m) = Raw(m) * x
      <4>1. Raw(m) * x \in Int /\ Raw(m) * 1 = Raw(m)
        BY <3>3
      <4>2. Raw(m) * x # Unset
        BY <4>1, BalancesAssumption
      <4> QED BY <2>2, <3>2, <4>1, <4>2 DEF ShownAmount
    <3>5. settings[m][i] \in SettingsOf(m, balance.uiAt)
      BY <3>1, <3>2, ReadInTime
    <3>6. ASSUME OneMultiplier(m), m \in DOMAIN balance.prices
          PROVE  ComputeUsdBalance(m) = Raw(m) * MintOf[m].worth
      <4>1. PICK j \in DOMAIN settings[m], u \in Nat :
              /\ ReadLately(m, j, u) /\ u <= balance.repliedAt
              /\ balance.prices[m] = MintOf[m].worth \div ScaledUiMultiplier(settings[m][j], u)
        BY <3>6 DEF PricesLately
      <4>2. balance.repliedAt \in Nat /\ balance.uiAt <= balance.repliedAt
        BY <2>2 DEF PricesLately
      <4>3. t <= balance.repliedAt
        BY <3>1, <3>2, <4>2
      <4>4. i = j
        BY <3>2, <3>6, <4>1, <4>2, <4>3, SameSetting
      <4>5. ScaledUiMultiplier(settings[m][j], u) = x
        BY <3>1, <3>6, <4>1, <4>2, <4>4, SameStage
      <4>6. balance.prices[m] = MintOf[m].worth \div x
        BY <4>1, <4>5
      <4> HIDE DEF x
      <4> QED BY <3>3, <3>4, <4>6, WorthDivided DEF ComputeUsdBalance
    <3> QED BY <3>4, <3>5, <3>6
  <2>3. ASSUME NEW m \in Scaled, m \in DOMAIN balance.prices
        PROVE  \E s \in SettingsOf(m, balance.repliedAt), t \in (balance.asked - ShortTtl + 1) .. balance.repliedAt :
                 balance.prices[m] = MintOf[m].worth \div ScaledUiMultiplier(s, t)
    <3>1. PICK j \in DOMAIN settings[m], u \in Nat :
            /\ ReadLately(m, j, u) /\ u <= balance.repliedAt
            /\ balance.prices[m] = MintOf[m].worth \div ScaledUiMultiplier(settings[m][j], u)
      BY <2>3 DEF PricesLately
    <3>2. balance.repliedAt \in Nat
      BY DEF PricesLately
    <3>3. settings[m][j] \in SettingsOf(m, balance.repliedAt) /\ u \in (balance.asked - ShortTtl + 1) .. balance.repliedAt
      BY <3>1, <3>2, ReadInTime
    <3> QED BY <3>1, <3>3
  <2> QED BY <2>1, <2>2, <2>3 DEF ShownAsIssued
<1> QED BY <1>1, BalanceInvAlways, PTL

-----------------------------------------------------------------------------
(* Filters: the k-th of what is kept.                                      *)

LEMMA RankGrows ==
  ASSUME NEW S, S \subseteq Int, IsFiniteSet(S), NEW i \in S
  PROVE  /\ Rank(S, i) \in 0 .. (Cardinality(S) - 1)
         /\ \A j \in S : i < j => Rank(S, i) < Rank(S, j)
<1> DEFINE Before(x) == {j \in S : j < x}
<1>0. \A x : Rank(S, x) = Cardinality(Before(x))
  BY DEF Rank
<1>1. \A x : Before(x) \in SUBSET S /\ IsFiniteSet(Before(x)) /\ Cardinality(Before(x)) \in Nat
  <2> TAKE x
  <2>1. Before(x) \in SUBSET S
    OBVIOUS
  <2> HIDE DEF Before
  <2>2. IsFiniteSet(Before(x))
    BY <2>1, FS_Subset, Zenon
  <2> QED BY <2>1, <2>2, FS_CardinalityType
<1>2. Cardinality(S \ {i}) = Cardinality(S) - 1 /\ IsFiniteSet(S \ {i}) /\ Cardinality(S) \in Nat
  BY FS_RemoveElement, FS_CardinalityType
<1>3. Before(i) \in SUBSET (S \ {i})
  OBVIOUS
<1>4. Cardinality(Before(i)) <= Cardinality(S) - 1
  <2> HIDE DEF Before
  <2>1. Cardinality(Before(i)) <= Cardinality(S \ {i})
    BY <1>2, <1>3, FS_Subset, Zenon
  <2> QED BY <2>1, <1>2
<1>5. ASSUME NEW j \in S, i < j PROVE Rank(S, i) < Rank(S, j)
  <2>0. i \in Int /\ j \in Int /\ \A x \in S : x \in Int
    OBVIOUS
  <2>1. Before(i) \cup {i} \in SUBSET Before(j) /\ i \notin Before(i)
    <3>1. \A x \in Before(i) : x \in Before(j)
      BY <1>5, <2>0
    <3>2. i \in Before(j) /\ i \notin Before(i)
      BY <1>5, <2>0
    <3> HIDE DEF Before
    <3> QED BY <3>1, <3>2
  <2> HIDE DEF Before
  <2>2. Cardinality(Before(i) \cup {i}) = IF i \in Before(i) THEN Cardinality(Before(i)) ELSE Cardinality(Before(i)) + 1
    BY <1>1, FS_AddElement, Zenon
  <2>3. Cardinality(Before(i) \cup {i}) <= Cardinality(Before(j))
    BY <1>1, <2>1, FS_Subset, Zenon
  <2> QED BY <1>0, <1>1, <2>1, <2>2, <2>3
<1> HIDE DEF Before
<1> QED BY <1>0, <1>1, <1>2, <1>4, <1>5

LEMMA NthOf ==
  ASSUME NEW S, S \subseteq Int, IsFiniteSet(S)
  PROVE  /\ \A k \in 1 .. Cardinality(S) : Nth(S, k) \in S /\ Rank(S, Nth(S, k)) = k - 1
         /\ \A i \in S : Rank(S, i) + 1 \in 1 .. Cardinality(S) /\ Nth(S, Rank(S, i) + 1) = i
<1>0. Cardinality(S) \in Nat
  BY FS_CardinalityType
<1> DEFINE n == Cardinality(S)
           RanksOf == 0 .. (n - 1)
           rank == [i \in S |-> Rank(S, i)]
<1>1. IsFiniteSet(RanksOf) /\ Cardinality(RanksOf) = n
  <2> HIDE DEF n
  <2>1. n \in Nat
    BY <1>0 DEF n
  <2> DEFINE b == n - 1
  <2>2. b \in Int /\ 0 \in Int
    BY <2>1
  <2>3. b = n - 1
    OBVIOUS
  <2> HIDE DEF b
  <2>4. IsFiniteSet(0 .. b) /\ Cardinality(0 .. b) = IF 0 > b THEN 0 ELSE b - 0 + 1
    BY <2>2, FS_Interval, Zenon
  <2>5. Cardinality(0 .. b) = n
    BY <2>1, <2>3, <2>4
  <2> QED BY <2>3, <2>4, <2>5
<1>2. \A i \in S : Rank(S, i) \in RanksOf
  BY RankGrows
<1>3. \A i, j \in S : Rank(S, i) = Rank(S, j) => i = j
  <2> SUFFICES ASSUME NEW i \in S, NEW j \in S, Rank(S, i) = Rank(S, j), i # j PROVE FALSE
    OBVIOUS
  <2>1. i \in Int /\ j \in Int /\ Rank(S, i) \in Int /\ Rank(S, j) \in Int
    BY <1>0, <1>2
  <2>2. i < j \/ j < i
    BY <2>1
  <2>3. /\ \A y \in S : i < y => Rank(S, i) < Rank(S, y)
        /\ \A y \in S : j < y => Rank(S, j) < Rank(S, y)
    BY RankGrows, Zenon
  <2>4. Rank(S, i) < Rank(S, j) \/ Rank(S, j) < Rank(S, i)
    BY <2>2, <2>3
  <2> QED BY <2>1, <2>4
<1>4. rank \in Injection(S, RanksOf)
  <2>1. rank \in [S -> RanksOf]
    BY <1>2
  <2>2. \A i, j \in S : rank[i] = rank[j] => i = j
    BY <1>3
  <2> HIDE DEF rank, RanksOf
  <2> QED BY <2>1, <2>2 DEF Injection, IsInjective
<1>5. \A p \in RanksOf : \E i \in S : Rank(S, i) = p
  <2> HIDE DEF RanksOf
  <2>1. rank \in Surjection(S, RanksOf)
    <3> HIDE DEF rank
    <3> QED BY <1>1, <1>4, FS_Injection, Zenon
  <2>2. \A p \in RanksOf : \E i \in S : rank[i] = p
    <3> HIDE DEF rank
    <3> QED BY <2>1 DEF Surjection
  <2> QED BY <2>2
<1>6. ASSUME NEW k \in 1 .. Cardinality(S) PROVE Nth(S, k) \in S /\ Rank(S, Nth(S, k)) = k - 1
  <2>1. k - 1 \in RanksOf
    BY <1>0
  <2>2. \E i \in S : Rank(S, i) = k - 1
    BY <2>1, <1>5
  <2> QED BY <2>2 DEF Nth
<1>7. ASSUME NEW i \in S PROVE Rank(S, i) + 1 \in 1 .. Cardinality(S) /\ Nth(S, Rank(S, i) + 1) = i
  <2>1. Rank(S, i) + 1 \in 1 .. Cardinality(S) /\ Rank(S, i) \in Int
    BY <1>0, <1>2
  <2>2. Nth(S, Rank(S, i) + 1) \in S /\ Rank(S, Nth(S, Rank(S, i) + 1)) = (Rank(S, i) + 1) - 1
    BY <2>1, <1>6
  <2>3. Rank(S, Nth(S, Rank(S, i) + 1)) = Rank(S, i)
    BY <2>1, <2>2
  <2> QED BY <1>3, <2>1, <2>2, <2>3
<1> QED BY <1>6, <1>7

LEMMA Selected ==
  ASSUME NEW T, NEW s \in Seq(T), NEW S, S \subseteq DOMAIN s
  PROVE  /\ IsFiniteSet(S) /\ S \subseteq Int /\ Cardinality(S) \in Nat
         /\ SelectAt(s, S) \in Seq(T) /\ Len(SelectAt(s, S)) = Cardinality(S)
         /\ \A k \in 1 .. Cardinality(S) : Nth(S, k) \in S /\ SelectAt(s, S)[k] = s[Nth(S, k)]
<1>1. DOMAIN s = 1 .. Len(s) /\ Len(s) \in Nat /\ \A i \in DOMAIN s : s[i] \in T
  OBVIOUS
<1>2. IsFiniteSet(1 .. Len(s))
  BY <1>1, FS_Interval
<1>3. IsFiniteSet(S) /\ S \subseteq Int
  BY <1>1, <1>2, FS_Subset
<1>4. Cardinality(S) \in Nat
  BY <1>3, FS_CardinalityType
<1>5. \A k \in 1 .. Cardinality(S) : Nth(S, k) \in S
  BY <1>3, NthOf
<1>6. SelectAt(s, S) = [k \in 1 .. Cardinality(S) |-> s[Nth(S, k)]]
  BY DEF SelectAt
<1>7. \A k \in 1 .. Cardinality(S) : s[Nth(S, k)] \in T
  BY <1>1, <1>5
<1>8. SelectAt(s, S) \in [1 .. Cardinality(S) -> T]
  BY <1>6, <1>7
<1>9. SelectAt(s, S) \in Seq(T) /\ Len(SelectAt(s, S)) = Cardinality(S)
  BY <1>4, <1>8, <1>6
<1> QED BY <1>3, <1>4, <1>5, <1>6, <1>9

-----------------------------------------------------------------------------
(* NFT listings (NftListing).                                              *)

NftEntries == [mint : Nat, name : Names, uri : BOOLEAN, collectionVerified : BOOLEAN, image : BOOLEAN, json : Documents,
          metadataResolved : BOOLEAN]
Pages == [pc : {"idle", "das", "token2022", "metadata", "hydrate", "replied"}, offset : Nat, das : Seq(Items),
          token2022 : Seq(Items), total : Seq(NftEntries), nfts : Seq(NftEntries), failed : BOOLEAN, shown : SUBSET Nat]

(* What a page says of an NFT n: its name or none, and its document as it  *)
(* is stored, or none; one without a name is not looked up.                *)
ReadFrom(n, r) ==
  /\ r.mint = n.mint /\ r.name \in {n.name, "none"}
  /\ r.name = "none" => ~r.uri /\ ~r.metadataResolved
  /\ r.json = IF r.metadataResolved THEN ToStoredMetadata(n.json) ELSE NoDocument

IsRead(r) == \E i \in DOMAIN wallet : ReadFrom(wallet[i], r)

Token2022Held == {i \in DOMAIN wallet : wallet[i].token2022 /\ IsHeldByOwner(wallet[i])}
Reached == SubSeq(wallet, 1, FirstPage(wallet))
IndexListed == {i \in DOMAIN wallet : /\ wallet[i].indexed /\ i <= FirstPage(wallet) /\ IsHeldByOwner(wallet[i])
                                      /\ wallet[i].indexName # "none" \/ ~wallet[i].token2022}

Times(list, mint) == Cardinality({j \in DOMAIN list : list[j].mint = mint})
ListedRight(list) ==
  \A i \in DOMAIN wallet :
    LET n == wallet[i]
        reached == n.indexed /\ i <= FirstPage(wallet)
    IN  Times(list, n.mint) = CASE ~n.held -> 0
                                [] n.held /\ n.token2022 /\ reached /\ n.indexName # "none" -> 2
                                [] n.held /\ ~n.token2022 /\ ~reached -> 0
                                [] OTHER -> 1

NftTyped == wallet \in Holdings /\ page \in Pages
DocsTrue == \A m \in DOMAIN docCache : docCache[m] \in FetchOffchainMetadata(m)
DasTrue ==
  /\ page.pc = "das" => page.das = <<>> /\ ~page.failed
  /\ page.pc \in {"token2022", "metadata"} => page.das = IF page.failed THEN <<>> ELSE Reached
Token2022True == page.pc = "metadata" => page.token2022 = SelectAt(wallet, Token2022Held)
TotalTrue == page.pc \in {"hydrate", "replied"} /\ ~page.failed => ListedRight(page.total)
PageRead == \A i \in DOMAIN page.nfts : IsRead(page.nfts[i])
ShownTrue ==
  page.pc = "replied" =>
    page.shown = {i \in DOMAIN page.nfts : /\ ~Whole(page.nfts[i].mint).blacklisted
                                           /\ SpamScore(page.nfts[i], CountNames(page.nfts)) < SpamThreshold}

NftInv == NftTyped /\ DocsTrue /\ DasTrue /\ Token2022True /\ TotalTrue /\ PageRead /\ ShownTrue

LEMMA WalletTyped ==
  ASSUME wallet \in Holdings
  PROVE  /\ wallet \in Seq(Items) /\ Len(wallet) \in Nat /\ DOMAIN wallet = 1 .. Len(wallet)
         /\ \A i \in DOMAIN wallet :
              /\ wallet[i] \in Items /\ Whole(wallet[i].mint) = wallet[i]
              /\ wallet[i].indexed \/ wallet[i].token2022
              /\ wallet[i].indexName \in {wallet[i].name, "none"}
         /\ \A i, j \in DOMAIN wallet : wallet[i].mint = wallet[j].mint => i = j
<1>1. wallet \in Seq(Items)
  BY ListingAssumption
<1>2. \A i, j \in DOMAIN wallet : /\ wallet[i].mint = wallet[j].mint => i = j
                                  /\ wallet[i].indexed \/ wallet[i].token2022
                                  /\ wallet[i].indexName \in {wallet[i].name, "none"}
  BY ListingAssumption
<1>3. ASSUME NEW i \in DOMAIN wallet PROVE Whole(wallet[i].mint) = wallet[i]
  <2>1. (CHOOSE j \in DOMAIN wallet : wallet[j].mint = wallet[i].mint) = i
    BY <1>2
  <2> QED BY <2>1 DEF Whole
<1> QED BY <1>1, <1>2, <1>3

(* The first page ends somewhere in the wallet.                            *)
LEMMA PageEnds ==
  ASSUME wallet \in Holdings
  PROVE  /\ FirstPage(wallet) \in 0 .. Len(wallet) /\ Reached \in Seq(Items)
         /\ DOMAIN Reached = 1 .. FirstPage(wallet) /\ \A i \in 1 .. FirstPage(wallet) : Reached[i] = wallet[i]
<1> DEFINE S == {k \in 0 .. Len(wallet) : Cardinality({i \in 1 .. k : wallet[i].indexed}) <= DasLimit}
           R == {Len(wallet) - k : k \in S}
           e == FirstPage(wallet)
<1>1. wallet \in Seq(Items) /\ Len(wallet) \in Nat
  BY WalletTyped
<1>2. 0 \in S
  <2>1. {i \in 1 .. 0 : wallet[i].indexed} = {}
    OBVIOUS
  <2>2. Cardinality({i \in 1 .. 0 : wallet[i].indexed}) = 0
    BY <2>1, FS_EmptySet
  <2>3. DasLimit \in Nat
    BY ListingAssumption
  <2> QED BY <1>1, <2>2, <2>3
<1>3. e = Max(S)
  BY DEF FirstPage
<1>4. S \subseteq 0 .. Len(wallet)
  OBVIOUS
<1> HIDE DEF S, e
<1>5. PICK r \in R : \A q \in R : r <= q
  <2>1. R \subseteq Nat /\ R # {}
    BY <1>1, <1>2, <1>4
  <2> HIDE DEF R
  <2> QED BY <2>1, LeastOf
<1>6. PICK k \in S : r = Len(wallet) - k
  BY <1>5
<1>7. \A j \in S : j <= k
  <2> TAKE j \in S
  <2>1. r <= Len(wallet) - j
    BY <1>5
  <2> QED BY <1>1, <1>4, <1>6, <2>1
<1>8. e \in S
  <2>1. \E x \in S : \A y \in S : x >= y
    BY <1>1, <1>4, <1>7
  <2> QED BY <1>3, <2>1 DEF Max
<1>9. e \in 0 .. Len(wallet) /\ e \in Nat /\ e <= Len(wallet)
  BY <1>1, <1>4, <1>8
<1>10. CASE e = 0
  <2>1. Reached = <<>>
    BY <1>1, <1>10 DEF Reached, e
  <2>2. <<>> \in Seq(Items) /\ DOMAIN <<>> = {} /\ 1 .. 0 = {}
    OBVIOUS
  <2> QED BY <1>9, <1>10, <2>1, <2>2 DEF e
<1>11. CASE e > 0
  <2>1. 1 \in 1 .. (Len(wallet) + 1) /\ e \in (1 - 1) .. Len(wallet)
    BY <1>1, <1>9
  <2>2. /\ SubSeq(wallet, 1, e) \in Seq(Items) /\ Len(SubSeq(wallet, 1, e)) = e - 1 + 1
        /\ \A i \in 1 .. (e - 1 + 1) : SubSeq(wallet, 1, e)[i] = wallet[1 + i - 1]
    BY <1>1, <2>1, SubSeqProperties
  <2>3. e - 1 + 1 = e /\ \A i \in 1 .. e : 1 + i - 1 = i
    BY <1>9
  <2>4. DOMAIN SubSeq(wallet, 1, e) = 1 .. e
    BY <2>2, <2>3
  <2>5. Reached = SubSeq(wallet, 1, e)
    BY DEF Reached, e
  <2> HIDE DEF Reached
  <2>6. \A i \in 1 .. e : Reached[i] = wallet[i]
    BY <2>2, <2>3, <2>5
  <2> QED BY <1>9, <2>2, <2>4, <2>5, <2>6 DEF e
<1> QED BY <1>9, <1>10, <1>11

(* What is read of an NFT has the shape of a list's entry.                 *)
LEMMA ReadTyped ==
  ASSUME NEW n \in Items, NEW name \in {n.name, "none"}
  PROVE  /\ Read(n, name, NoDocument, FALSE) \in NftEntries /\ ReadFrom(n, Read(n, name, NoDocument, FALSE))
         /\ Read(n, name, NoDocument, FALSE).mint = n.mint
<1>1. /\ n.mint \in Nat /\ n.name \in Names /\ n.uri \in BOOLEAN /\ n.collectionVerified \in BOOLEAN
      /\ n.indexed \in BOOLEAN /\ n.image \in BOOLEAN
  BY DEF Items
<1>2. name \in Names
  BY <1>1 DEF Names
<1>3. NoDocument \in Documents
  BY DEF NoDocument, Documents
<1> DEFINE r == Read(n, name, NoDocument, FALSE)
<1>4. r = [mint |-> n.mint, name |-> name, uri |-> n.uri /\ name # "none",
           collectionVerified |-> n.collectionVerified, image |-> n.indexed /\ n.image, json |-> NoDocument,
           metadataResolved |-> FALSE]
  BY DEF Read
<1>5. (n.uri /\ name # "none") \in BOOLEAN /\ (n.indexed /\ n.image) \in BOOLEAN
  BY <1>1
<1>6. r \in NftEntries
  <2> HIDE DEF r
  <2> QED BY <1>1, <1>2, <1>3, <1>4, <1>5 DEF NftEntries
<1>7. ReadFrom(n, r)
  BY DEF ReadFrom, Read
<1>8. r.mint = n.mint
  BY <1>7 DEF ReadFrom
<1> QED BY <1>6, <1>7, <1>8

LEMMA DocRead ==
  ASSUME NEW n \in Items
  PROVE  ToStoredMetadata(n.json) \in Documents /\ NoDocument \in Documents
<1>1. n.json \in Documents
  BY DEF Items
<1> QED BY <1>1 DEF Documents, ToStoredMetadata, NoDocument

(* The list of both, whichever of the wallet's NFTs are kept in each.      *)
ListOf(D, T, named) ==
  [i \in DOMAIN D |-> TransformDasAsset(D[i])]
  \o [i \in DOMAIN T |-> Read(T[i], IF named THEN PickMetadata(T[i]) ELSE "none", NoDocument, FALSE)]

LEMMA ListIsRead ==
  ASSUME wallet \in Holdings, NEW D \in Seq(Items), NEW T \in Seq(Items), NEW named \in BOOLEAN,
         \A k \in DOMAIN D : \E i \in DOMAIN wallet : D[k] = wallet[i],
         \A k \in DOMAIN T : \E i \in DOMAIN wallet : T[k] = wallet[i]
  PROVE  /\ ListOf(D, T, named) \in Seq(NftEntries) /\ Len(ListOf(D, T, named)) = Len(D) + Len(T)
         /\ \A k \in DOMAIN ListOf(D, T, named) : IsRead(ListOf(D, T, named)[k])
         /\ \A k \in 1 .. Len(D) : ListOf(D, T, named)[k].mint = D[k].mint
         /\ \A k \in 1 .. Len(T) : ListOf(D, T, named)[Len(D) + k].mint = T[k].mint
<1> DEFINE A == [i \in DOMAIN D |-> TransformDasAsset(D[i])]
           nm(i) == IF named THEN PickMetadata(T[i]) ELSE "none"
           B == [i \in DOMAIN T |-> Read(T[i], nm(i), NoDocument, FALSE)]
<1>1. ASSUME NEW k \in DOMAIN D PROVE A[k] \in NftEntries /\ IsRead(A[k]) /\ A[k].mint = D[k].mint
  <2>1. PICK i \in DOMAIN wallet : D[k] = wallet[i]
    OBVIOUS
  <2>2. D[k] \in Items /\ D[k].indexName \in {D[k].name, "none"}
    BY <2>1, WalletTyped
  <2>3. A[k] = Read(D[k], D[k].indexName, NoDocument, FALSE)
    BY DEF TransformDasAsset
  <2> HIDE DEF A
  <2>4. A[k] \in NftEntries /\ ReadFrom(D[k], A[k]) /\ A[k].mint = D[k].mint
    BY <2>2, <2>3, ReadTyped
  <2> QED BY <2>1, <2>4 DEF IsRead
<1>2. ASSUME NEW k \in DOMAIN T PROVE B[k] \in NftEntries /\ IsRead(B[k]) /\ B[k].mint = T[k].mint
  <2>1. PICK i \in DOMAIN wallet : T[k] = wallet[i]
    OBVIOUS
  <2>2. T[k] \in Items /\ nm(k) \in {T[k].name, "none"}
    BY <2>1, WalletTyped DEF PickMetadata
  <2>3. B[k] = Read(T[k], nm(k), NoDocument, FALSE)
    OBVIOUS
  <2> HIDE DEF B, nm
  <2>4. B[k] \in NftEntries /\ ReadFrom(T[k], B[k]) /\ B[k].mint = T[k].mint
    BY <2>2, <2>3, ReadTyped
  <2> QED BY <2>1, <2>4 DEF IsRead
<1>3. /\ DOMAIN D = 1 .. Len(D) /\ Len(D) \in Nat /\ DOMAIN T = 1 .. Len(T) /\ Len(T) \in Nat
      /\ DOMAIN A = DOMAIN D /\ DOMAIN B = DOMAIN T
  OBVIOUS
<1>4. ListOf(D, T, named) = A \o B
  BY DEF ListOf
<1>a. A = [k \in 1 .. Len(D) |-> A[k]] /\ B = [k \in 1 .. Len(T) |-> B[k]]
  BY <1>3
<1> HIDE DEF A, B, nm
<1>5. A \in Seq(NftEntries) /\ Len(A) = Len(D) /\ B \in Seq(NftEntries) /\ Len(B) = Len(T)
  <2>1. A \in [1 .. Len(D) -> NftEntries] /\ B \in [1 .. Len(T) -> NftEntries]
    BY <1>1, <1>2, <1>3, <1>a
  <2> QED BY <2>1, <1>3
<1>6. /\ A \o B \in Seq(NftEntries) /\ Len(A \o B) = Len(A) + Len(B)
      /\ \A k \in 1 .. Len(A) + Len(B) : (A \o B)[k] = IF k <= Len(A) THEN A[k] ELSE B[k - Len(A)]
  BY <1>5, ConcatProperties
<1> DEFINE L == A \o B
<1>7. L = ListOf(D, T, named) /\ L \in Seq(NftEntries) /\ Len(L) = Len(D) + Len(T)
      /\ \A k \in 1 .. (Len(D) + Len(T)) : L[k] = IF k <= Len(D) THEN A[k] ELSE B[k - Len(D)]
  BY <1>4, <1>5, <1>6
<1> HIDE DEF L
<1>8. \A k \in 1 .. Len(D) : L[k] = A[k]
  BY <1>3, <1>7
<1>9. \A k \in 1 .. Len(T) : L[Len(D) + k] = B[k]
  <2> TAKE k \in 1 .. Len(T)
  <2>1. Len(D) + k \in 1 .. (Len(D) + Len(T)) /\ ~(Len(D) + k <= Len(D)) /\ (Len(D) + k) - Len(D) = k
    BY <1>3
  <2> DEFINE q == Len(D) + k
  <2>2. q \in 1 .. (Len(D) + Len(T)) /\ ~(q <= Len(D)) /\ q - Len(D) = k
    BY <2>1
  <2> HIDE DEF q
  <2>3. L[q] = B[k]
    BY <2>2, <1>7
  <2> QED BY <2>3 DEF q
<1>10. ASSUME NEW k \in DOMAIN L PROVE IsRead(L[k])
  <2>1. k \in 1 .. (Len(D) + Len(T)) /\ k \in Int
    BY <1>7, <1>3
  <2>2. CASE k <= Len(D)
    <3>1. k \in DOMAIN D /\ L[k] = A[k]
      BY <2>1, <2>2, <1>3, <1>7
    <3> QED BY <3>1, <1>1
  <2>3. CASE ~(k <= Len(D))
    <3>1. (k - Len(D)) \in DOMAIN T /\ L[k] = B[k - Len(D)]
      BY <2>1, <2>3, <1>3, <1>7
    <3> QED BY <3>1, <1>2
  <2> QED BY <2>2, <2>3
<1>11. \A k \in 1 .. Len(D) : L[k].mint = D[k].mint
  BY <1>1, <1>3, <1>8
<1>12. \A k \in 1 .. Len(T) : L[Len(D) + k].mint = T[k].mint
  BY <1>2, <1>3, <1>9
<1> QED BY <1>7, <1>10, <1>11, <1>12

(* The indices of the index's copies are those the wallet's items say.     *)
LEMMA InTheIndex ==
  ASSUME wallet \in Holdings
  PROVE  /\ DasNfts(Reached, SelectAt(wallet, Token2022Held)) = SelectAt(wallet, IndexListed)
         /\ \A T : DasNfts(<<>>, T) = SelectAt(<<>>, {})
<1> DEFINE T == SelectAt(wallet, Token2022Held)
           Mints2022 == {T[j].mint : j \in DOMAIN T}
<1>1. /\ wallet \in Seq(Items) /\ Token2022Held \subseteq DOMAIN wallet
      /\ \A i \in DOMAIN wallet : wallet[i] \in Items
      /\ \A i, j \in DOMAIN wallet : wallet[i].mint = wallet[j].mint => i = j
  BY WalletTyped DEF Token2022Held
<1>2. /\ IsFiniteSet(Token2022Held) /\ Token2022Held \subseteq Int /\ Cardinality(Token2022Held) \in Nat
      /\ T \in Seq(Items) /\ Len(T) = Cardinality(Token2022Held)
      /\ \A k \in 1 .. Cardinality(Token2022Held) :
           Nth(Token2022Held, k) \in Token2022Held /\ T[k] = wallet[Nth(Token2022Held, k)]
  BY <1>1, Selected
<1>3. \A i \in Token2022Held : /\ Rank(Token2022Held, i) + 1 \in 1 .. Cardinality(Token2022Held)
                               /\ Nth(Token2022Held, Rank(Token2022Held, i) + 1) = i
  BY <1>2, NthOf
<1> HIDE DEF T
<1>4. DOMAIN T = 1 .. Cardinality(Token2022Held)
  BY <1>2
<1>5. ASSUME NEW i \in DOMAIN wallet PROVE wallet[i].mint \in Mints2022 <=> i \in Token2022Held
  <2>1. ASSUME i \in Token2022Held PROVE wallet[i].mint \in Mints2022
    <3> DEFINE k == Rank(Token2022Held, i) + 1
    <3>1. k \in DOMAIN T /\ Nth(Token2022Held, k) = i
      BY <1>3, <1>4, <2>1
    <3> HIDE DEF k
    <3>2. T[k] = wallet[i]
      BY <1>2, <1>4, <3>1
    <3> QED BY <3>1, <3>2
  <2>2. ASSUME wallet[i].mint \in Mints2022 PROVE i \in Token2022Held
    <3>1. PICK k \in DOMAIN T : T[k].mint = wallet[i].mint
      BY <2>2
    <3> DEFINE j == Nth(Token2022Held, k)
    <3>2. j \in Token2022Held /\ T[k] = wallet[j]
      BY <1>2, <1>4
    <3> HIDE DEF j
    <3>3. j = i
      BY <1>1, <3>1, <3>2
    <3> QED BY <3>2, <3>3
  <2> QED BY <2>1, <2>2
<1> HIDE DEF Mints2022
<1> DEFINE w == Reached
           D == {i \in DOMAIN w : /\ w[i].indexed /\ IsHeldByOwner(w[i])
                                  /\ w[i].indexName # "none" \/ w[i].mint \notin Mints2022}
<1>5a. /\ w \in Seq(Items) /\ DOMAIN w = 1 .. FirstPage(wallet) /\ FirstPage(wallet) \in 0 .. Len(wallet)
       /\ \A i \in 1 .. FirstPage(wallet) : w[i] = wallet[i]
  BY PageEnds
<1> HIDE DEF w
<1>6. D = IndexListed
  <2>1. DOMAIN wallet = 1 .. Len(wallet) /\ Len(wallet) \in Nat
    BY <1>1
  <2>2. \A i \in DOMAIN wallet : i \in DOMAIN w <=> i <= FirstPage(wallet)
    BY <1>5a, <2>1
  <2>3. \A i \in DOMAIN w : i \in DOMAIN wallet /\ w[i] = wallet[i]
    BY <1>5a, <2>1
  <2>4. \A i \in DOMAIN wallet : i \in D <=> i \in IndexListed
    BY <1>5, <2>2, <2>3 DEF IndexListed, Token2022Held
  <2>5. D \subseteq DOMAIN wallet /\ IndexListed \subseteq DOMAIN wallet
    BY <2>3 DEF IndexListed
  <2> HIDE DEF D
  <2> QED BY <2>4, <2>5
<1>7. DasNfts(w, T) = SelectAt(wallet, D)
  <2>1. DasNfts(w, T) = SelectAt(w, D)
    BY DEF DasNfts, Mints2022
  <2>2. D \subseteq DOMAIN w
    OBVIOUS
  <2> HIDE DEF D
  <2>3. \A k \in 1 .. Cardinality(D) : Nth(D, k) \in D
    BY <1>5a, <2>2, Selected
  <2>4. \A k \in 1 .. Cardinality(D) : w[Nth(D, k)] = wallet[Nth(D, k)]
    BY <1>5a, <2>2, <2>3
  <2> QED BY <2>1, <2>4 DEF SelectAt
<1> HIDE DEF D
<1>8. \A U : DasNfts(<<>>, U) = SelectAt(<<>>, {})
  <2> TAKE U
  <2>1. DOMAIN <<>> = {}
    OBVIOUS
  <2> QED BY <2>1 DEF DasNfts
<1> QED BY <1>6, <1>7, <1>8 DEF T, w

(* How often an NFT is in the list: once for each of the two it is kept in.*)
LEMMA TimesInList ==
  ASSUME wallet \in Holdings, NEW L,
         DOMAIN L = 1 .. (Cardinality(IndexListed) + Cardinality(Token2022Held)),
         \A k \in 1 .. Cardinality(IndexListed) : L[k].mint = wallet[Nth(IndexListed, k)].mint,
         \A k \in 1 .. Cardinality(Token2022Held) :
           L[Cardinality(IndexListed) + k].mint = wallet[Nth(Token2022Held, k)].mint
  PROVE  ListedRight(L)
<1> DEFINE D == IndexListed
           T == Token2022Held
           d == Cardinality(D)
           t == Cardinality(T)
<1>1. /\ wallet \in Seq(Items) /\ D \subseteq DOMAIN wallet /\ T \subseteq DOMAIN wallet
      /\ \A i \in DOMAIN wallet : wallet[i] \in Items /\ (wallet[i].indexed \/ wallet[i].token2022)
      /\ \A i, j \in DOMAIN wallet : wallet[i].mint = wallet[j].mint => i = j
  BY WalletTyped DEF Token2022Held, IndexListed
<1>2. /\ IsFiniteSet(D) /\ D \subseteq Int /\ d \in Nat
      /\ IsFiniteSet(T) /\ T \subseteq Int /\ t \in Nat
  <2> HIDE DEF D, T, d, t
  <2>1. IsFiniteSet(D) /\ D \subseteq Int /\ Cardinality(D) \in Nat
    BY <1>1, Selected
  <2>2. IsFiniteSet(T) /\ T \subseteq Int /\ Cardinality(T) \in Nat
    BY <1>1, Selected
  <2> QED BY <2>1, <2>2 DEF d, t
<1>3. /\ \A k \in 1 .. d : Nth(D, k) \in D /\ Rank(D, Nth(D, k)) = k - 1
      /\ \A i \in D : Rank(D, i) + 1 \in 1 .. d /\ Nth(D, Rank(D, i) + 1) = i
  <2> HIDE DEF D
  <2> QED BY <1>2, NthOf
<1>4. /\ \A k \in 1 .. t : Nth(T, k) \in T /\ Rank(T, Nth(T, k)) = k - 1
      /\ \A i \in T : Rank(T, i) + 1 \in 1 .. t /\ Nth(T, Rank(T, i) + 1) = i
  <2> HIDE DEF T
  <2> QED BY <1>2, NthOf
<1>5. /\ DOMAIN L = 1 .. (d + t)
      /\ \A k \in 1 .. d : L[k].mint = wallet[Nth(D, k)].mint
      /\ \A k \in 1 .. t : L[d + k].mint = wallet[Nth(T, k)].mint
  OBVIOUS
<1>6. \A i \in DOMAIN wallet : /\ i \in D <=> wallet[i].indexed /\ i <= FirstPage(wallet) /\ wallet[i].held
                                              /\ (wallet[i].indexName # "none" \/ ~wallet[i].token2022)
                               /\ i \in T <=> wallet[i].token2022 /\ wallet[i].held
  BY DEF IndexListed, Token2022Held, IsHeldByOwner
<1> HIDE DEF D, T, d, t
<1> SUFFICES ASSUME NEW i \in DOMAIN wallet
             PROVE  LET n == wallet[i]
                        reached == n.indexed /\ i <= FirstPage(wallet)
                    IN  Times(L, n.mint) = CASE ~n.held -> 0
                                             [] n.held /\ n.token2022 /\ reached /\ n.indexName # "none" -> 2
                                             [] n.held /\ ~n.token2022 /\ ~reached -> 0
                                             [] OTHER -> 1
  BY DEF ListedRight
<1> DEFINE At == {j \in DOMAIN L : L[j].mint = wallet[i].mint}
           p == Rank(D, i) + 1
           q == d + (Rank(T, i) + 1)
<1>7. ASSUME NEW k \in 1 .. d PROVE L[k].mint = wallet[i].mint <=> (i \in D /\ k = p)
  <2> DEFINE j == Nth(D, k)
  <2>1. j \in D /\ Rank(D, j) = k - 1 /\ L[k].mint = wallet[j].mint
    BY <1>3, <1>5
  <2>2. L[k].mint = wallet[i].mint => i = j
    <3> HIDE DEF j
    <3> QED BY <1>1, <2>1
  <2>3. k = (k - 1) + 1
    BY <1>2
  <2>4. i = j => i \in D /\ k = p
    <3> HIDE DEF j
    <3> QED BY <2>1, <2>3
  <2>5. i \in D /\ k = p => i = j
    BY <1>3
  <2> HIDE DEF j, p
  <2> QED BY <2>1, <2>2, <2>4, <2>5
<1>8. ASSUME NEW k \in 1 .. t PROVE L[d + k].mint = wallet[i].mint <=> (i \in T /\ k = Rank(T, i) + 1)
  <2> DEFINE j == Nth(T, k)
  <2>1. j \in T /\ Rank(T, j) = k - 1 /\ L[d + k].mint = wallet[j].mint
    BY <1>4, <1>5
  <2>2. L[d + k].mint = wallet[i].mint => i = j
    <3> HIDE DEF j
    <3> QED BY <1>1, <2>1
  <2>3. k = (k - 1) + 1
    BY <1>2
  <2>4. i = j => i \in T /\ k = Rank(T, i) + 1
    <3> HIDE DEF j
    <3> QED BY <2>1, <2>3
  <2>5. i \in T /\ k = Rank(T, i) + 1 => i = j
    BY <1>4
  <2> HIDE DEF j
  <2> QED BY <2>1, <2>2, <2>4, <2>5
<1>9. i \in D => p \in 1 .. d /\ p \in At /\ p <= d
  <2> SUFFICES ASSUME i \in D PROVE p \in 1 .. d /\ p \in At /\ p <= d
    OBVIOUS
  <2>1. p \in 1 .. d
    BY <1>3
  <2>2. L[p].mint = wallet[i].mint
    BY <1>7, <2>1
  <2> HIDE DEF p
  <2>3. p \in 1 .. (d + t) /\ p <= d
    BY <1>2, <2>1
  <2>4. p \in DOMAIN L
    BY <1>5, <2>3
  <2> QED BY <2>1, <2>2, <2>3, <2>4
<1>10. i \in T => q \in At /\ q > d /\ q \in Int
  <2> SUFFICES ASSUME i \in T PROVE q \in At /\ q > d /\ q \in Int
    OBVIOUS
  <2> DEFINE k == Rank(T, i) + 1
  <2>1. k \in 1 .. t /\ q = d + k
    BY <1>4
  <2>2. L[d + k].mint = wallet[i].mint
    BY <1>8, <2>1
  <2> HIDE DEF q, k
  <2>3. q \in 1 .. (d + t) /\ q > d /\ q \in Int
    BY <1>2, <2>1
  <2>4. q \in DOMAIN L
    BY <1>5, <2>3
  <2> QED BY <2>1, <2>2, <2>3, <2>4
<1>11. ASSUME NEW j \in At PROVE (i \in D /\ j = p) \/ (i \in T /\ j = q)
  <2>0. j \in DOMAIN L /\ L[j].mint = wallet[i].mint
    OBVIOUS
  <2>1. j \in 1 .. (d + t) /\ L[j].mint = wallet[i].mint /\ j \in Int
    <3> HIDE DEF At
    <3>1. j \in 1 .. (d + t)
      BY <1>5, <2>0, Zenon
    <3>2. (d + t) \in Int
      BY <1>2
    <3>3. j \in Int
      BY <3>1, <3>2
    <3> QED BY <2>0, <3>1, <3>3
  <2>2. CASE j <= d
    <3>1. j \in 1 .. d
      BY <1>2, <2>1, <2>2
    <3>2. i \in D /\ j = p
      <4> HIDE DEF p
      <4> QED BY <1>7, <2>1, <3>1
    <3> QED BY <3>2
  <2>3. CASE ~(j <= d)
    <3> DEFINE k == j - d
    <3>1. k \in 1 .. t /\ j = d + k
      BY <1>2, <2>1, <2>3
    <3> HIDE DEF k
    <3>2. i \in T /\ k = Rank(T, i) + 1
      BY <1>8, <2>1, <3>1
    <3> QED BY <3>1, <3>2
  <2> QED BY <2>2, <2>3
<1>12. Times(L, wallet[i].mint) = Cardinality(At)
  BY DEF Times
<1> HIDE DEF At, p, q
<1>13. /\ i \in D /\ i \notin T => At = {p}
       /\ i \notin D /\ i \in T => At = {q}
       /\ i \notin D /\ i \notin T => At = {}
       /\ i \in D /\ i \in T => At = {p} \cup {q} /\ p # q
  <2>1. i \in D /\ i \in T => p # q
    BY <1>2, <1>9, <1>10
  <2> QED BY <1>9, <1>10, <1>11, <2>1
<1>14. /\ IsFiniteSet({p}) /\ Cardinality({p}) = 1 /\ Cardinality({q}) = 1 /\ Cardinality({}) = 0
       /\ Cardinality({p} \cup {q}) = IF q \in {p} THEN Cardinality({p}) ELSE Cardinality({p}) + 1
  <2>1. IsFiniteSet({p}) /\ Cardinality({p}) = 1 /\ Cardinality({q}) = 1 /\ Cardinality({}) = 0
    BY FS_Singleton, FS_EmptySet, Zenon
  <2> QED BY <2>1, FS_AddElement, Zenon
<1>15. /\ i \in D /\ i \notin T => Cardinality(At) = 1
       /\ i \notin D /\ i \in T => Cardinality(At) = 1
       /\ i \notin D /\ i \notin T => Cardinality(At) = 0
       /\ i \in D /\ i \in T => Cardinality(At) = 2
  <2>1. i \in D /\ i \notin T => Cardinality(At) = 1
    BY <1>13, <1>14
  <2>2. i \notin D /\ i \in T => Cardinality(At) = 1
    BY <1>13, <1>14
  <2>3. i \notin D /\ i \notin T => Cardinality(At) = 0
    BY <1>13, <1>14
  <2>4. i \in D /\ i \in T => Cardinality(At) = 2
    <3> SUFFICES ASSUME i \in D, i \in T PROVE Cardinality(At) = 2
      OBVIOUS
    <3>1. At = {p} \cup {q} /\ q \notin {p}
      BY <1>13
    <3>2. Cardinality(At) = Cardinality({p} \cup {q})
      BY <3>1
    <3>3. Cardinality({p} \cup {q}) = Cardinality({p}) + 1
      BY <1>14, <3>1
    <3>4. Cardinality({p}) = 1
      BY <1>14
    <3>5. Cardinality({p} \cup {q}) = 2
      <4>1. \A c : c = 1 => c + 1 = 2
        OBVIOUS
      <4> QED BY <3>3, <3>4, <4>1, Zenon
    <3> QED BY <3>2, <3>5
  <2> QED BY <2>1, <2>2, <2>3, <2>4
<1>16. /\ wallet[i].indexed \/ wallet[i].token2022
       /\ i \in D <=> wallet[i].indexed /\ i <= FirstPage(wallet) /\ wallet[i].held /\ (wallet[i].indexName # "none" \/ ~wallet[i].token2022)
       /\ i \in T <=> wallet[i].token2022 /\ wallet[i].held
  BY <1>1, <1>6
<1> QED BY <1>12, <1>15, <1>16

(* A page's NFTs are some of the list's.                                   *)
SomeOf(t, list) == \A k \in DOMAIN t : \E j \in DOMAIN list : t[k] = list[j]

LEMMA PageOfList ==
  ASSUME NEW R, NEW s \in Seq(R), NEW o \in Nat
  PROVE  PaginateNfts(s, o) \in Seq(R) /\ SomeOf(PaginateNfts(s, o), s)
<1> DEFINE e == Min({o + Limit, Len(s)})
<1>1. Limit \in Nat /\ Len(s) \in Nat
  BY ListingAssumption
<1>2. e \in Nat /\ e <= Len(s)
  <2>1. \E x \in {o + Limit, Len(s)} : \A y \in {o + Limit, Len(s)} : x <= y
    BY <1>1
  <2>2. e \in {o + Limit, Len(s)} /\ \A y \in {o + Limit, Len(s)} : e <= y
    BY <2>1 DEF Min
  <2> HIDE DEF e
  <2> QED BY <1>1, <2>2
<1>3. PaginateNfts(s, o) = SubSeq(s, o + 1, e)
  BY DEF PaginateNfts
<1> HIDE DEF e
<1>4. CASE o + 1 <= e
  <2>1. o + 1 \in 1 .. (Len(s) + 1) /\ e \in ((o + 1) - 1) .. Len(s)
    BY <1>1, <1>2, <1>4
  <2>2. /\ SubSeq(s, o + 1, e) \in Seq(R) /\ Len(SubSeq(s, o + 1, e)) = e - (o + 1) + 1
        /\ \A i \in 1 .. (e - (o + 1) + 1) : SubSeq(s, o + 1, e)[i] = s[(o + 1) + i - 1]
    BY <2>1, SubSeqProperties
  <2>3. \A i \in 1 .. (e - (o + 1) + 1) : (o + 1) + i - 1 \in DOMAIN s
    BY <1>1, <1>2, <1>4
  <2>4. DOMAIN SubSeq(s, o + 1, e) = 1 .. (e - (o + 1) + 1)
    BY <2>2
  <2> QED BY <1>3, <2>2, <2>3, <2>4 DEF SomeOf
<1>5. CASE ~(o + 1 <= e)
  <2>1. SubSeq(s, o + 1, e) = <<>>
    BY <1>1, <1>2, <1>5
  <2>2. <<>> \in Seq(R) /\ DOMAIN <<>> = {}
    OBVIOUS
  <2>3. PaginateNfts(s, o) = <<>>
    BY <1>3, <2>1
  <2> QED BY <2>2, <2>3 DEF SomeOf
<1> QED BY <1>4, <1>5

(* The list of both, cut to the page.                                      *)
LEMMA ListKeeps ==
  ASSUME NftInv, GetNftsByOwner
  PROVE  NftInv'
<1> USE DEF NftInv
<1>1. PICK named \in BOOLEAN :
        page' = [page EXCEPT !.pc = "hydrate",
                   !.total = ListOf(DasNfts(page.das, page.token2022), page.token2022, named),
                   !.nfts = PaginateNfts(ListOf(DasNfts(page.das, page.token2022), page.token2022, named), page.offset)]
  BY DEF GetNftsByOwner, ListOf
<1>2. page \in Pages /\ wallet \in Holdings /\ page.pc = "metadata" /\ UNCHANGED <<wallet, docCache>>
  BY DEF GetNftsByOwner, NftTyped
<1> DEFINE D == DasNfts(page.das, page.token2022)
           T == page.token2022
           L == ListOf(D, T, named)
<1>3. /\ T = SelectAt(wallet, Token2022Held)
      /\ page.das = IF page.failed THEN <<>> ELSE Reached
  BY <1>2 DEF Token2022True, DasTrue
<1>4. wallet \in Seq(Items) /\ Token2022Held \subseteq DOMAIN wallet /\ IndexListed \subseteq DOMAIN wallet
  BY <1>2, WalletTyped DEF Token2022Held, IndexListed
<1> HIDE DEF T
<1>5. /\ T \in Seq(Items) /\ Len(T) = Cardinality(Token2022Held) /\ Cardinality(Token2022Held) \in Nat
      /\ \A k \in 1 .. Cardinality(Token2022Held) :
           Nth(Token2022Held, k) \in Token2022Held /\ T[k] = wallet[Nth(Token2022Held, k)]
  BY <1>3, <1>4, Selected
<1>6. ~page.failed => /\ D = SelectAt(wallet, IndexListed) /\ D \in Seq(Items)
                      /\ Len(D) = Cardinality(IndexListed) /\ Cardinality(IndexListed) \in Nat
                      /\ \A k \in 1 .. Cardinality(IndexListed) :
                           Nth(IndexListed, k) \in IndexListed /\ D[k] = wallet[Nth(IndexListed, k)]
  <2> SUFFICES ASSUME ~page.failed
               PROVE  /\ D = SelectAt(wallet, IndexListed) /\ D \in Seq(Items)
                      /\ Len(D) = Cardinality(IndexListed) /\ Cardinality(IndexListed) \in Nat
                      /\ \A k \in 1 .. Cardinality(IndexListed) :
                           Nth(IndexListed, k) \in IndexListed /\ D[k] = wallet[Nth(IndexListed, k)]
    OBVIOUS
  <2>1. D = SelectAt(wallet, IndexListed)
    BY <1>2, <1>3, InTheIndex DEF T
  <2> HIDE DEF D
  <2> QED BY <1>4, <2>1, Selected
<1>7. page.failed => D \in Seq(Items) /\ DOMAIN D = {}
  <2> SUFFICES ASSUME page.failed PROVE D \in Seq(Items) /\ DOMAIN D = {}
    OBVIOUS
  <2>1. D = SelectAt(<<>>, {})
    BY <1>2, <1>3, InTheIndex DEF T
  <2>2. <<>> \in Seq(Items) /\ {} \subseteq DOMAIN <<>>
    OBVIOUS
  <2>3. Cardinality({}) = 0
    BY FS_EmptySet
  <2>4. SelectAt(<<>>, {}) \in Seq(Items) /\ Len(SelectAt(<<>>, {})) = Cardinality({})
    BY <2>2, Selected, Zenon
  <2> HIDE DEF D
  <2> QED BY <2>1, <2>3, <2>4
<1>8. /\ D \in Seq(Items)
      /\ \A k \in DOMAIN D : \E i \in DOMAIN wallet : D[k] = wallet[i]
      /\ \A k \in DOMAIN T : \E i \in DOMAIN wallet : T[k] = wallet[i]
  <2> HIDE DEF D
  <2>1. \A k \in DOMAIN T : \E i \in DOMAIN wallet : T[k] = wallet[i]
    BY <1>4, <1>5
  <2>2. CASE page.failed
    BY <1>7, <2>1, <2>2
  <2>3. CASE ~page.failed
    BY <1>4, <1>6, <2>1, <2>3
  <2> QED BY <2>2, <2>3
<1>9. /\ L \in Seq(NftEntries) /\ Len(L) = Len(D) + Len(T)
      /\ \A k \in DOMAIN L : IsRead(L[k])
      /\ \A k \in 1 .. Len(D) : L[k].mint = D[k].mint
      /\ \A k \in 1 .. Len(T) : L[Len(D) + k].mint = T[k].mint
  <2> HIDE DEF D
  <2> QED BY <1>2, <1>5, <1>8, ListIsRead
<1>10. page' = [page EXCEPT !.pc = "hydrate", !.total = L, !.nfts = PaginateNfts(L, page.offset)]
  BY <1>1 DEF T
<1>11. page.offset \in Nat
  BY <1>2 DEF Pages
<1> HIDE DEF L
<1>12. PaginateNfts(L, page.offset) \in Seq(NftEntries) /\ SomeOf(PaginateNfts(L, page.offset), L)
  BY <1>9, <1>11, PageOfList
<1>13. /\ page'.pc = "hydrate" /\ page'.total = L /\ page'.nfts = PaginateNfts(L, page.offset)
       /\ page'.failed = page.failed /\ page' \in Pages
  BY <1>2, <1>9, <1>10, <1>12 DEF Pages
<1>14. ~page.failed => ListedRight(L)
  <2> SUFFICES ASSUME ~page.failed PROVE ListedRight(L)
    OBVIOUS
  <2> HIDE DEF D
  <2>1. DOMAIN L = 1 .. (Cardinality(IndexListed) + Cardinality(Token2022Held))
    BY <1>5, <1>6, <1>9
  <2>2. \A k \in 1 .. Cardinality(IndexListed) : L[k].mint = wallet[Nth(IndexListed, k)].mint
    BY <1>6, <1>9
  <2>3. \A k \in 1 .. Cardinality(Token2022Held) :
          L[Cardinality(IndexListed) + k].mint = wallet[Nth(Token2022Held, k)].mint
    BY <1>5, <1>6, <1>9
  <2> QED BY <1>2, <2>1, <2>2, <2>3, TimesInList
<1>15. NftTyped' /\ DocsTrue'
  BY <1>2, <1>13 DEF NftTyped, DocsTrue, FetchOffchainMetadata, Whole
<1>16. DasTrue' /\ Token2022True' /\ ShownTrue'
  BY <1>13 DEF DasTrue, Token2022True, ShownTrue
<1>17. TotalTrue'
  <2>1. ~page'.failed => ListedRight(page'.total)
    BY <1>13, <1>14
  <2>2. wallet' = wallet
    BY <1>2
  <2> QED BY <2>1, <2>2 DEF TotalTrue, ListedRight
<1>18. PageRead'
  <2>1. \A k \in DOMAIN page'.nfts : IsRead(page'.nfts[k])
    BY <1>9, <1>12, <1>13 DEF SomeOf
  <2>2. wallet' = wallet
    BY <1>2
  <2> QED BY <2>1, <2>2 DEF PageRead, IsRead
<1> QED BY <1>15, <1>16, <1>17, <1>18

(* What is read of a document, kept or not, is what is stored of it.       *)
LEMMA HydrateKeeps ==
  ASSUME NftInv, NEW i \in DOMAIN page.nfts, Hydrate(i)
  PROVE  NftInv'
<1> USE DEF NftInv
<1> DEFINE mint == page.nfts[i].mint
<1>1. /\ page.pc = "hydrate" /\ page.nfts[i].uri /\ UNCHANGED <<wallet, pagesAsked>>
      /\ page \in Pages /\ wallet \in Holdings
  BY DEF Hydrate, NftTyped
<1>2. PICK read :
        /\ page' = [page EXCEPT !.nfts[i].json = read.json, !.nfts[i].metadataResolved = read.ok, !.nfts[i].uri = FALSE]
        /\ read \in FetchOffchainMetadata(mint)
        /\ \/ UNCHANGED docCache
           \/ docCache' = [m \in DOMAIN docCache \cup {mint} |-> IF m = mint THEN read ELSE docCache[m]]
  <2>1. Failed \in FetchOffchainMetadata(mint)
    BY DEF FetchOffchainMetadata
  <2>2. mint \in DOMAIN docCache => docCache[mint] \in FetchOffchainMetadata(mint)
    BY DEF DocsTrue
  <2> HIDE DEF NftInv
  <2> QED BY <2>1, <2>2 DEF Hydrate
<1>3. PICK w \in DOMAIN wallet : ReadFrom(wallet[w], page.nfts[i])
  BY DEF PageRead, IsRead
<1>4. /\ wallet[w].mint = mint /\ wallet[w] \in Items /\ Whole(mint) = wallet[w]
      /\ page.nfts[i] \in NftEntries /\ page.nfts[i].name # "none"
  <2>1. wallet[w].mint = mint /\ page.nfts[i].name # "none"
    BY <1>1, <1>3 DEF ReadFrom
  <2>2. page.nfts[i] \in NftEntries
    BY <1>1 DEF Pages
  <2> QED BY <1>1, <2>1, <2>2, WalletTyped
<1>5. /\ read.ok \in BOOLEAN /\ read.json \in Documents
      /\ read.json = IF read.ok THEN ToStoredMetadata(wallet[w].json) ELSE NoDocument
  <2>1. /\ ToStoredMetadata(wallet[w].json) \in Documents /\ NoDocument \in Documents
    BY <1>4, DocRead
  <2>2. read \in {[ok |-> TRUE, json |-> ToStoredMetadata(wallet[w].json)], [ok |-> FALSE, json |-> NoDocument]}
    BY <1>2, <1>4 DEF FetchOffchainMetadata, Failed
  <2> DEFINE stored == ToStoredMetadata(wallet[w].json)
  <2> HIDE DEF stored
  <2>3. read \in {[ok |-> TRUE, json |-> stored], [ok |-> FALSE, json |-> NoDocument]} /\ stored \in Documents
    BY <2>1, <2>2 DEF stored
  <2>4. read.ok \in BOOLEAN /\ read.json \in Documents /\ read.json = IF read.ok THEN stored ELSE NoDocument
    <3>1. CASE read = [ok |-> TRUE, json |-> stored]
      BY <2>3, <3>1
    <3>2. CASE read = [ok |-> FALSE, json |-> NoDocument]
      BY <2>1, <3>2
    <3> QED BY <2>3, <3>1, <3>2
  <2> QED BY <2>4 DEF stored
<1> DEFINE old == page.nfts[i]
           new == [old EXCEPT !.json = read.json, !.metadataResolved = read.ok, !.uri = FALSE]
<1>6. page' = [page EXCEPT !.nfts = [@ EXCEPT ![i] = new]]
  BY <1>1, <1>2 DEF Pages
<1>7. new \in NftEntries /\ ReadFrom(wallet[w], new)
  <2>1. new \in NftEntries
    BY <1>4, <1>5 DEF NftEntries
  <2>2. /\ new.mint = old.mint /\ new.name = old.name /\ new.uri = FALSE /\ new.json = read.json
        /\ new.metadataResolved = read.ok
    BY <1>4 DEF NftEntries
  <2>3. /\ old.mint = wallet[w].mint /\ old.name \in {wallet[w].name, "none"}
    BY <1>3 DEF ReadFrom
  <2> HIDE DEF new
  <2> QED BY <1>4, <1>5, <2>1, <2>2, <2>3 DEF ReadFrom
<1> HIDE DEF new
<1>8. /\ page'.pc = "hydrate" /\ page'.total = page.total /\ page'.failed = page.failed
      /\ page'.nfts = [page.nfts EXCEPT ![i] = new] /\ page' \in Pages
  <2>1. page.nfts \in Seq(NftEntries) /\ [page.nfts EXCEPT ![i] = new] \in Seq(NftEntries)
    BY <1>1, <1>7 DEF Pages
  <2> QED BY <1>1, <1>6, <2>1 DEF Pages
<1>9. NftTyped'
  BY <1>1, <1>8 DEF NftTyped
<1>10. DocsTrue'
  <2>1. \A m \in DOMAIN docCache' : docCache'[m] \in FetchOffchainMetadata(m)
    BY <1>2 DEF DocsTrue
  <2>2. wallet' = wallet
    BY <1>1
  <2> QED BY <2>1, <2>2 DEF DocsTrue, FetchOffchainMetadata, Whole
<1>11. DasTrue' /\ Token2022True' /\ ShownTrue'
  BY <1>8 DEF DasTrue, Token2022True, ShownTrue
<1>12. TotalTrue'
  BY <1>1, <1>8 DEF TotalTrue, ListedRight
<1>13. PageRead'
  <2>1. ASSUME NEW k \in DOMAIN page'.nfts PROVE IsRead(page'.nfts[k])
    <3>1. k \in DOMAIN page.nfts /\ page'.nfts[k] = IF k = i THEN new ELSE page.nfts[k]
      BY <1>8
    <3>2. IsRead(new)
      BY <1>7 DEF IsRead
    <3> QED BY <3>1, <3>2 DEF PageRead
  <2>2. wallet' = wallet
    BY <1>1
  <2> QED BY <2>1, <2>2 DEF PageRead, IsRead
<1> QED BY <1>9, <1>10, <1>11, <1>12, <1>13

LEMMA NoPageIsOne == NoPage \in Pages
BY DEF NoPage, Pages

LEMMA NftInvStarts == ASSUME NEW H \in SUBSET Holdings, Holding(H) PROVE NftInv
<1>1. wallet \in Holdings /\ docCache = <<>> /\ page = NoPage /\ DOMAIN docCache = {}
  BY DEF Holding
<1>2. page.pc = "idle" /\ page.nfts = <<>> /\ DOMAIN page.nfts = {}
  BY <1>1 DEF NoPage
<1> QED BY <1>1, <1>2, NoPageIsOne
        DEF NftInv, NftTyped, DocsTrue, DasTrue, Token2022True, TotalTrue, PageRead, ShownTrue

LEMMA NftInvKept == ASSUME NftInv, [NftNext]_nftVars PROVE NftInv'
<1> USE DEF NftInv
<1>0. page \in Pages /\ wallet \in Holdings
  BY DEF NftTyped
<1>1. CASE AskPage
  <2>1. /\ page' \in Pages /\ page'.pc = "das" /\ page'.nfts = <<>> /\ page'.das = <<>> /\ ~page'.failed
        /\ UNCHANGED <<wallet, docCache>>
    <3>1. PICK k \in {0, 1} : page' = [NoPage EXCEPT !.pc = "das", !.offset = k * Limit]
      BY <1>1 DEF AskPage
    <3>2. k * Limit \in Nat
      BY ListingAssumption
    <3> QED BY <1>1, <3>1, <3>2, NoPageIsOne DEF AskPage, Pages, NoPage
  <2> QED BY <1>0, <2>1
          DEF NftTyped, DocsTrue, DasTrue, Token2022True, TotalTrue, PageRead, ShownTrue, FetchOffchainMetadata, Whole
<1>2. CASE DasGetAssetsByOwner
  <2>0. Reached \in Seq(Items)
    BY <1>0, PageEnds
  <2>1. /\ page.pc = "das" /\ UNCHANGED <<wallet, docCache>> /\ page.das = <<>> /\ ~page.failed
    BY <1>2 DEF DasGetAssetsByOwner, DasTrue
  <2>2. CASE page' = [page EXCEPT !.pc = "token2022", !.das = Reached]
    <3>1. /\ page' \in Pages /\ page'.pc = "token2022" /\ page'.nfts = page.nfts /\ page'.das = Reached
          /\ page'.failed = page.failed
      BY <1>0, <2>0, <2>2 DEF Pages
    <3>2. Reached' = Reached
      BY <2>1 DEF Reached, FirstPage
    <3> QED BY <1>0, <2>1, <3>1, <3>2
            DEF NftTyped, DocsTrue, DasTrue, Token2022True, TotalTrue, PageRead, IsRead, ShownTrue,
                FetchOffchainMetadata, Whole
  <2>3. CASE page' = [page EXCEPT !.pc = "token2022", !.failed = TRUE]
    <3>1. /\ page' \in Pages /\ page'.pc = "token2022" /\ page'.nfts = page.nfts /\ page'.das = page.das
          /\ page'.failed
      BY <1>0, <2>3 DEF Pages
    <3> QED BY <1>0, <2>1, <3>1
            DEF NftTyped, DocsTrue, DasTrue, Token2022True, TotalTrue, PageRead, IsRead, ShownTrue,
                FetchOffchainMetadata, Whole
  <2> QED BY <1>2, <2>2, <2>3 DEF DasGetAssetsByOwner, Reached
<1>3. CASE FetchToken2022NftsByOwner
  <2> DEFINE t == SelectAt(wallet, Token2022Held)
  <2>1. page' = [page EXCEPT !.pc = "metadata", !.token2022 = t]
    BY <1>3 DEF FetchToken2022NftsByOwner, Token2022Held
  <2>2. t \in Seq(Items)
    <3>1. wallet \in Seq(Items) /\ Token2022Held \subseteq DOMAIN wallet
      BY <1>0, WalletTyped DEF Token2022Held
    <3> QED BY <3>1, Selected
  <2> HIDE DEF t
  <2>3. /\ page' \in Pages /\ page'.pc = "metadata" /\ page'.das = page.das /\ page'.nfts = page.nfts
        /\ page'.token2022 = t /\ page'.failed = page.failed /\ UNCHANGED <<wallet, docCache>> /\ page.pc = "token2022"
    BY <1>0, <1>3, <2>1, <2>2 DEF FetchToken2022NftsByOwner, Pages
  <2>4. NftTyped' /\ DocsTrue' /\ PageRead'
    BY <1>0, <2>3 DEF NftTyped, DocsTrue, PageRead, IsRead, FetchOffchainMetadata, Whole
  <2>5. DasTrue' /\ TotalTrue' /\ ShownTrue'
    BY <2>3 DEF DasTrue, TotalTrue, ShownTrue, Reached
  <2>6. Token2022True'
    <3>1. page'.token2022 = SelectAt(wallet, Token2022Held)
      BY <2>3 DEF t
    <3>2. wallet' = wallet
      BY <2>3
    <3> QED BY <3>1, <3>2 DEF Token2022True, Token2022Held
  <2> QED BY <2>4, <2>5, <2>6
<1>4. CASE GetNftsByOwner
  BY <1>4, ListKeeps
<1>5. CASE \E i \in DOMAIN page.nfts : Hydrate(i)
  BY <1>5, HydrateKeeps
<1>6. CASE FilterSpam
  <2> DEFINE set == {i \in DOMAIN page.nfts : /\ ~Whole(page.nfts[i].mint).blacklisted
                                              /\ SpamScore(page.nfts[i], CountNames(page.nfts)) < SpamThreshold}
  <2>1. page' = [page EXCEPT !.pc = "replied", !.shown = set]
    BY <1>6 DEF FilterSpam
  <2>2. set \in SUBSET Nat
    <3>1. DOMAIN page.nfts \subseteq Nat
      BY <1>0 DEF Pages
    <3> QED BY <3>1
  <2> HIDE DEF set
  <2>3. /\ page' \in Pages /\ page'.pc = "replied" /\ page'.total = page.total /\ page'.nfts = page.nfts
        /\ page'.shown = set /\ page'.failed = page.failed /\ UNCHANGED <<wallet, docCache>> /\ page.pc = "hydrate"
    BY <1>0, <1>6, <2>1, <2>2 DEF FilterSpam, Pages
  <2>4. NftTyped' /\ DocsTrue' /\ PageRead'
    BY <1>0, <2>3 DEF NftTyped, DocsTrue, PageRead, IsRead, FetchOffchainMetadata, Whole
  <2>5. DasTrue' /\ Token2022True'
    BY <2>3 DEF DasTrue, Token2022True
  <2>6. TotalTrue'
    BY <2>3 DEF TotalTrue, ListedRight
  <2>7. ShownTrue'
    BY <2>3 DEF ShownTrue, set, Whole
  <2> QED BY <2>4, <2>5, <2>6, <2>7
<1>7. CASE PageOver
  <2>1. page' = NoPage /\ page'.pc = "idle" /\ page'.nfts = <<>> /\ UNCHANGED <<wallet, docCache>>
    BY <1>7 DEF PageOver, NoPage
  <2> QED BY <1>0, <2>1, NoPageIsOne
          DEF NftTyped, DocsTrue, DasTrue, Token2022True, TotalTrue, PageRead, ShownTrue, FetchOffchainMetadata, Whole
<1>8. CASE \E m \in DOMAIN docCache : DocLapses(m)
  <2>1. PICK m \in DOMAIN docCache : DocLapses(m)
    BY <1>8
  <2>2. /\ docCache' = [n \in DOMAIN docCache \ {m} |-> docCache[n]] /\ UNCHANGED <<wallet, page>>
    BY <2>1 DEF DocLapses
  <2>3. DocsTrue'
    <3>1. \A n \in DOMAIN docCache' : docCache'[n] \in FetchOffchainMetadata(n)
      BY <2>2 DEF DocsTrue
    <3>2. wallet' = wallet
      BY <2>2
    <3> QED BY <3>1, <3>2 DEF DocsTrue, FetchOffchainMetadata, Whole
  <2>4. /\ NftTyped' /\ Token2022True' /\ PageRead' /\ ShownTrue'
    BY <2>2 DEF NftTyped, Token2022True, Token2022Held, PageRead, IsRead, ShownTrue, Whole
  <2>5. DasTrue'
    BY <2>2 DEF DasTrue, Reached
  <2>6. TotalTrue'
    BY <2>2 DEF TotalTrue, ListedRight
  <2> QED BY <2>3, <2>4, <2>5, <2>6
<1>9. CASE UNCHANGED nftVars
  <2>1. UNCHANGED <<wallet, page, docCache>>
    BY <1>9 DEF nftVars
  <2>2. DasTrue'
    BY <2>1 DEF DasTrue, Reached
  <2>3. TotalTrue'
    BY <2>1 DEF TotalTrue, ListedRight
  <2> QED BY <2>1, <2>2, <2>3 DEF NftTyped, DocsTrue, Token2022True, Token2022Held, PageRead, IsRead,
                                  ShownTrue, Whole, FetchOffchainMetadata
<1> QED BY <1>1, <1>2, <1>3, <1>4, <1>5, <1>6, <1>7, <1>8, <1>9 DEF NftNext

LEMMA FewAreFinite ==
  /\ IsFiniteSet({}) /\ \A a : IsFiniteSet({a})
  /\ \A a : \A S \in SUBSET {a} : IsFiniteSet(S)
<1>1. IsFiniteSet({}) /\ \A a : IsFiniteSet({a})
  BY FS_EmptySet, FS_Singleton
<1>2. ASSUME NEW a, NEW S \in SUBSET {a} PROVE IsFiniteSet(S)
  <2>1. S = {} \/ S = {a}
    OBVIOUS
  <2> QED BY <1>1, <2>1
<1> QED BY <1>1, <1>2

LEMMA ReasonsFinite ==
  ASSUME NEW nft, NEW names
  PROVE  IsFiniteSet(SpamReasons(nft, names))
<1> DEFINE A == NameReasons(nft.name)
           B == DescriptionReasons(nft.json.description)
           C == {r \in {"url_in_attributes"}   : nft.json.attributes = "url"}
           D == {r \in {"barebones_with_urls"} :
                   HasUrl(nft) /\ ~nft.json.image /\ ~nft.image /\ ~BelongsToCollection(nft)}
           E == {r \in {"barebones_nft"}       : IsBarebonesNft(nft)}
           F == {r \in {"duplicate_name"}      : nft.name # "none" /\ names[nft.name] >= DuplicateNameMinCount}
<1>1. IsFiniteSet(A)
  <2>1. \/ A = {"domain_in_name"} \/ A = {"ticker_name"} \/ A = {"spam_name_keyword", "lure_word"} \/ A = {"lure_word"}
        \/ A = {} \/ A = {"mixed_script"} \/ A = {"hidden_char_obfuscation"} \/ A = {"emoji_in_name"}
        \/ A = {"empty_name"}
    BY DEF NameReasons
  <2> HIDE DEF A
  <2>2. A = {"spam_name_keyword", "lure_word"} => IsFiniteSet(A)
    <3>1. IsFiniteSet({"spam_name_keyword"} \cup {"lure_word"})
      BY FewAreFinite, FS_AddElement, Zenon
    <3>2. {"spam_name_keyword"} \cup {"lure_word"} = {"spam_name_keyword", "lure_word"}
      OBVIOUS
    <3> QED BY <3>1, <3>2, Zenon
  <2>3. A = {"domain_in_name"} \/ A = {"ticker_name"} \/ A = {"lure_word"} => IsFiniteSet(A)
    BY FewAreFinite, Zenon
  <2>4. A = {} \/ A = {"mixed_script"} \/ A = {"hidden_char_obfuscation"} \/ A = {"emoji_in_name"} \/ A = {"empty_name"}
          => IsFiniteSet(A)
    BY FewAreFinite, Zenon
  <2> QED BY <2>1, <2>2, <2>3, <2>4
<1>2. IsFiniteSet(B)
  <2>1. B = {} \/ B = {"phishing_description"} \/ B = {"url_in_description"} \/ B = {"qr_code_lure"}
    BY DEF DescriptionReasons
  <2> HIDE DEF B
  <2> QED BY <2>1, FewAreFinite, Zenon
<1>3. C \in SUBSET {"url_in_attributes"} /\ D \in SUBSET {"barebones_with_urls"}
      /\ E \in SUBSET {"barebones_nft"} /\ F \in SUBSET {"duplicate_name"}
  OBVIOUS
<1>4. SpamReasons(nft, names) = A \cup B \cup C \cup D \cup E \cup F
  BY DEF SpamReasons
<1> HIDE DEF A, B, C, D, E, F
<1>5. IsFiniteSet(C) /\ IsFiniteSet(D) /\ IsFiniteSet(E) /\ IsFiniteSet(F)
  BY <1>3, FewAreFinite, Zenon
<1>6. IsFiniteSet(A \cup B)
  BY <1>1, <1>2, FS_Union, Zenon
<1>7. IsFiniteSet(A \cup B \cup C)
  BY <1>5, <1>6, FS_Union, Zenon
<1>8. IsFiniteSet(A \cup B \cup C \cup D)
  BY <1>5, <1>7, FS_Union, Zenon
<1>9. IsFiniteSet(A \cup B \cup C \cup D \cup E)
  BY <1>5, <1>8, FS_Union, Zenon
<1>10. IsFiniteSet(A \cup B \cup C \cup D \cup E \cup F)
  BY <1>5, <1>9, FS_Union, Zenon
<1> QED BY <1>4, <1>10, Zenon

(* More reasons, more points.                                              *)
LEMMA ScoreGrows ==
  ASSUME NEW r, NEW names, NEW w, NEW more, SpamReasons(r, names) \subseteq SpamReasons(w, more)
  PROVE  /\ SpamScore(r, names) \in Nat /\ SpamScore(w, more) \in Nat
         /\ SpamScore(r, names) <= SpamScore(w, more)
<1> DEFINE R == SpamReasons(r, names)
           S == SpamReasons(w, more)
           R2 == R \ WeakReasons
           S2 == S \ WeakReasons
<1>1. IsFiniteSet(S)
  BY ReasonsFinite
<1>2. R \in SUBSET S /\ R2 \in SUBSET S2 /\ S2 \in SUBSET S
  OBVIOUS
<1>3. SpamScore(r, names) = Cardinality(R) + Cardinality(R2) /\ SpamScore(w, more) = Cardinality(S) + Cardinality(S2)
  BY DEF SpamScore
<1> HIDE DEF R, S, R2, S2
<1>4. IsFiniteSet(S2) /\ IsFiniteSet(R) /\ Cardinality(R) <= Cardinality(S)
  BY <1>1, <1>2, FS_Subset
<1>5. IsFiniteSet(R2) /\ Cardinality(R2) <= Cardinality(S2)
  BY <1>2, <1>4, FS_Subset
<1>6. Cardinality(R) \in Nat /\ Cardinality(S) \in Nat /\ Cardinality(R2) \in Nat /\ Cardinality(S2) \in Nat
  BY <1>1, <1>4, <1>5, FS_CardinalityType
<1> QED BY <1>3, <1>4, <1>5, <1>6

(* Without a name and without a document: one point, for the name.         *)
LEMMA UnnamedPasses ==
  ASSUME NEW r, NEW names, r.name = "none", r.json = NoDocument, r.metadataResolved = FALSE
  PROVE  SpamScore(r, names) < SpamThreshold
<1>1. NameReasons(r.name) = {"empty_name"}
  BY DEF NameReasons
<1>2. DescriptionReasons(r.json.description) = {}
  BY DEF DescriptionReasons, NoDocument
<1>3. ~HasUrl(r) /\ r.json.attributes # "url" /\ ~IsBarebonesNft(r)
  BY DEF HasUrl, NoDocument, IsBarebonesNft
<1>4. SpamReasons(r, names) = {"empty_name"}
  BY <1>1, <1>2, <1>3 DEF SpamReasons
<1>5. {"empty_name"} \ WeakReasons = {}
  BY DEF WeakReasons
<1>6. Cardinality({"empty_name"}) = 1 /\ Cardinality({}) = 0
  BY FS_Singleton, FS_EmptySet, Zenon
<1>7. SpamScore(r, names) = Cardinality({"empty_name"}) + Cardinality({"empty_name"} \ WeakReasons)
  BY <1>4 DEF SpamScore
<1> HIDE DEF SpamScore
<1>8. SpamScore(r, names) = 1 + 0
  BY <1>5, <1>6, <1>7, Zenon
<1> QED BY <1>8 DEF SpamThreshold

(* What is read has no reason the whole does not have.                     *)
LEMMA NoNewReason ==
  ASSUME NEW r, NEW names, NEW w, NEW more,
         w.name = r.name, w.collectionVerified = r.collectionVerified, w.image = r.image, w.metadataResolved = TRUE,
         r.json = w.json \/ (r.json = NoDocument /\ r.metadataResolved = FALSE),
         r.name # "none" => (names[r.name] >= DuplicateNameMinCount => more[r.name] >= DuplicateNameMinCount)
  PROVE  SpamReasons(r, names) \subseteq SpamReasons(w, more)
<1>1. NameReasons(r.name) = NameReasons(w.name)
  OBVIOUS
<1>2. DescriptionReasons(r.json.description) \subseteq DescriptionReasons(w.json.description)
  BY DEF DescriptionReasons, NoDocument
<1>3. /\ r.json.attributes = "url" => w.json.attributes = "url"
      /\ r.json = NoDocument /\ r.metadataResolved = FALSE => ~HasUrl(r) /\ ~IsBarebonesNft(r)
  BY DEF NoDocument, HasUrl, IsBarebonesNft
<1>4. HasUrl(r) /\ ~r.json.image /\ ~r.image /\ ~BelongsToCollection(r)
      => HasUrl(w) /\ ~w.json.image /\ ~w.image /\ ~BelongsToCollection(w)
  <2>1. CASE r.json = w.json
    BY <2>1 DEF HasUrl, BelongsToCollection
  <2> QED BY <1>3, <2>1
<1>5. IsBarebonesNft(r) => IsBarebonesNft(w)
  <2>1. CASE r.json = w.json
    BY <2>1 DEF IsBarebonesNft, BelongsToCollection
  <2> QED BY <1>3, <2>1
<1> QED BY <1>1, <1>2, <1>3, <1>4, <1>5 DEF SpamReasons

(* Everything that was read of an NFT: its entry as it would be whole.     *)
LEMMA WholeEntry ==
  ASSUME NftInv, NEW i \in DOMAIN page.nfts
  PROVE  /\ page.nfts[i] \in NftEntries /\ AllRead(i).name = Whole(page.nfts[i].mint).name
         /\ AllRead(i).json = Whole(page.nfts[i].mint).json /\ AllRead(i).metadataResolved = TRUE
         /\ AllRead(i).collectionVerified = page.nfts[i].collectionVerified /\ AllRead(i).image = page.nfts[i].image
         /\ Whole(page.nfts[i].mint) \in Items /\ ReadFrom(Whole(page.nfts[i].mint), page.nfts[i])
<1> USE DEF NftInv
<1>1. page \in Pages /\ wallet \in Holdings
  BY DEF NftTyped
<1>2. PICK w \in DOMAIN wallet : ReadFrom(wallet[w], page.nfts[i])
  BY DEF PageRead, IsRead
<1>3. page.nfts[i].mint = wallet[w].mint
  BY <1>2 DEF ReadFrom
<1>4. wallet[w] \in Items /\ Whole(page.nfts[i].mint) = wallet[w]
  BY <1>1, <1>3, WalletTyped
<1>5. page.nfts[i] \in NftEntries
  BY <1>1 DEF Pages
<1> QED BY <1>2, <1>4, <1>5 DEF AllRead, NftEntries

(* A name that is read is the whole's: the whole page has it as often.     *)
LEMMA NamesGrow ==
  ASSUME NftInv, NEW i \in DOMAIN page.nfts, page.nfts[i].name # "none",
         NEW whole, whole = [k \in DOMAIN page.nfts |-> AllRead(k)]
  PROVE  LET n == page.nfts[i].name IN
         /\ CountNames(page.nfts)[n] \in Nat /\ CountNames(whole)[n] \in Nat
         /\ CountNames(page.nfts)[n] <= CountNames(whole)[n]
<1> DEFINE n == page.nfts[i].name
           Some == {k \in DOMAIN page.nfts : page.nfts[k].name = n}
           More == {k \in DOMAIN whole : whole[k].name = n}
<1>1. \A k \in DOMAIN page.nfts : page.nfts[k].name # "none" => page.nfts[k].name = whole[k].name
  BY WholeEntry DEF ReadFrom
<1>2. DOMAIN whole = DOMAIN page.nfts
  OBVIOUS
<1>3. Some \in SUBSET More /\ More \in SUBSET DOMAIN page.nfts
  BY <1>1, <1>2
<1>4. CountNames(page.nfts)[n] = Cardinality(Some)
  BY DEF CountNames
<1>5. CountNames(whole)[n] = Cardinality(More)
  <2>1. n \in {whole[k].name : k \in DOMAIN whole}
    BY <1>1, <1>2
  <2> QED BY <2>1 DEF CountNames
<1>6. IsFiniteSet(DOMAIN page.nfts)
  <2>1. page.nfts \in Seq(NftEntries)
    BY DEF NftInv, NftTyped, Pages
  <2>2. DOMAIN page.nfts = 1 .. Len(page.nfts) /\ Len(page.nfts) \in Nat
    BY <2>1
  <2>3. \A last \in Nat : IsFiniteSet(1 .. last)
    BY FS_Interval
  <2> QED BY <2>2, <2>3, Zenon
<1> HIDE DEF Some, More
<1>7. IsFiniteSet(More) /\ IsFiniteSet(Some) /\ Cardinality(Some) <= Cardinality(More)
  BY <1>3, <1>6, FS_Subset
<1>8. Cardinality(Some) \in Nat /\ Cardinality(More) \in Nat
  BY <1>7, FS_CardinalityType
<1> QED BY <1>4, <1>5, <1>7, <1>8

LEMMA ShownWhateverRead == ASSUME NftInv PROVE UnreadHidesNothing
<1> DEFINE whole == [k \in DOMAIN page.nfts |-> AllRead(k)]
<1> SUFFICES ASSUME page.pc = "replied", NEW i \in DOMAIN page.nfts,
                    SpamScore(whole[i], CountNames(whole)) < SpamThreshold,
                    whole[i].json.attributes # "huge", ~Whole(page.nfts[i].mint).blacklisted
             PROVE  i \in page.shown
  BY DEF UnreadHidesNothing
<1> DEFINE r == page.nfts[i]
           w == AllRead(i)
           names == CountNames(page.nfts)
           more == CountNames(whole)
<1>1. /\ r \in NftEntries /\ w.name = Whole(r.mint).name /\ w.json = Whole(r.mint).json /\ w.metadataResolved = TRUE
      /\ w.collectionVerified = r.collectionVerified /\ w.image = r.image
      /\ Whole(r.mint) \in Items /\ ReadFrom(Whole(r.mint), r)
  BY WholeEntry
<1>2. whole[i] = w
  OBVIOUS
<1>3. r.name # "none" => /\ names[r.name] \in Nat /\ more[r.name] \in Nat /\ names[r.name] <= more[r.name]
  BY NamesGrow
<1>4. SpamScore(w, more) < SpamThreshold /\ w.json.attributes # "huge"
  BY <1>2
<1>5. SpamScore(r, names) < SpamThreshold => i \in page.shown
  BY DEF NftInv, ShownTrue
<1> HIDE DEF r, w, names, more
<1>6. CASE r.name = "none"
  <2>1. r.json = NoDocument /\ r.metadataResolved = FALSE
    BY <1>1, <1>6 DEF ReadFrom, NftEntries
  <2>2. SpamScore(r, names) < SpamThreshold
    BY <1>6, <2>1, UnnamedPasses
  <2> QED BY <1>5, <2>2
<1>7. CASE r.name # "none"
  <2>1. w.name = r.name
    BY <1>1, <1>7 DEF ReadFrom
  <2>2. ToStoredMetadata(w.json) = w.json
    <3>1. w.json \in Documents
      BY <1>1 DEF Items
    <3> QED BY <1>4, <3>1 DEF ToStoredMetadata, Documents
  <2>3. r.json = w.json \/ (r.json = NoDocument /\ r.metadataResolved = FALSE)
    BY <1>1, <2>2 DEF ReadFrom, NftEntries
  <2>4. names[r.name] >= DuplicateNameMinCount => more[r.name] >= DuplicateNameMinCount
    BY <1>3, <1>7, ListingAssumption
  <2>5. SpamReasons(r, names) \subseteq SpamReasons(w, more)
    BY <1>1, <2>1, <2>3, <2>4, NoNewReason
  <2>6. SpamScore(r, names) \in Nat /\ SpamScore(w, more) \in Nat /\ SpamScore(r, names) <= SpamScore(w, more)
    BY <2>5, ScoreGrows
  <2>7. SpamScore(r, names) < SpamThreshold
    BY <1>4, <2>6 DEF SpamThreshold
  <2> QED BY <1>5, <2>7
<1> QED BY <1>6, <1>7

LEMMA EachListed == ASSUME NftInv PROVE EachHeldListedOnce
<1> SUFFICES ASSUME page.pc = "replied", ~page.failed, NEW i \in DOMAIN wallet
             PROVE  LET n == wallet[i]
                        reached == n.indexed /\ i <= FirstPage(wallet)
                    IN  Cardinality({j \in DOMAIN page.total : page.total[j].mint = n.mint})
                        = CASE ~n.held -> 0
                            [] n.held /\ n.token2022 /\ reached /\ n.indexName # "none" -> 2
                            [] n.held /\ ~n.token2022 /\ ~reached -> 0
                            [] OTHER -> 1
  BY DEF EachHeldListedOnce
<1>1. ListedRight(page.total)
  BY DEF NftInv, TotalTrue
<1> QED BY <1>1 DEF ListedRight, Times

(* A page of a wallet: none, unless that is what it asks for.              *)
NftsServed == IF service = "nfts" THEN NftInv ELSE page = NoPage

LEMMA NftsServedAlways == ServicesSpec => []NftsServed
<1>1. ServicesInit => NftsServed
  <2> SUFFICES ASSUME ServicesInit PROVE NftsServed
    OBVIOUS
  <2>1. CASE service = "nfts"
    <3>1. Holding(Holdings)
      BY <2>1 DEF ServicesInit
    <3> QED BY <2>1, <3>1, NftInvStarts DEF NftsServed
  <2>2. CASE service # "nfts"
    BY <2>2 DEF ServicesInit, Holding, NftsServed
  <2> QED BY <2>1, <2>2
<1>2. NftsServed /\ [ServicesNext]_serviceVars => NftsServed'
  <2> SUFFICES ASSUME NftsServed, [ServicesNext]_serviceVars PROVE NftsServed'
    OBVIOUS
  <2>1. service' = service
    BY DEF ServicesNext, serviceVars
  <2>2. CASE Nfts
    <3>1. NftInv /\ NftNext
      BY <2>2 DEF Nfts, NftsServed
    <3>2. NftInv'
      BY <3>1, NftInvKept
    <3> QED BY <2>1, <2>2, <3>2 DEF Nfts, NftsServed
  <2>3. CASE UNCHANGED nftVars
    <3>1. CASE service = "nfts"
      <4>1. NftInv'
        BY <2>3, <3>1, NftInvKept DEF NftsServed
      <4> QED BY <2>1, <3>1, <4>1 DEF NftsServed
    <3>2. CASE service # "nfts"
      BY <2>1, <2>3, <3>2 DEF NftsServed, nftVars, NoPage
    <3> QED BY <3>1, <3>2
  <2> QED BY <2>2, <2>3
          DEF ServicesNext, serviceVars, Transactions, SkrStake, Staking, NftAction, Events, Bitcoin, Balance
<1> QED BY <1>1, <1>2, PTL DEF ServicesSpec

(* However many NFTs a wallet holds and whatever could not be read of      *)
(* them: each that is held is once in the list its pages are cut from,     *)
(* unless the index answered an error or its first page does not reach it, *)
(* and one whose whole metadata is not spam is shown (dasGetAssetsByOwner, *)
(* getNftsByOwner, nft-metadata-hydrator, filterSpam).                     *)
THEOREM WhatIsHeldIsShown == ServicesSpec => []HoldingsShown
<1>1. NftsServed => HoldingsShown
  <2>1. NftInv => HoldingsShown
    BY ShownWhateverRead, EachListed DEF HoldingsShown
  <2>2. page = NoPage => HoldingsShown
    <3>1. page = NoPage => page.pc = "idle"
      BY DEF NoPage
    <3> QED BY <3>1 DEF HoldingsShown, UnreadHidesNothing, EachHeldListedOnce
  <2> QED BY <2>1, <2>2 DEF NftsServed
<1> QED BY <1>1, NftsServedAlways, PTL

-----------------------------------------------------------------------------
(* The ingest of usage events (AnalyticsIngest).                           *)

EventRecords == [event : Nat, ts : Int, receivedAt : Int]
Landings == [send : Nat, event : Nat, at : Int]
Ingests == [pc : {"idle", "received", "delivering", "answered", "stopped"}, batch : Batches \cup {<<>>},
            kind : {"file", "ga4"}, status : Nat, accepted : Nat, rejected : Int, toSend : Seq(Seq(EventRecords)),
            records : Nat]

(* Requests that hold the events of a set, each of them once.              *)
EachOnce(requests) ==
  \A g, h \in DOMAIN requests : \A j \in DOMAIN requests[g], l \in DOMAIN requests[h] :
    requests[g][j].event = requests[h][l].event => g = h /\ j = l
Hold(requests, events) ==
  /\ \A g \in DOMAIN requests : \A j \in DOMAIN requests[g] : requests[g][j].event \in events
  /\ \A e \in events : \E g \in DOMAIN requests : \E j \in DOMAIN requests[g] : requests[g][j].event = e
Parts(requests, events) == EachOnce(requests) /\ Hold(requests, events)

IsTransaction(batch, i) == batch.events[i].event = "transaction"
OnItsDay(batch, r) == IsTransaction(batch, r.event) => r.ts % TicksOfDay = 0 /\ r.receivedAt % TicksOfDay = 0

(* The events a send has landed so far.                                    *)
LandedOf(list, send) == {list[k].event : k \in {k \in DOMAIN list : list[k].send = send}}
OnceOf(list, send) ==
  \A k, l \in DOMAIN list : list[k].send = send /\ list[l].send = send /\ list[k].event = list[l].event => k = l

Counts ==
  /\ Refusal(ingest.batch) = 0 /\ ingest.rejected = Len(ingest.batch.events) - Cardinality(Taken(ingest.batch))

IngestTyped ==
  /\ instant \in Nat /\ sends \in Nat /\ landed \in Seq(Landings) /\ ingest \in Ingests
  /\ ingest.pc # "idle" => ingest.batch \in Batches
  /\ ingest.pc = "idle" => landed = <<>>
LandedTrue ==
  \A k \in DOMAIN landed :
    /\ landed[k].send <= sends /\ (ingest.pc = "received" => landed[k].send < sends)
    /\ landed[k].event \in Taken(ingest.batch) /\ Refusal(ingest.batch) = 0
    /\ IsTransaction(ingest.batch, landed[k].event) => landed[k].at % TicksOfDay = 0
LandedOnce == OnceOf(landed, sends)
Delivering ==
  ingest.pc = "delivering" =>
    /\ Counts /\ ingest.records = Cardinality(Taken(ingest.batch))
    /\ Parts(ingest.toSend, Taken(ingest.batch) \ LandedOf(landed, sends))
    /\ \A g \in DOMAIN ingest.toSend : \A j \in DOMAIN ingest.toSend[g] : OnItsDay(ingest.batch, ingest.toSend[g][j])
Honest ==
  ingest.pc = "answered" /\ ingest.accepted > 0 =>
    Counts /\ ingest.accepted = Cardinality(Taken(ingest.batch)) /\ LandedOf(landed, sends) = Taken(ingest.batch)

IngestInv == IngestTyped /\ LandedTrue /\ LandedOnce /\ Delivering /\ Honest

-----------------------------------------------------------------------------
(* Multiples and what is left of a division.                               *)

LEMMA DividesIt ==
  ASSUME NEW d \in Nat \ {0}, NEW x \in Int
  PROVE  /\ StartOf(x, d) \in Int /\ StartOf(x, d) % d = 0
         /\ x % d = 0 => StartOf(x, d) = x
<1> DEFINE q == x \div d
           r == x % d
<1>1. q \in Int /\ r \in Int /\ 0 <= r /\ r < d /\ x = d * q + r
  OBVIOUS
<1>2. StartOf(x, d) = x - r
  BY DEF StartOf
<1> HIDE DEF q, r
<1>3. x - r = d * q /\ d * q \in Int
  BY <1>1
<1> DEFINE y == d * q
           p == y \div d
           s == y % d
<1>4. p \in Int /\ s \in Int /\ 0 <= s /\ s < d /\ y = d * p + s
  <2>1. y \in Int
    BY <1>3
  <2> HIDE DEF y
  <2> QED BY <2>1
<1>5. d * (q - p) = s
  BY <1>1, <1>4
<1>6. s = 0
  <2> HIDE DEF p, s, y
  <2> DEFINE m == q - p
  <2>1. m \in Int /\ d * m = s
    BY <1>1, <1>4, <1>5
  <2> HIDE DEF m
  <2>2. m >= 1 => d * m >= d
    <3>1. m >= 1 => d * (m - 1) >= 0
      BY <2>1
    <3> QED BY <2>1, <3>1
  <2>3. m <= -1 => d * m < 0
    BY <2>1
  <2>4. m = 0 \/ m >= 1 \/ m <= -1
    BY <2>1
  <2>5. m = 0 => d * m = 0
    OBVIOUS
  <2> QED BY <1>4, <2>1, <2>2, <2>3, <2>4, <2>5
<1>7. x % d = 0 => StartOf(x, d) = x
  BY DEF StartOf
<1> QED BY <1>2, <1>3, <1>6, <1>7

(* The start of a day is the start of an hour.                             *)
LEMMA HourOfDay ==
  ASSUME NEW x \in Int, x % TicksOfDay = 0
  PROVE  StartOf(x, TicksOfHour) % TicksOfDay = 0
<1> DEFINE D == TicksOfDay
           H == TicksOfHour
<1>1. D \in Nat \ {0} /\ H \in Nat \ {0} /\ D % H = 0
  BY IngestAssumption
<1> HIDE DEF D, H
<1> DEFINE q == x \div D
           n == D \div H
<1>2. q \in Int /\ n \in Int /\ x = (D * q) + (x % D) /\ D = (H * n) + (D % H)
  <2>1. q \in Int /\ x = (D * q) + (x % D)
    BY <1>1
  <2>2. D \in Int
    BY <1>1
  <2>3. n \in Int /\ D = (H * n) + (D % H)
    BY <1>1, <2>2
  <2> QED BY <2>1, <2>3
<1>3. x = D * q /\ D = H * n
  BY <1>1, <1>2 DEF D
<1> HIDE DEF q, n
<1>4. x = H * (n * q)
  BY <1>1, <1>2, <1>3
<1> DEFINE p == n * q
           z == x \div H
<1>5. p \in Int /\ z \in Int /\ x = H * p /\ x = (H * z) + (x % H) /\ x % H \in Int /\ 0 <= x % H /\ x % H < H
  <2>1. p \in Int /\ x = H * p
    BY <1>2, <1>4
  <2>2. z \in Int /\ x = (H * z) + (x % H) /\ x % H \in Int /\ 0 <= x % H /\ x % H < H
    BY <1>1
  <2> QED BY <2>1, <2>2
<1> HIDE DEF p, z
<1>6. x % H = 0
  <2> DEFINE m == p - z
             s == x % H
  <2>0. H * m = (H * p) - (H * z)
    BY <1>1, <1>5
  <2>1. m \in Int /\ H * m = s /\ s \in Int /\ 0 <= s /\ s < H
    BY <1>1, <1>5, <2>0
  <2> HIDE DEF m, s
  <2>2. m >= 1 => H * m >= H
    <3>1. m >= 1 => H * (m - 1) >= 0
      BY <1>1, <2>1
    <3> QED BY <1>1, <2>1, <3>1
  <2>3. m <= -1 => H * m < 0
    BY <1>1, <2>1
  <2>4. m = 0 \/ m >= 1 \/ m <= -1
    BY <2>1
  <2>5. m = 0 => H * m = 0
    BY <1>1
  <2>6. s = 0
    BY <1>1, <2>1, <2>2, <2>3, <2>4, <2>5
  <2> QED BY <2>6 DEF s
<1>7. StartOf(x, TicksOfHour) = x
  BY <1>6 DEF StartOf, H
<1> QED BY <1>7

-----------------------------------------------------------------------------
(* Records, cut into requests.                                             *)

Distinct(recs) == \A p, q \in DOMAIN recs : recs[p].event = recs[q].event => p = q
EventsIn(recs) == {recs[p].event : p \in DOMAIN recs}
Among(requests, recs) ==
  \A g \in DOMAIN requests : \A j \in DOMAIN requests[g] : \E p \in DOMAIN recs : requests[g][j] = recs[p]

LEMMA CutsAre ==
  ASSUME NEW group \in Seq(EventRecords), Distinct(group)
  PROVE  /\ ChunksOf(group) \in Seq(Seq(EventRecords)) /\ Parts(ChunksOf(group), EventsIn(group))
         /\ Among(ChunksOf(group), group)
<1> DEFINE n == Len(group)
           M == MaxEventsPerRequest
           K == (n + M - 1) \div M
           End(k) == IF k * M <= n THEN k * M ELSE n
           C == ChunksOf(group)
<1>1. n \in Nat /\ M \in Nat \ {0} /\ DOMAIN group = 1 .. n
  BY IngestAssumption
<1>2. K \in Nat /\ K * M <= n + M - 1 /\ n + M - 1 < K * M + M
  BY <1>1
<1>3. DOMAIN C = 1 .. K /\ \A k \in 1 .. K : C[k] = SubSeq(group, (k - 1) * M + 1, Min({k * M, n}))
  BY DEF ChunksOf
<1>a. C = [k \in 1 .. K |-> C[k]]
  BY DEF ChunksOf
<1> HIDE DEF K, C, M, n
<1>4. ASSUME NEW k \in 1 .. K
      PROVE  /\ (k - 1) * M \in Nat /\ End(k) \in Nat /\ End(k) <= n /\ (k - 1) * M < End(k) /\ End(k) <= (k - 1) * M + M
             /\ Min({k * M, n}) = End(k)
  <2>1. k * M <= K * M /\ (k - 1) * M = k * M - M /\ k * M \in Nat /\ (k - 1) * M \in Nat
    BY <1>1, <1>2, TimesKeepsOrder
  <2>2. Min({k * M, n}) = IF k * M <= n THEN k * M ELSE n
    BY <1>1, <2>1, LesserOf
  <2>3. (k - 1) * M < n
    BY <1>1, <1>2, <2>1
  <2> QED BY <1>1, <2>1, <2>2, <2>3
<1>5. ASSUME NEW k \in 1 .. K
      PROVE  /\ C[k] \in Seq(EventRecords) /\ DOMAIN C[k] = 1 .. (End(k) - (k - 1) * M)
             /\ \A j \in DOMAIN C[k] : (k - 1) * M + j \in DOMAIN group /\ C[k][j] = group[(k - 1) * M + j]
  <2> DEFINE a == (k - 1) * M
             b == End(k)
  <2>1. /\ a \in Nat /\ b \in Nat /\ b <= n /\ a < b
        /\ C[k] = SubSeq(group, a + 1, b)
    BY <1>3, <1>4
  <2> HIDE DEF a, b
  <2>2. a + 1 \in 1 .. (n + 1) /\ b \in ((a + 1) - 1) .. n
    BY <1>1, <2>1
  <2>3. /\ SubSeq(group, a + 1, b) \in Seq(EventRecords) /\ Len(SubSeq(group, a + 1, b)) = b - (a + 1) + 1
        /\ \A i \in 1 .. (b - (a + 1) + 1) : SubSeq(group, a + 1, b)[i] = group[(a + 1) + i - 1]
    BY <2>2, SubSeqProperties DEF n
  <2>4. b - (a + 1) + 1 = b - a
    BY <2>1
  <2>5. C[k] \in Seq(EventRecords) /\ Len(C[k]) = b - a /\ \A i \in 1 .. (b - a) : C[k][i] = group[(a + 1) + i - 1]
    BY <2>1, <2>3, <2>4
  <2>6. \A i \in 1 .. (b - a) : (a + 1) + i - 1 = a + i /\ a + i \in DOMAIN group
    BY <1>1, <2>1
  <2>7. DOMAIN C[k] = 1 .. (b - a)
    BY <2>5
  <2>8. \A j \in DOMAIN C[k] : a + j \in DOMAIN group /\ C[k][j] = group[a + j]
    BY <2>5, <2>6, <2>7
  <2> QED BY <2>5, <2>7, <2>8 DEF a, b
<1>6. C \in Seq(Seq(EventRecords))
  <2>1. C \in [1 .. K -> Seq(EventRecords)]
    BY <1>5, <1>a
  <2> QED BY <1>2, <2>1
<1>7. Among(C, group)
  BY <1>3, <1>5 DEF Among
<1>8. ASSUME NEW p \in DOMAIN group
      PROVE  \E k \in 1 .. K : \E j \in DOMAIN C[k] : C[k][j] = group[p]
  <2> DEFINE q == (p - 1) \div M
             r == (p - 1) % M
             x == p - 1
  <2>1. q \in Int /\ r \in Int /\ 0 <= r /\ r < M /\ x = (M * q) + r /\ x \in Nat /\ x <= n - 1
    BY <1>1
  <2> HIDE DEF q, r
  <2>2. q >= 0
    <3>1. q <= -1 => M * q <= -M
      <4>1. q <= -1 => M * ((-1) - q) >= 0
        BY <1>1, <2>1
      <4> QED BY <1>1, <2>1, <4>1
    <3> QED BY <1>1, <2>1, <3>1
  <2>3. q + 1 <= K
    <3>1. q >= K => M * q >= K * M
      BY <1>1, <1>2, <2>1, TimesKeepsOrder
    <3> QED BY <1>1, <1>2, <2>1, <3>1
  <2> DEFINE k == q + 1
             j == r + 1
  <2>4. k \in 1 .. K /\ (k - 1) * M = M * q /\ p = (k - 1) * M + j /\ j \in 1 .. M
    BY <1>1, <1>2, <2>1, <2>2, <2>3
  <2> HIDE DEF k, j
  <2>5. j <= End(k) - (k - 1) * M
    <3>1. k * M = (k - 1) * M + M /\ k * M \in Nat /\ (k - 1) * M \in Nat
      BY <1>1, <2>4, <1>4
    <3> QED BY <1>1, <2>4, <3>1
  <2>6. j \in DOMAIN C[k]
    <3>1. (k - 1) * M \in Int /\ End(k) \in Int /\ j \in Int /\ 1 <= j
      BY <1>1, <1>4, <2>4
    <3>2. j \in 1 .. (End(k) - (k - 1) * M)
      BY <2>5, <3>1
    <3> QED BY <1>5, <2>4, <3>2
  <2>7. C[k][j] = group[p]
    BY <1>5, <2>4, <2>6
  <2> QED BY <2>4, <2>6, <2>7
<1>9. Hold(C, EventsIn(group))
  <2>1. \A g \in DOMAIN C : \A j \in DOMAIN C[g] : C[g][j].event \in EventsIn(group)
    BY <1>7 DEF Among, EventsIn
  <2>2. \A e \in EventsIn(group) : \E g \in DOMAIN C : \E j \in DOMAIN C[g] : C[g][j].event = e
    BY <1>3, <1>8 DEF EventsIn
  <2> QED BY <2>1, <2>2 DEF Hold
<1>10. ASSUME NEW g \in DOMAIN C, NEW h \in DOMAIN C, NEW j \in DOMAIN C[g], NEW l \in DOMAIN C[h],
              C[g][j].event = C[h][l].event
       PROVE  g = h /\ j = l
  <2> DEFINE a == (g - 1) * M
             b == (h - 1) * M
  <2>1. /\ g \in 1 .. K /\ h \in 1 .. K /\ a \in Nat /\ b \in Nat
        /\ j \in 1 .. M /\ l \in 1 .. M
        /\ a + j \in DOMAIN group /\ C[g][j] = group[a + j] /\ b + l \in DOMAIN group /\ C[h][l] = group[b + l]
    <3>1. g \in 1 .. K /\ h \in 1 .. K
      BY <1>3
    <3>2. /\ j \in 1 .. (End(g) - a) /\ a \in Nat /\ End(g) \in Nat /\ End(g) <= a + M
          /\ l \in 1 .. (End(h) - b) /\ b \in Nat /\ End(h) \in Nat /\ End(h) <= b + M
      BY <1>4, <1>5, <3>1
    <3>3. j \in 1 .. M /\ l \in 1 .. M
      <4> HIDE DEF a, b, End
      <4> QED BY <1>1, <3>2
    <3> QED BY <1>5, <3>1, <3>2, <3>3
  <2>2. a + j = b + l
    BY <1>10, <2>1 DEF Distinct
  <2>3. g = h
    <3>1. g < h => a + M <= b
      <4>0. g \in Int /\ h - 1 \in Int /\ g * M = (g - 1) * M + M /\ M \in Nat /\ (g < h => g <= h - 1)
        <5>1. g \in Int /\ h \in Int /\ M \in Nat
          BY <1>1, <1>2, <2>1
        <5> QED BY <5>1
      <4>1. g < h => g * M <= (h - 1) * M
        BY <4>0, TimesKeepsOrder
      <4> QED BY <4>0, <4>1
    <3>2. h < g => b + M <= a
      <4>0. h \in Int /\ g - 1 \in Int /\ h * M = (h - 1) * M + M /\ M \in Nat /\ (h < g => h <= g - 1)
        <5>1. g \in Int /\ h \in Int /\ M \in Nat
          BY <1>1, <1>2, <2>1
        <5> QED BY <5>1
      <4>1. h < g => h * M <= (g - 1) * M
        BY <4>0, TimesKeepsOrder
      <4> QED BY <4>0, <4>1
    <3>3. ~(a + M <= b) /\ ~(b + M <= a)
      <4> HIDE DEF a, b
      <4> QED BY <1>1, <2>1, <2>2
    <3>4. g \in Int /\ h \in Int
      BY <1>2, <2>1
    <3> QED BY <3>1, <3>2, <3>3, <3>4
  <2>4. j = l
    BY <1>1, <2>1, <2>2, <2>3
  <2> QED BY <2>3, <2>4
<1>11. EachOnce(C)
  BY <1>10 DEF EachOnce
<1> QED BY <1>6, <1>7, <1>9, <1>11 DEF Parts, C

(* Some of a list's records, in a list of their own.                       *)
LEMMA SelectedDistinct ==
  ASSUME NEW recs \in Seq(EventRecords), Distinct(recs), NEW S, S \subseteq DOMAIN recs
  PROVE  /\ SelectAt(recs, S) \in Seq(EventRecords) /\ Distinct(SelectAt(recs, S))
         /\ EventsIn(SelectAt(recs, S)) = {recs[p].event : p \in S}
         /\ \A k \in DOMAIN SelectAt(recs, S) : \E p \in DOMAIN recs : SelectAt(recs, S)[k] = recs[p]
<1> DEFINE L == SelectAt(recs, S)
           n == Cardinality(S)
<1>1. /\ IsFiniteSet(S) /\ S \subseteq Int /\ n \in Nat /\ L \in Seq(EventRecords) /\ Len(L) = n
      /\ \A k \in 1 .. n : Nth(S, k) \in S /\ L[k] = recs[Nth(S, k)]
  BY Selected
<1>2. /\ \A k \in 1 .. n : Nth(S, k) \in S /\ Rank(S, Nth(S, k)) = k - 1
      /\ \A i \in S : Rank(S, i) + 1 \in 1 .. n /\ Nth(S, Rank(S, i) + 1) = i
  BY <1>1, NthOf
<1> HIDE DEF L, n
<1>3. DOMAIN L = 1 .. n
  BY <1>1
<1>4. ASSUME NEW p \in DOMAIN L, NEW q \in DOMAIN L, L[p].event = L[q].event PROVE p = q
  <2>1. Nth(S, p) \in DOMAIN recs /\ Nth(S, q) \in DOMAIN recs /\ p \in Int /\ q \in Int
    BY <1>1, <1>3
  <2>2. recs[Nth(S, p)].event = recs[Nth(S, q)].event
    BY <1>1, <1>3, <1>4
  <2>3. Nth(S, p) = Nth(S, q)
    BY <2>1, <2>2 DEF Distinct
  <2>4. p - 1 = q - 1
    BY <1>2, <1>3, <2>3
  <2> QED BY <2>1, <2>4
<1>5. EventsIn(L) = {recs[p].event : p \in S}
  <2>1. \A e \in EventsIn(L) : e \in {recs[p].event : p \in S}
    BY <1>1, <1>3 DEF EventsIn
  <2>2. \A i \in S : recs[i].event \in EventsIn(L)
    <3> TAKE i \in S
    <3> DEFINE k == Rank(S, i) + 1
    <3>1. k \in DOMAIN L /\ Nth(S, k) = i
      BY <1>2, <1>3
    <3> HIDE DEF k
    <3>2. L[k] = recs[i]
      BY <1>1, <1>3, <3>1
    <3> QED BY <3>1, <3>2 DEF EventsIn
  <2> QED BY <2>1, <2>2
<1>6. \A k \in DOMAIN L : \E p \in DOMAIN recs : L[k] = recs[p]
  BY <1>1, <1>3
<1> QED BY <1>1, <1>4, <1>5, <1>6 DEF L, Distinct

LEMMA PartsTogether ==
  ASSUME NEW A \in Seq(Seq(EventRecords)), NEW B \in Seq(Seq(EventRecords)), NEW X, NEW Y, X \cap Y = {},
         Parts(A, X), Parts(B, Y), NEW recs, Among(A, recs), Among(B, recs)
  PROVE  A \o B \in Seq(Seq(EventRecords)) /\ Parts(A \o B, X \cup Y) /\ Among(A \o B, recs)
<1> DEFINE L == A \o B
           n == Len(A)
           m == Len(B)
<1>1. /\ L \in Seq(Seq(EventRecords)) /\ Len(L) = n + m /\ n \in Nat /\ m \in Nat
      /\ \A k \in 1 .. n + m : L[k] = IF k <= n THEN A[k] ELSE B[k - n]
  BY ConcatProperties
<1>2. DOMAIN A = 1 .. n /\ DOMAIN B = 1 .. m
  OBVIOUS
<1> HIDE DEF L, n, m
<1>3. DOMAIN L = 1 .. (n + m)
  BY <1>1
<1>4. ASSUME NEW g \in DOMAIN L
      PROVE  \/ g <= n /\ g \in DOMAIN A /\ L[g] = A[g]
             \/ g > n /\ g - n \in DOMAIN B /\ L[g] = B[g - n]
  BY <1>1, <1>2, <1>3
<1>5. /\ \A g \in DOMAIN A : g \in DOMAIN L /\ L[g] = A[g]
      /\ \A g \in DOMAIN B : n + g \in DOMAIN L /\ L[n + g] = B[g]
  <2>1. \A g \in DOMAIN A : g \in DOMAIN L /\ L[g] = A[g]
    BY <1>1, <1>2, <1>3
  <2>2. ASSUME NEW g \in DOMAIN B PROVE n + g \in DOMAIN L /\ L[n + g] = B[g]
    <3> DEFINE k == n + g
    <3>1. k \in 1 .. (n + m) /\ ~(k <= n) /\ k - n = g
      BY <1>1, <1>2
    <3> HIDE DEF k
    <3>2. k \in DOMAIN L /\ L[k] = B[g]
      BY <1>1, <1>3, <3>1
    <3> QED BY <3>2 DEF k
  <2> QED BY <2>1, <2>2
<1>6. Among(L, recs)
  <2>1. ASSUME NEW g \in DOMAIN L, NEW j \in DOMAIN L[g] PROVE \E p \in DOMAIN recs : L[g][j] = recs[p]
    BY <1>4 DEF Among
  <2> QED BY <2>1 DEF Among
<1>7. Hold(L, X \cup Y)
  <2>1. ASSUME NEW g \in DOMAIN L, NEW j \in DOMAIN L[g] PROVE L[g][j].event \in X \cup Y
    BY <1>4 DEF Parts, Hold
  <2>2. ASSUME NEW e \in X \cup Y PROVE \E g \in DOMAIN L : \E j \in DOMAIN L[g] : L[g][j].event = e
    <3>1. CASE e \in X
      <4>1. PICK g \in DOMAIN A : \E j \in DOMAIN A[g] : A[g][j].event = e
        BY <3>1 DEF Parts, Hold
      <4> QED BY <1>5, <4>1
    <3>2. CASE e \in Y
      <4>1. PICK g \in DOMAIN B : \E j \in DOMAIN B[g] : B[g][j].event = e
        BY <3>2 DEF Parts, Hold
      <4> QED BY <1>5, <4>1
    <3> QED BY <3>1, <3>2
  <2> QED BY <2>1, <2>2 DEF Hold
<1>8. ASSUME NEW g \in DOMAIN L, NEW h \in DOMAIN L, NEW j \in DOMAIN L[g], NEW l \in DOMAIN L[h],
             L[g][j].event = L[h][l].event
      PROVE  g = h /\ j = l
  <2>0. g \in Int /\ h \in Int /\ n \in Int
    BY <1>1, <1>3
  <2>1. CASE g <= n /\ h <= n
    <3>1. g \in DOMAIN A /\ L[g] = A[g] /\ h \in DOMAIN A /\ L[h] = A[h]
      BY <1>4, <2>0, <2>1
    <3> QED BY <1>8, <3>1 DEF Parts, EachOnce
  <2>2. CASE g > n /\ h > n
    <3>1. g - n \in DOMAIN B /\ L[g] = B[g - n] /\ h - n \in DOMAIN B /\ L[h] = B[h - n]
      BY <1>4, <2>0, <2>2
    <3>2. g - n = h - n /\ j = l
      BY <1>8, <3>1 DEF Parts, EachOnce
    <3> QED BY <2>0, <3>2
  <2>3. CASE g <= n /\ h > n
    <3>1. g \in DOMAIN A /\ L[g] = A[g] /\ h - n \in DOMAIN B /\ L[h] = B[h - n]
      BY <1>4, <2>0, <2>3
    <3>2. L[g][j].event \in X /\ L[h][l].event \in Y
      BY <3>1 DEF Parts, Hold
    <3> QED BY <1>8, <3>2
  <2>4. CASE g > n /\ h <= n
    <3>1. h \in DOMAIN A /\ L[h] = A[h] /\ g - n \in DOMAIN B /\ L[g] = B[g - n]
      BY <1>4, <2>0, <2>4
    <3>2. L[h][l].event \in X /\ L[g][j].event \in Y
      BY <3>1 DEF Parts, Hold
    <3> QED BY <1>8, <3>2
  <2> QED BY <2>0, <2>1, <2>2, <2>3, <2>4
<1>9. EachOnce(L)
  BY <1>8 DEF EachOnce
<1> QED BY <1>1, <1>6, <1>7, <1>9 DEF Parts, L

(* What is sent: each of the records, once.                                *)
LEMMA RequestsAre ==
  ASSUME NEW recs \in Seq(EventRecords), Distinct(recs), NEW sink \in {"file", "ga4"}
  PROVE  /\ Requests(sink, recs) \in Seq(Seq(EventRecords)) /\ Parts(Requests(sink, recs), EventsIn(recs))
         /\ Among(Requests(sink, recs), recs)
<1>1. CASE sink = "file"
  <2> DEFINE L == <<recs>>
  <2>1. Requests(sink, recs) = L
    BY <1>1 DEF Requests
  <2>2. L \in Seq(Seq(EventRecords)) /\ DOMAIN L = {1} /\ L[1] = recs
    OBVIOUS
  <2> HIDE DEF L
  <2>3. Among(L, recs) /\ Hold(L, EventsIn(recs)) /\ EachOnce(L)
    BY <2>2 DEF Among, Hold, EachOnce, EventsIn, Distinct
  <2> QED BY <2>1, <2>2, <2>3 DEF Parts
<1>2. CASE sink = "ga4"
  <2> DEFINE first == {k \in DOMAIN recs : recs[k].receivedAt = recs[1].receivedAt}
             rest == DOMAIN recs \ first
             A == SelectAt(recs, first)
             B == SelectAt(recs, rest)
             X == {recs[p].event : p \in first}
             Y == {recs[p].event : p \in rest}
  <2>1. Requests(sink, recs) = ChunksOf(A) \o ChunksOf(B)
    BY <1>2 DEF Requests
  <2>2. first \subseteq DOMAIN recs /\ rest \subseteq DOMAIN recs /\ first \cap rest = {}
        /\ first \cup rest = DOMAIN recs
    OBVIOUS
  <2> HIDE DEF first, rest
  <2>3. /\ A \in Seq(EventRecords) /\ Distinct(A) /\ EventsIn(A) = X
        /\ \A k \in DOMAIN A : \E p \in DOMAIN recs : A[k] = recs[p]
    BY <2>2, SelectedDistinct
  <2>4. /\ B \in Seq(EventRecords) /\ Distinct(B) /\ EventsIn(B) = Y
        /\ \A k \in DOMAIN B : \E p \in DOMAIN recs : B[k] = recs[p]
    BY <2>2, SelectedDistinct
  <2>5. X \cap Y = {} /\ X \cup Y = EventsIn(recs)
    <3>1. X \cap Y = {}
      BY <2>2 DEF Distinct
    <3>2. X \cup Y = EventsIn(recs)
      BY <2>2 DEF EventsIn
    <3> QED BY <3>1, <3>2
  <2> HIDE DEF A, B, X, Y
  <2>6. ChunksOf(A) \in Seq(Seq(EventRecords)) /\ Parts(ChunksOf(A), X) /\ Among(ChunksOf(A), A)
    BY <2>3, CutsAre
  <2>7. ChunksOf(B) \in Seq(Seq(EventRecords)) /\ Parts(ChunksOf(B), Y) /\ Among(ChunksOf(B), B)
    BY <2>4, CutsAre
  <2>8. Among(ChunksOf(A), recs) /\ Among(ChunksOf(B), recs)
    BY <2>3, <2>4, <2>6, <2>7 DEF Among
  <2> DEFINE C == ChunksOf(A)
             D == ChunksOf(B)
  <2> HIDE DEF C, D
  <2>9. C \o D \in Seq(Seq(EventRecords)) /\ Parts(C \o D, X \cup Y) /\ Among(C \o D, recs)
    BY <2>5, <2>6, <2>7, <2>8, PartsTogether DEF C, D
  <2> QED BY <2>1, <2>5, <2>9 DEF C, D
<1> QED BY <1>1, <1>2

(* The records of a batch: its events that are taken, each once.           *)
LEMMA RecordsAre ==
  ASSUME NEW batch \in Batches, instant \in Nat
  PROVE  /\ Records(batch) \in Seq(EventRecords) /\ Distinct(Records(batch)) /\ EventsIn(Records(batch)) = Taken(batch)
         /\ Cardinality(Taken(batch)) \in Nat /\ batch.events \in Seq(RawEvents)
         /\ \A k \in DOMAIN Records(batch) : OnItsDay(batch, Records(batch)[k])
<1> DEFINE T == Taken(batch)
           n == Cardinality(T)
           R == Records(batch)
<1>1. batch.events \in Seq(RawEvents) /\ TicksOfDay \in Nat \ {0}
  BY IngestAssumption
<1>2. T \subseteq DOMAIN batch.events
  BY DEF Taken
<1> HIDE DEF T
<1>3. /\ IsFiniteSet(T) /\ T \subseteq Int /\ n \in Nat
      /\ \A k \in 1 .. n : Nth(T, k) \in T
  BY <1>1, <1>2, Selected
<1>4. /\ \A k \in 1 .. n : Nth(T, k) \in T /\ Rank(T, Nth(T, k)) = k - 1
      /\ \A i \in T : Rank(T, i) + 1 \in 1 .. n /\ Nth(T, Rank(T, i) + 1) = i
  BY <1>3, NthOf
<1>5. R = [k \in 1 .. n |-> ToRecord(batch, Nth(T, k))]
  BY DEF Records, T
<1> HIDE DEF n, R
<1>6. ASSUME NEW i \in T
      PROVE  ToRecord(batch, i) \in EventRecords /\ ToRecord(batch, i).event = i /\ OnItsDay(batch, ToRecord(batch, i))
  <2>1. /\ i \in Nat /\ batch.events[i].ts \in Int
    <3>1. i \in DOMAIN batch.events /\ DOMAIN batch.events \subseteq Nat /\ batch.events[i] \in RawEvents
      BY <1>1, <1>2
    <3> QED BY <3>1 DEF RawEvents
  <2> DEFINE ms == IF batch.events[i].ts = -1 THEN instant ELSE batch.events[i].ts
             date(x) == IF IsTransaction(batch, i) THEN StartOf(x, TicksOfDay) ELSE x
  <2>2. ms \in Int /\ instant \in Int
    BY <2>1
  <2> HIDE DEF ms
  <2>3. /\ StartOf(ms, TicksOfDay) \in Int /\ StartOf(ms, TicksOfDay) % TicksOfDay = 0
        /\ StartOf(instant, TicksOfDay) \in Int /\ StartOf(instant, TicksOfDay) % TicksOfDay = 0
    BY <1>1, <2>2, DividesIt
  <2>4. ToRecord(batch, i) = [event |-> i, ts |-> date(ms), receivedAt |-> date(instant)]
    BY DEF ToRecord, IsTransaction, ms
  <2>5. /\ date(ms) \in Int /\ date(instant) \in Int
        /\ IsTransaction(batch, i) => date(ms) % TicksOfDay = 0 /\ date(instant) % TicksOfDay = 0
    BY <2>2, <2>3
  <2> HIDE DEF date
  <2> QED BY <2>1, <2>4, <2>5 DEF EventRecords, OnItsDay
<1>7. R \in Seq(EventRecords) /\ DOMAIN R = 1 .. n /\ \A k \in 1 .. n : R[k] = ToRecord(batch, Nth(T, k)) /\ R[k].event = Nth(T, k)
  <2>1. \A k \in 1 .. n : ToRecord(batch, Nth(T, k)) \in EventRecords /\ ToRecord(batch, Nth(T, k)).event = Nth(T, k)
    BY <1>4, <1>6
  <2>2. R \in [1 .. n -> EventRecords]
    BY <1>5, <2>1
  <2>3. \A k \in 1 .. n : R[k] = ToRecord(batch, Nth(T, k))
    BY <1>5
  <2> QED BY <1>3, <2>1, <2>2, <2>3
<1>8. Distinct(R)
  <2>1. ASSUME NEW p \in DOMAIN R, NEW q \in DOMAIN R, R[p].event = R[q].event PROVE p = q
    <3>1. p - 1 = q - 1 /\ p \in Int /\ q \in Int
      BY <1>3, <1>4, <1>7, <2>1
    <3> QED BY <3>1
  <2> QED BY <2>1 DEF Distinct
<1>9. EventsIn(R) = T
  <2>1. \A e \in EventsIn(R) : e \in T
    BY <1>4, <1>7 DEF EventsIn
  <2>2. ASSUME NEW i \in T PROVE i \in EventsIn(R)
    <3> DEFINE k == Rank(T, i) + 1
    <3>1. k \in 1 .. n /\ Nth(T, k) = i
      BY <1>4
    <3> HIDE DEF k
    <3> QED BY <1>7, <3>1 DEF EventsIn
  <2> QED BY <2>1, <2>2
<1>10. \A k \in DOMAIN R : OnItsDay(batch, R[k])
  BY <1>4, <1>6, <1>7
<1> QED BY <1>1, <1>3, <1>7, <1>8, <1>9, <1>10 DEF R, T, n

LEMMA TailParts ==
  ASSUME NEW L \in Seq(Seq(EventRecords)), L # <<>>, NEW E, Parts(L, E)
  PROVE  /\ Head(L) \in Seq(EventRecords) /\ Distinct(Head(L)) /\ EventsIn(Head(L)) \subseteq E
         /\ Tail(L) \in Seq(Seq(EventRecords)) /\ Parts(Tail(L), E \ EventsIn(Head(L)))
         /\ 1 \in DOMAIN L /\ Head(L) = L[1]
         /\ \A g \in DOMAIN Tail(L) : g + 1 \in DOMAIN L /\ Tail(L)[g] = L[g + 1]
<1> DEFINE H == Head(L)
           T == Tail(L)
<1>1. /\ 1 \in DOMAIN L /\ H = L[1] /\ H \in Seq(EventRecords) /\ T \in Seq(Seq(EventRecords))
      /\ Len(L) \in Nat /\ Len(T) = Len(L) - 1 /\ DOMAIN L = 1 .. Len(L) /\ DOMAIN T = 1 .. (Len(L) - 1)
      /\ \A g \in 1 .. (Len(L) - 1) : T[g] = L[g + 1]
  BY HeadTailProperties
<1> HIDE DEF H, T
<1>2. \A g \in DOMAIN T : g \in Int /\ g + 1 \in DOMAIN L /\ g + 1 # 1 /\ T[g] = L[g + 1]
  BY <1>1
<1>3. Distinct(H) /\ EventsIn(H) \subseteq E
  <2>1. Distinct(H)
    BY <1>1 DEF Parts, EachOnce, Distinct
  <2>2. \A j \in DOMAIN H : H[j].event \in E
    BY <1>1 DEF Parts, Hold
  <2> QED BY <2>1, <2>2 DEF EventsIn
<1>4. ASSUME NEW g \in DOMAIN T, NEW h \in DOMAIN T, NEW j \in DOMAIN T[g], NEW l \in DOMAIN T[h],
             T[g][j].event = T[h][l].event
      PROVE  g = h /\ j = l
  <2>1. g + 1 = h + 1 /\ j = l
    BY <1>2, <1>4 DEF Parts, EachOnce
  <2> QED BY <1>2, <2>1
<1>5. ASSUME NEW g \in DOMAIN T, NEW j \in DOMAIN T[g] PROVE T[g][j].event \in E \ EventsIn(H)
  <2>1. g + 1 \in DOMAIN L /\ j \in DOMAIN L[g + 1] /\ T[g][j] = L[g + 1][j] /\ g + 1 # 1
    BY <1>2
  <2>2. T[g][j].event \in E
    BY <2>1 DEF Parts, Hold
  <2>3. \A l \in DOMAIN H : H[l].event # T[g][j].event
    <3> SUFFICES ASSUME NEW l \in DOMAIN H, H[l].event = T[g][j].event PROVE FALSE
      OBVIOUS
    <3> DEFINE h == g + 1
    <3>1. h \in DOMAIN L /\ j \in DOMAIN L[h] /\ L[1][l].event = L[h][j].event /\ l \in DOMAIN L[1] /\ h # 1
      BY <1>1, <2>1
    <3> HIDE DEF h
    <3> QED BY <1>1, <3>1 DEF Parts, EachOnce
  <2> QED BY <2>2, <2>3 DEF EventsIn
<1>6. ASSUME NEW e \in E \ EventsIn(H) PROVE \E g \in DOMAIN T : \E j \in DOMAIN T[g] : T[g][j].event = e
  <2>1. PICK g \in DOMAIN L : \E j \in DOMAIN L[g] : L[g][j].event = e
    BY DEF Parts, Hold
  <2>2. g # 1
    BY <1>1, <2>1 DEF EventsIn
  <2> DEFINE k == g - 1
  <2>3. k \in DOMAIN T /\ k + 1 = g
    BY <1>1, <2>2
  <2> HIDE DEF k
  <2>4. T[k] = L[g]
    BY <1>2, <2>3
  <2> QED BY <2>1, <2>3, <2>4
<1>7. Parts(T, E \ EventsIn(H))
  BY <1>4, <1>5, <1>6 DEF Parts, EachOnce, Hold
<1> QED BY <1>1, <1>2, <1>3, <1>7 DEF H, T

(* What lands of a send: none of it had landed before.                     *)
LEMMA LandKeeps ==
  ASSUME IngestInv, ingest.pc = "delivering", NEW recs \in Seq(EventRecords), Distinct(recs),
         EventsIn(recs) \subseteq Taken(ingest.batch) \ LandedOf(landed, sends),
         \A k \in DOMAIN recs : OnItsDay(ingest.batch, recs[k]),
         NEW L, L = Land(recs)
  PROVE  /\ L \in Seq(Landings)
         /\ \A k \in DOMAIN L : /\ L[k].send <= sends /\ L[k].event \in Taken(ingest.batch)
                                /\ IsTransaction(ingest.batch, L[k].event) => L[k].at % TicksOfDay = 0
         /\ OnceOf(L, sends) /\ LandedOf(L, sends) = LandedOf(landed, sends) \cup EventsIn(recs)
<1> DEFINE new == [k \in DOMAIN recs |-> [send |-> sends, event |-> recs[k].event,
                                          at |-> IF ingest.kind = "file" THEN recs[k].ts
                                                 ELSE StartOf(recs[k].receivedAt, TicksOfHour)]]
           n == Len(landed)
           m == Len(recs)
<1>1. sends \in Nat /\ landed \in Seq(Landings) /\ n \in Nat /\ m \in Nat /\ DOMAIN recs = 1 .. m /\ DOMAIN landed = 1 .. n
  BY DEF IngestInv, IngestTyped
<1>2. ASSUME NEW k \in DOMAIN recs
      PROVE  /\ new[k] \in Landings /\ new[k].send = sends /\ new[k].event = recs[k].event
             /\ IsTransaction(ingest.batch, new[k].event) => new[k].at % TicksOfDay = 0
  <2>1. recs[k].event \in Nat /\ recs[k].ts \in Int /\ recs[k].receivedAt \in Int /\ TicksOfHour \in Nat \ {0}
    <3>1. recs[k] \in EventRecords
      BY <1>1
    <3> QED BY <3>1, IngestAssumption DEF EventRecords
  <2> DEFINE at == IF ingest.kind = "file" THEN recs[k].ts ELSE StartOf(recs[k].receivedAt, TicksOfHour)
  <2>2. at \in Int
    BY <2>1, DividesIt
  <2>3. IsTransaction(ingest.batch, recs[k].event) => at % TicksOfDay = 0
    BY <2>1, HourOfDay DEF OnItsDay
  <2>4. new[k] = [send |-> sends, event |-> recs[k].event, at |-> at]
    OBVIOUS
  <2> HIDE DEF at, new
  <2> QED BY <1>1, <2>1, <2>2, <2>3, <2>4 DEF Landings
<1>3. L = landed \o new
  BY DEF Land
<1>4. new = [k \in 1 .. m |-> new[k]]
  BY <1>1
<1> HIDE DEF new, n, m
<1>5. new \in Seq(Landings) /\ Len(new) = m
  <2>1. new \in [1 .. m -> Landings]
    BY <1>1, <1>2, <1>4
  <2> QED BY <1>1, <2>1
<1>6. /\ L \in Seq(Landings) /\ Len(L) = n + m
      /\ \A k \in 1 .. n + m : L[k] = IF k <= n THEN landed[k] ELSE new[k - n]
  <2>1. /\ landed \o new \in Seq(Landings) /\ Len(landed \o new) = Len(landed) + Len(new)
        /\ \A k \in 1 .. Len(landed) + Len(new) :
             (landed \o new)[k] = IF k <= Len(landed) THEN landed[k] ELSE new[k - Len(landed)]
    BY <1>1, <1>5, ConcatProperties
  <2> QED BY <1>3, <1>5, <2>1 DEF n
<1>7. DOMAIN L = 1 .. (n + m)
  BY <1>1, <1>6
<1>8. ASSUME NEW k \in DOMAIN L
      PROVE  \/ k <= n /\ k \in DOMAIN landed /\ L[k] = landed[k]
             \/ k > n /\ k - n \in DOMAIN recs /\ L[k] = new[k - n]
  BY <1>1, <1>6, <1>7
<1>9. /\ \A k \in DOMAIN landed : k \in DOMAIN L /\ L[k] = landed[k]
      /\ \A k \in DOMAIN recs : n + k \in DOMAIN L /\ L[n + k] = new[k]
  <2>1. \A k \in DOMAIN landed : k \in DOMAIN L /\ L[k] = landed[k]
    BY <1>1, <1>6, <1>7
  <2>2. ASSUME NEW k \in DOMAIN recs PROVE n + k \in DOMAIN L /\ L[n + k] = new[k]
    <3> DEFINE q == n + k
    <3>1. q \in 1 .. (n + m) /\ ~(q <= n) /\ q - n = k
      BY <1>1
    <3> HIDE DEF q
    <3>2. q \in DOMAIN L /\ L[q] = new[k]
      BY <1>6, <1>7, <3>1
    <3> QED BY <3>2 DEF q
  <2> QED BY <2>1, <2>2
<1>10. ASSUME NEW k \in DOMAIN L
       PROVE  /\ L[k].send <= sends /\ L[k].event \in Taken(ingest.batch)
              /\ IsTransaction(ingest.batch, L[k].event) => L[k].at % TicksOfDay = 0
  <2>1. CASE k <= n /\ k \in DOMAIN landed /\ L[k] = landed[k]
    BY <2>1 DEF IngestInv, LandedTrue
  <2>2. CASE k > n /\ k - n \in DOMAIN recs /\ L[k] = new[k - n]
    <3>1. new[k - n].event \in EventsIn(recs)
      BY <1>2, <2>2 DEF EventsIn
    <3> QED BY <1>1, <1>2, <2>2, <3>1
  <2> QED BY <1>8, <2>1, <2>2
<1>11. LandedOf(L, sends) = LandedOf(landed, sends) \cup EventsIn(recs)
  <2>1. ASSUME NEW k \in DOMAIN L, L[k].send = sends PROVE L[k].event \in LandedOf(landed, sends) \cup EventsIn(recs)
    BY <1>2, <1>8, <2>1 DEF LandedOf, EventsIn
  <2>2. ASSUME NEW e \in LandedOf(landed, sends) PROVE e \in LandedOf(L, sends)
    BY <1>9 DEF LandedOf
  <2>3. ASSUME NEW e \in EventsIn(recs) PROVE e \in LandedOf(L, sends)
    BY <1>2, <1>9 DEF LandedOf, EventsIn
  <2>4. \A e \in LandedOf(L, sends) : e \in LandedOf(landed, sends) \cup EventsIn(recs)
    BY <2>1 DEF LandedOf
  <2> QED BY <2>2, <2>3, <2>4
<1>12. ASSUME NEW k \in DOMAIN L, NEW l \in DOMAIN L, L[k].send = sends, L[l].send = sends, L[k].event = L[l].event
       PROVE  k = l
  <2>0. k \in Int /\ l \in Int /\ n \in Int
    BY <1>1, <1>7
  <2>1. CASE k <= n /\ l <= n
    <3>1. k \in DOMAIN landed /\ L[k] = landed[k] /\ l \in DOMAIN landed /\ L[l] = landed[l]
      BY <1>8, <2>0, <2>1
    <3> QED BY <1>12, <3>1 DEF IngestInv, LandedOnce, OnceOf
  <2>2. CASE k > n /\ l > n
    <3>1. k - n \in DOMAIN recs /\ L[k] = new[k - n] /\ l - n \in DOMAIN recs /\ L[l] = new[l - n]
      BY <1>8, <2>0, <2>2
    <3>2. k - n = l - n
      BY <1>2, <1>12, <3>1 DEF Distinct
    <3> QED BY <2>0, <3>2
  <2>3. ASSUME NEW a \in DOMAIN L, NEW b \in DOMAIN L, a <= n, b > n, L[a].send = sends PROVE L[a].event # L[b].event
    <3>0. a \in Int /\ b \in Int
      BY <1>1, <1>7
    <3>1. a \in DOMAIN landed /\ L[a] = landed[a] /\ b - n \in DOMAIN recs /\ L[b] = new[b - n]
      BY <1>8, <2>0, <2>3, <3>0
    <3>2. L[a].event \in LandedOf(landed, sends)
      BY <2>3, <3>1 DEF LandedOf
    <3>3. L[b].event \in EventsIn(recs)
      BY <1>2, <3>1 DEF EventsIn
    <3> QED BY <3>2, <3>3
  <2> QED BY <1>12, <2>0, <2>1, <2>2, <2>3
<1>13. OnceOf(L, sends)
  BY <1>12 DEF OnceOf
<1> QED BY <1>6, <1>10, <1>11, <1>13

LEMMA NoIngestIsOne == NoIngest \in Ingests /\ NoIngest.pc = "idle"
<1>1. <<>> \in Seq(Seq(EventRecords))
  OBVIOUS
<1> QED BY <1>1 DEF NoIngest, Ingests

LEMMA IngestInvStarts == ASSUME IngestInit PROVE IngestInv
<1>1. /\ instant = 0 /\ sends = 0 /\ ingest = NoIngest /\ landed = <<>> /\ ingest \in Ingests /\ ingest.pc = "idle"
      /\ DOMAIN landed = {} /\ landed \in Seq(Landings)
  BY NoIngestIsOne DEF IngestInit
<1> QED BY <1>1 DEF IngestInv, IngestTyped, LandedTrue, LandedOnce, OnceOf, Delivering, Honest

LEMMA SendsAreNumbers == ASSUME NEW L \in Seq(Landings) PROVE \A k \in DOMAIN L : L[k].send \in Nat
<1>1. ASSUME NEW k \in DOMAIN L PROVE L[k] \in Landings
  BY <1>1
<1> HIDE DEF Landings
<1>2. ASSUME NEW x \in Landings PROVE x.send \in Nat
  BY DEF Landings
<1> QED BY <1>1, <1>2

LEMMA PostKeeps ==
  ASSUME IngestInv, NEW batch \in Batches, NEW sink \in {"file", "ga4"}, Post(batch, sink)
  PROVE  IngestInv'
<1> USE DEF IngestInv, IngestTyped
<1>1. /\ sends' = sends + 1 /\ UNCHANGED <<instant, landed>> /\ ingest.pc \in {"idle", "stopped"}
      /\ ingest.pc = "stopped" => batch = ingest.batch
      /\ ingest' = [NoIngest EXCEPT !.pc = "received", !.batch = batch, !.kind = sink]
  BY DEF Post
<1>2. ingest' \in Ingests /\ ingest'.pc = "received" /\ ingest'.batch = batch
  BY <1>1, NoIngestIsOne DEF Ingests, NoIngest
<1>3. \A k \in DOMAIN landed : /\ landed[k].send < sends + 1 /\ landed[k].event \in Taken(batch) /\ Refusal(batch) = 0
                               /\ IsTransaction(batch, landed[k].event) => landed[k].at % TicksOfDay = 0
  <2>1. CASE ingest.pc = "idle"
    BY <2>1
  <2>2. CASE ingest.pc = "stopped"
    <3>1. \A k \in DOMAIN landed : landed[k].send \in Nat
      BY SendsAreNumbers
    <3> QED BY <1>1, <2>2, <3>1 DEF LandedTrue
  <2> QED BY <1>1, <2>1, <2>2
<1>4. \A k \in DOMAIN landed : landed[k].send \in Nat
  BY SendsAreNumbers
<1>5. IngestTyped'
  BY <1>1, <1>2
<1>6. LandedTrue'
  BY <1>1, <1>2, <1>3, <1>4 DEF LandedTrue
<1>7. LandedOnce'
  <2>1. \A k \in DOMAIN landed : landed[k].send # sends + 1
    BY <1>3, <1>4
  <2> QED BY <1>1, <2>1 DEF LandedOnce, OnceOf
<1> QED BY <1>2, <1>5, <1>6, <1>7 DEF Delivering, Honest

LEMMA AnswerTyped ==
  \A x \in Ingests, s, a \in Nat : [x EXCEPT !.pc = "answered", !.status = s, !.accepted = a] \in Ingests
<1> TAKE x \in Ingests, s, a \in Nat
<1>1. PICK y : y = [x EXCEPT !.pc = "answered"]
  OBVIOUS
<1>2. y \in Ingests
  BY <1>1, Zenon DEF Ingests
<1>3. PICK z : z = [y EXCEPT !.status = s]
  OBVIOUS
<1>4. z \in Ingests
  BY <1>2, <1>3, Zenon DEF Ingests
<1>5. PICK u : u = [z EXCEPT !.accepted = a]
  OBVIOUS
<1>6. u \in Ingests
  BY <1>4, <1>5, Zenon DEF Ingests
<1>7. u = [x EXCEPT !.pc = "answered", !.status = s, !.accepted = a]
  BY <1>1, <1>3, <1>5, Zenon
<1> QED BY <1>6, <1>7, Zenon

(* Once it is answered, a request keeps its batch and what it rejected.    *)
AnsweredBy(x, y, s, a) == y = [x EXCEPT !.pc = "answered", !.status = s, !.accepted = a]
AnsweredAs(x, y, a) ==
  y \in Ingests /\ y.pc = "answered" /\ y.accepted = a /\ y.batch = x.batch /\ y.rejected = x.rejected

LEMMA AnswerKeeps ==
  ASSUME NEW x \in Ingests, NEW s \in Nat, NEW a \in Nat, NEW y, AnsweredBy(x, y, s, a)
  PROVE  AnsweredAs(x, y, a)
<1>1. y \in Ingests
  BY AnswerTyped, Zenon DEF AnsweredBy
<1>2. DOMAIN x = {"pc", "batch", "kind", "status", "accepted", "rejected", "toSend", "records"}
  BY DEF Ingests
<1> QED BY <1>1, <1>2 DEF AnsweredBy, AnsweredAs

LEMMA HandlerKeeps == ASSUME IngestInv, Handler PROVE IngestInv'
<1> USE DEF IngestInv, IngestTyped
<1> DEFINE batch == ingest.batch
<1>1. ingest.pc = "received" /\ UNCHANGED <<instant, sends, landed>> /\ batch \in Batches
  BY DEF Handler
<1>2. CASE Refusal(batch) # 0
  <2>1. ingest' = [ingest EXCEPT !.pc = "answered", !.status = Refusal(batch), !.accepted = 0]
    BY <1>2 DEF Handler, Answer
  <2>2. Refusal(batch) \in Nat
    BY <1>2, <1>1 DEF Refusal
  <2>3. ingest' \in Ingests /\ ingest'.pc = "answered" /\ ingest'.batch = ingest.batch /\ ingest'.accepted = 0
    <3>1. ingest \in Ingests /\ 0 \in Nat
      OBVIOUS
    <3>2. AnsweredBy(ingest, ingest', Refusal(batch), 0)
      BY <2>1, Zenon DEF AnsweredBy
    <3>3. AnsweredAs(ingest, ingest', 0)
      BY <2>2, <3>1, <3>2, AnswerKeeps, Zenon
    <3> QED BY <3>3 DEF AnsweredAs
  <2> QED BY <1>1, <2>3 DEF LandedTrue, LandedOnce, OnceOf, Delivering, Honest
<1>3. CASE Refusal(batch) = 0
  <2> DEFINE R == Records(batch)
             L == Requests(ingest.kind, R)
             n == Cardinality(Taken(batch))
  <2>1. ingest' = [ingest EXCEPT !.pc = "delivering", !.records = n, !.rejected = Len(batch.events) - n, !.toSend = L]
    BY <1>3 DEF Handler
  <2>2. /\ R \in Seq(EventRecords) /\ Distinct(R) /\ EventsIn(R) = Taken(batch) /\ n \in Nat
        /\ batch.events \in Seq(RawEvents) /\ \A k \in DOMAIN R : OnItsDay(batch, R[k])
    BY <1>1, RecordsAre
  <2>3. ingest.kind \in {"file", "ga4"}
    BY DEF Ingests
  <2> HIDE DEF R
  <2>4. L \in Seq(Seq(EventRecords)) /\ Parts(L, EventsIn(R)) /\ Among(L, R)
    BY <2>2, <2>3, RequestsAre
  <2> HIDE DEF L, n
  <2>5. Len(batch.events) - n \in Int
    BY <2>2
  <2>6. /\ ingest' \in Ingests /\ ingest'.pc = "delivering" /\ ingest'.batch = batch /\ ingest'.toSend = L
        /\ ingest'.records = n /\ ingest'.rejected = Len(batch.events) - n
    BY <2>1, <2>2, <2>4, <2>5 DEF Ingests
  <2>7. LandedOf(landed, sends) = {}
    <3>1. \A k \in DOMAIN landed : landed[k].send # sends
      <4>1. \A k \in DOMAIN landed : landed[k].send \in Nat
        BY SendsAreNumbers
      <4> QED BY <1>1, <4>1 DEF LandedTrue
    <3> QED BY <3>1 DEF LandedOf
  <2>8. Parts(L, Taken(batch) \ LandedOf(landed, sends))
    <3>1. Taken(batch) \ LandedOf(landed, sends) = EventsIn(R)
      BY <2>2, <2>7
    <3> QED BY <2>4, <3>1
  <2>9. \A g \in DOMAIN L : \A j \in DOMAIN L[g] : OnItsDay(batch, L[g][j])
    BY <2>2, <2>4 DEF Among
  <2>10. Delivering'
    <3>1. /\ Refusal(ingest'.batch) = 0 /\ ingest'.rejected = Len(ingest'.batch.events) - Cardinality(Taken(ingest'.batch))
          /\ ingest'.records = Cardinality(Taken(ingest'.batch))
          /\ Parts(ingest'.toSend, Taken(ingest'.batch) \ LandedOf(landed', sends'))
          /\ \A g \in DOMAIN ingest'.toSend : \A j \in DOMAIN ingest'.toSend[g] :
               OnItsDay(ingest'.batch, ingest'.toSend[g][j])
      BY <1>1, <1>3, <2>6, <2>8, <2>9 DEF n
    <3> QED BY <3>1 DEF Delivering, Counts
  <2>11. LandedTrue' /\ LandedOnce' /\ Honest'
    BY <1>1, <2>6 DEF LandedTrue, LandedOnce, OnceOf, Honest
  <2>12. IngestTyped'
    BY <1>1, <2>6
  <2> QED BY <2>10, <2>11, <2>12
<1> QED BY <1>2, <1>3

LEMMA PutKeeps == ASSUME IngestInv, PutRecords PROVE IngestInv'
<1> USE DEF IngestInv, IngestTyped
<1> DEFINE L == ingest.toSend
           H == Head(L)
           E == Taken(ingest.batch) \ LandedOf(landed, sends)
<1>1. /\ ingest.pc = "delivering" /\ L # <<>> /\ UNCHANGED <<instant, sends>> /\ ingest \in Ingests /\ ingest.batch \in Batches
  BY DEF PutRecords
<1>2. /\ L \in Seq(Seq(EventRecords)) /\ Parts(L, E) /\ Counts /\ ingest.records = Cardinality(Taken(ingest.batch))
      /\ \A g \in DOMAIN L : \A j \in DOMAIN L[g] : OnItsDay(ingest.batch, L[g][j])
  BY <1>1 DEF Delivering, Ingests
<1> HIDE DEF L, E
<1>3. /\ H \in Seq(EventRecords) /\ Distinct(H) /\ EventsIn(H) \subseteq E
      /\ Tail(L) \in Seq(Seq(EventRecords)) /\ Parts(Tail(L), E \ EventsIn(H))
      /\ 1 \in DOMAIN L /\ H = L[1]
      /\ \A g \in DOMAIN Tail(L) : g + 1 \in DOMAIN L /\ Tail(L)[g] = L[g + 1]
  BY <1>1, <1>2, TailParts
<1>4. \A j \in DOMAIN H : OnItsDay(ingest.batch, H[j])
  BY <1>2, <1>3
<1> HIDE DEF H
<1>5. CASE ingest' = [ingest EXCEPT !.toSend = Tail(@)] /\ landed' = Land(H)
  <2>1. /\ ingest' \in Ingests /\ ingest'.pc = "delivering" /\ ingest'.batch = ingest.batch
        /\ ingest'.toSend = Tail(L) /\ ingest'.records = ingest.records /\ ingest'.rejected = ingest.rejected
    BY <1>1, <1>3, <1>5 DEF Ingests, L
  <2>2. PICK l : l = Land(H)
    OBVIOUS
  <2>3. /\ l \in Seq(Landings)
        /\ \A k \in DOMAIN l : /\ l[k].send <= sends /\ l[k].event \in Taken(ingest.batch)
                               /\ IsTransaction(ingest.batch, l[k].event) => l[k].at % TicksOfDay = 0
        /\ OnceOf(l, sends) /\ LandedOf(l, sends) = LandedOf(landed, sends) \cup EventsIn(H)
    BY <1>1, <1>3, <1>4, <2>2, LandKeeps DEF E
  <2>4. landed' = l /\ sends' = sends /\ instant' = instant
    BY <1>1, <1>5, <2>2
  <2>5. Parts(Tail(L), Taken(ingest.batch) \ LandedOf(l, sends))
    <3>1. Taken(ingest.batch) \ LandedOf(l, sends) = E \ EventsIn(H)
      BY <2>3 DEF E
    <3> QED BY <1>3, <3>1
  <2>6. \A g \in DOMAIN Tail(L) : \A j \in DOMAIN Tail(L)[g] : OnItsDay(ingest.batch, Tail(L)[g][j])
    BY <1>2, <1>3
  <2>7. IngestTyped'
    BY <1>1, <2>1, <2>3, <2>4
  <2>8. LandedTrue'
    BY <1>2, <2>1, <2>3, <2>4 DEF LandedTrue, Counts
  <2>9. LandedOnce'
    BY <2>3, <2>4 DEF LandedOnce
  <2>10. Delivering'
    <3>1. /\ Refusal(ingest'.batch) = 0 /\ ingest'.rejected = Len(ingest'.batch.events) - Cardinality(Taken(ingest'.batch))
          /\ ingest'.records = Cardinality(Taken(ingest'.batch))
      BY <1>2, <2>1 DEF Counts
    <3>2. /\ Parts(ingest'.toSend, Taken(ingest'.batch) \ LandedOf(landed', sends'))
          /\ \A g \in DOMAIN ingest'.toSend : \A j \in DOMAIN ingest'.toSend[g] :
               OnItsDay(ingest'.batch, ingest'.toSend[g][j])
      BY <2>1, <2>4, <2>5, <2>6
    <3> QED BY <3>1, <3>2 DEF Delivering, Counts
  <2> QED BY <2>1, <2>7, <2>8, <2>9, <2>10 DEF Honest
<1>6. ASSUME NEW n \in 0 .. Len(H), Answer(202, 0), landed' = Land(SubSeq(H, 1, n))
      PROVE  IngestInv'
  <2>1. ingest' \in Ingests /\ ingest'.pc = "answered" /\ ingest'.batch = ingest.batch /\ ingest'.accepted = 0
    <3>1. PICK s : s = 202
      OBVIOUS
    <3>2. ingest' = [ingest EXCEPT !.pc = "answered", !.status = s, !.accepted = 0]
      BY <1>6, <3>1 DEF Answer
    <3>3. s \in Nat /\ 0 \in Nat
      BY <3>1
    <3>4. AnsweredBy(ingest, ingest', s, 0)
      BY <3>2, Zenon DEF AnsweredBy
    <3>5. AnsweredAs(ingest, ingest', 0)
      BY <1>1, <3>3, <3>4, AnswerKeeps, Zenon
    <3> QED BY <3>5 DEF AnsweredAs
  <2> DEFINE S == SubSeq(H, 1, n)
  <2>2. S \in Seq(EventRecords) /\ Len(S) = n /\ n \in Nat /\ n <= Len(H) /\ \A k \in 1 .. n : k \in DOMAIN H /\ S[k] = H[k]
    <3>1. n \in Nat /\ n <= Len(H) /\ Len(H) \in Nat /\ DOMAIN H = 1 .. Len(H)
      BY <1>3
    <3>2. 1 \in 1 .. (Len(H) + 1) /\ n \in (1 - 1) .. Len(H)
      BY <3>1
    <3>3. /\ S \in Seq(EventRecords) /\ Len(S) = n - 1 + 1
          /\ \A i \in 1 .. (n - 1 + 1) : S[i] = H[1 + i - 1]
      BY <1>3, <3>2, SubSeqProperties
    <3>4. n - 1 + 1 = n /\ \A i \in 1 .. n : 1 + i - 1 = i
      BY <3>1
    <3> HIDE DEF S
    <3> QED BY <3>1, <3>3, <3>4
  <2> HIDE DEF S
  <2>3. DOMAIN S = 1 .. n
    BY <2>2
  <2>4. /\ Distinct(S) /\ EventsIn(S) \subseteq E /\ \A k \in DOMAIN S : OnItsDay(ingest.batch, S[k])
    BY <1>3, <1>4, <2>2, <2>3 DEF Distinct, EventsIn
  <2>5. PICK l : l = Land(S)
    OBVIOUS
  <2>6. /\ l \in Seq(Landings)
        /\ \A k \in DOMAIN l : /\ l[k].send <= sends /\ l[k].event \in Taken(ingest.batch)
                               /\ IsTransaction(ingest.batch, l[k].event) => l[k].at % TicksOfDay = 0
        /\ OnceOf(l, sends)
    BY <1>1, <2>2, <2>4, <2>5, LandKeeps DEF E
  <2>7. landed' = l /\ sends' = sends /\ instant' = instant
    BY <1>1, <1>6, <2>5 DEF S
  <2>8. IngestTyped'
    BY <1>1, <2>1, <2>6, <2>7
  <2>9. LandedTrue'
    BY <1>2, <2>1, <2>6, <2>7 DEF LandedTrue, Counts
  <2>10. LandedOnce'
    BY <2>6, <2>7 DEF LandedOnce
  <2> QED BY <2>1, <2>8, <2>9, <2>10 DEF Delivering, Honest
<1> QED BY <1>5, <1>6 DEF PutRecords, H, L

LEMMA IngestInvKept == ASSUME IngestInv, [IngestNext]_ingestVars PROVE IngestInv'
<1> USE DEF IngestInv, IngestTyped
<1>1. CASE \E batch \in Batches, sink \in {"file", "ga4"} : Post(batch, sink)
  BY <1>1, PostKeeps
<1>2. CASE Handler
  BY <1>2, HandlerKeeps
<1>3. CASE PutRecords
  BY <1>3, PutKeeps
<1>4. CASE CreateSinkThrows
  <2>1. /\ ingest' \in Ingests /\ ingest'.pc = "answered" /\ ingest'.batch = ingest.batch /\ ingest'.accepted = 0
        /\ UNCHANGED <<instant, sends, landed>> /\ ingest.pc = "delivering"
    <3>1. PICK s : s = 202
      OBVIOUS
    <3>2. /\ ingest' = [ingest EXCEPT !.pc = "answered", !.status = s, !.accepted = 0]
          /\ UNCHANGED <<instant, sends, landed>> /\ ingest.pc = "delivering"
      BY <1>4, <3>1 DEF CreateSinkThrows, Answer
    <3>3. ingest \in Ingests /\ s \in Nat /\ 0 \in Nat
      BY <3>1
    <3>4. AnsweredBy(ingest, ingest', s, 0)
      BY <3>2, Zenon DEF AnsweredBy
    <3>5. AnsweredAs(ingest, ingest', 0)
      BY <3>3, <3>4, AnswerKeeps, Zenon
    <3> QED BY <3>2, <3>5 DEF AnsweredAs
  <2> QED BY <2>1 DEF LandedTrue, LandedOnce, OnceOf, Delivering, Honest
<1>5. CASE AllDelivered
  <2>1. /\ ingest' \in Ingests /\ ingest'.pc = "answered" /\ ingest'.batch = ingest.batch
        /\ ingest'.accepted = ingest.records /\ ingest'.rejected = ingest.rejected
        /\ UNCHANGED <<instant, sends, landed>> /\ ingest.pc = "delivering" /\ ingest.toSend = <<>>
    <3>1. PICK s : s = 202
      OBVIOUS
    <3>2. /\ ingest' = [ingest EXCEPT !.pc = "answered", !.status = s, !.accepted = ingest.records]
          /\ UNCHANGED <<instant, sends, landed>> /\ ingest.pc = "delivering" /\ ingest.toSend = <<>>
      BY <1>5, <3>1 DEF AllDelivered, Answer
    <3>3. ingest \in Ingests /\ s \in Nat /\ ingest.records \in Nat
      BY <3>1 DEF Ingests
    <3>4. AnsweredBy(ingest, ingest', s, ingest.records)
      BY <3>2, Zenon DEF AnsweredBy
    <3>5. AnsweredAs(ingest, ingest', ingest.records)
      BY <3>3, <3>4, AnswerKeeps, Zenon
    <3> QED BY <3>2, <3>5 DEF AnsweredAs
  <2>2. Taken(ingest.batch) \ LandedOf(landed, sends) = {}
    <3>1. DOMAIN ingest.toSend = {}
      BY <2>1
    <3> QED BY <2>1, <3>1 DEF Delivering, Parts, Hold
  <2>3. LandedOf(landed, sends) \subseteq Taken(ingest.batch)
    BY DEF LandedOf, LandedTrue
  <2>4. LandedOf(landed, sends) = Taken(ingest.batch)
    BY <2>2, <2>3
  <2>5. Honest'
    <3>1. /\ Refusal(ingest'.batch) = 0 /\ ingest'.rejected = Len(ingest'.batch.events) - Cardinality(Taken(ingest'.batch))
          /\ ingest'.accepted = Cardinality(Taken(ingest'.batch)) /\ LandedOf(landed', sends') = Taken(ingest'.batch)
      BY <2>1, <2>4 DEF Delivering, Counts
    <3> QED BY <3>1 DEF Honest, Counts
  <2> QED BY <2>1, <2>5 DEF LandedTrue, LandedOnce, OnceOf, Delivering
<1>6. CASE Stopped
  <2>1. /\ ingest' \in Ingests /\ ingest'.pc = "stopped" /\ ingest'.batch = ingest.batch
        /\ UNCHANGED <<instant, sends, landed>> /\ ingest.pc # "idle"
    BY <1>6 DEF Stopped, Ingests
  <2> QED BY <2>1 DEF LandedTrue, LandedOnce, OnceOf, Delivering, Honest
<1>7. CASE InstantOn
  <2>1. instant' = instant + 1 /\ UNCHANGED <<sends, ingest, landed>>
    BY <1>7 DEF InstantOn
  <2> QED BY <2>1 DEF LandedTrue, LandedOnce, OnceOf, Delivering, Counts, Honest
<1>8. CASE UNCHANGED ingestVars
  <2>1. UNCHANGED <<instant, sends, ingest, landed>>
    BY <1>8 DEF ingestVars
  <2> QED BY <2>1 DEF LandedTrue, LandedOnce, OnceOf, Delivering, Counts, Honest
<1> QED BY <1>1, <1>2, <1>3, <1>4, <1>5, <1>6, <1>7, <1>8 DEF IngestNext

LEMMA IngestHonest == ASSUME IngestInv PROVE BatchAccounted
<1> USE DEF IngestInv, IngestTyped
<1> DEFINE batch == ingest.batch
           At(i) == {k \in DOMAIN landed : landed[k].send = sends /\ landed[k].event = i}
           times(i) == Cardinality(At(i))
<1> SUFFICES ASSUME ingest.pc = "answered"
             PROVE  /\ \A i \in DOMAIN batch.events : times(i) <= IF Refusal(batch) = 0 /\ i \in Taken(batch) THEN 1 ELSE 0
                    /\ ingest.accepted > 0 =>
                         /\ ingest.accepted + ingest.rejected = Len(batch.events)
                         /\ ingest.accepted = Cardinality({i \in DOMAIN batch.events : times(i) = 1})
                    /\ \A k \in DOMAIN landed :
                         batch.events[landed[k].event].event = "transaction" => landed[k].at % TicksOfDay = 0
  BY DEF BatchAccounted
<1>1. batch \in Batches /\ batch.events \in Seq(RawEvents)
  BY IngestAssumption
<1>2. ASSUME NEW i
      PROVE  /\ i \in LandedOf(landed, sends) => times(i) = 1 /\ Refusal(batch) = 0 /\ i \in Taken(batch)
             /\ i \notin LandedOf(landed, sends) => times(i) = 0
  <2>1. CASE i \in LandedOf(landed, sends)
    <3>1. PICK k \in DOMAIN landed : landed[k].send = sends /\ landed[k].event = i
      BY <2>1 DEF LandedOf
    <3>2. At(i) = {k}
      BY <3>1 DEF LandedOnce, OnceOf
    <3>3. Refusal(batch) = 0 /\ i \in Taken(batch)
      BY <3>1 DEF LandedTrue
    <3>4. Cardinality({k}) = 1
      BY FS_Singleton
    <3> QED BY <2>1, <3>2, <3>3, <3>4
  <2>2. CASE i \notin LandedOf(landed, sends)
    <3>1. At(i) = {}
      BY <2>2 DEF LandedOf
    <3>2. Cardinality({}) = 0
      BY FS_EmptySet
    <3> QED BY <2>2, <3>1, <3>2
  <2> QED BY <2>1, <2>2
<1> HIDE DEF At, times
<1>3. \A i \in DOMAIN batch.events : times(i) <= IF Refusal(batch) = 0 /\ i \in Taken(batch) THEN 1 ELSE 0
  <2> TAKE i \in DOMAIN batch.events
  <2>1. CASE i \in LandedOf(landed, sends)
    BY <1>2, <2>1
  <2>2. CASE i \notin LandedOf(landed, sends)
    BY <1>2, <2>2
  <2> QED BY <2>1, <2>2
<1>4. ASSUME ingest.accepted > 0
      PROVE  /\ ingest.accepted + ingest.rejected = Len(batch.events)
             /\ ingest.accepted = Cardinality({i \in DOMAIN batch.events : times(i) = 1})
  <2> DEFINE n == Cardinality(Taken(batch))
  <2>1. /\ ingest.rejected = Len(batch.events) - n /\ ingest.accepted = n /\ LandedOf(landed, sends) = Taken(batch)
    BY <1>4 DEF Honest, Counts
  <2>2. ingest.accepted \in Nat /\ Len(batch.events) \in Nat
    BY <1>1 DEF Ingests
  <2>3. Taken(batch) \subseteq DOMAIN batch.events
    BY DEF Taken
  <2>4. {i \in DOMAIN batch.events : times(i) = 1} = Taken(batch)
    <3>1. \A i \in DOMAIN batch.events : times(i) = 1 <=> i \in Taken(batch)
      BY <1>2, <2>1
    <3> QED BY <2>3, <3>1
  <2> HIDE DEF n
  <2>5. ingest.accepted + ingest.rejected = Len(batch.events)
    BY <2>1, <2>2
  <2> QED BY <2>1, <2>4, <2>5 DEF n
<1>5. \A k \in DOMAIN landed :
        batch.events[landed[k].event].event = "transaction" => landed[k].at % TicksOfDay = 0
  BY DEF LandedTrue, IsTransaction
<1> QED BY <1>3, <1>4, <1>5 DEF times, At

LEMMA IngestInvAlways == ServicesSpec => []IngestInv
<1>1. ServicesInit => IngestInv
  BY IngestInvStarts DEF ServicesInit
<1>2. IngestInv /\ [ServicesNext]_serviceVars => IngestInv'
  <2>1. [ServicesNext]_serviceVars => [IngestNext]_ingestVars
    BY DEF ServicesNext, serviceVars, Transactions, SkrStake, Staking, Nfts, NftAction, Events, Bitcoin, Balance
  <2> QED BY <2>1, IngestInvKept
<1> QED BY <1>1, <1>2, PTL DEF ServicesSpec

(* However large a batch and the requests it is cut into, and whatever     *)
(* fails between them, an answer is honest: what it accepts is in the      *)
(* sink, each event once, what it rejects is the rest, and of a            *)
(* transaction the sink learns the day alone (handler, putRecords).        *)
THEOREM EachAnswerHonest == ServicesSpec => []BatchAccounted
BY IngestInvAlways, IngestHonest, PTL

-----------------------------------------------------------------------------
(* A Bitcoin address (BitcoinAccount).                                     *)

Numbers == 1 .. Len(BtcChain)
Net(n) == Worth(OwnOutputs(n)) - Worth(Spends(n))
EventsOfBtc == [type : {"fee", "utxo_input", "utxo_output"}, by : {"own", "other", "none"}, amount : Nat]

LEMMA NthOnto ==
  ASSUME NEW S, S \subseteq Int, IsFiniteSet(S)
  PROVE  /\ \A k, l \in 1 .. Cardinality(S) : Nth(S, k) = Nth(S, l) => k = l
         /\ \A i \in S : \E k \in 1 .. Cardinality(S) : Nth(S, k) = i
<1>1. \A k \in 1 .. Cardinality(S) : Nth(S, k) \in S /\ Rank(S, Nth(S, k)) = k - 1
  BY NthOf
<1>2. Cardinality(S) \in Nat
  BY FS_CardinalityType
<1>3. ASSUME NEW k \in 1 .. Cardinality(S), NEW l \in 1 .. Cardinality(S), Nth(S, k) = Nth(S, l) PROVE k = l
  <2>1. k - 1 = l - 1
    BY <1>1, <1>3
  <2> QED BY <1>2, <2>1
<1>4. ASSUME NEW i \in S PROVE \E k \in 1 .. Cardinality(S) : Nth(S, k) = i
  <2> DEFINE k == Rank(S, i) + 1
  <2>0. Rank(S, i) \in 0 .. (Cardinality(S) - 1)
    BY RankGrows
  <2>1. k \in 1 .. Cardinality(S) /\ k - 1 = Rank(S, i)
    BY <1>2, <2>0
  <2>2. Nth(S, k) \in S /\ Rank(S, Nth(S, k)) = Rank(S, i)
    BY <1>1, <2>1
  <2> DEFINE j == Nth(S, k)
  <2>3. j \in Int /\ i \in Int /\ j \in S
    BY <2>2
  <2> HIDE DEF k, j
  <2>4. (j < i => Rank(S, j) < Rank(S, i)) /\ (i < j => Rank(S, i) < Rank(S, j)) /\ Rank(S, i) \in Int
    <3>1. i < j => Rank(S, i) < Rank(S, j)
      BY <2>3, RankGrows
    <3>2. j < i => Rank(S, j) < Rank(S, i)
      BY <2>3, RankGrows
    <3> QED BY <2>0, <3>1, <3>2
  <2>5. j = i
    BY <2>2, <2>3, <2>4 DEF j
  <2> QED BY <2>1, <2>5 DEF j
<1> QED BY <1>3, <1>4

(* What is selected of a list of legs adds up to what the places do.       *)
LEMMA SumOfSelected ==
  ASSUME NEW E \in Seq(EventsOfBtc), NEW S, S \subseteq DOMAIN E, NEW w, \A k \in S : w[k] = E[k].amount
  PROVE  SumOf(SelectAt(E, S)) = SumFunctionOnSet(w, S)
<1> DEFINE L == SelectAt(E, S)
           n == Cardinality(S)
           f == [k \in 1 .. n |-> Nth(S, k)]
           v == [k \in DOMAIN L |-> L[k].amount]
<1>1. /\ IsFiniteSet(S) /\ S \subseteq Int /\ n \in Nat /\ L \in Seq(EventsOfBtc) /\ Len(L) = n
      /\ \A k \in 1 .. n : Nth(S, k) \in S /\ L[k] = E[Nth(S, k)]
  BY Selected
<1>2. DOMAIN L = 1 .. n
  BY <1>1
<1>3. /\ \A k, l \in 1 .. n : Nth(S, k) = Nth(S, l) => k = l
      /\ \A i \in S : \E k \in 1 .. n : Nth(S, k) = i
  BY <1>1, NthOnto
<1>4. IsFiniteSet(1 .. n)
  BY <1>1, FS_Interval
<1>5. f \in [1 .. n -> S] /\ (\A x, y \in 1 .. n : f[x] = f[y] => x = y)
  BY <1>1, <1>3
<1>6. \A y \in S : \E x \in 1 .. n : f[x] = y
  BY <1>3
<1>7. \A x \in 1 .. n : v[x] \in Int /\ w[f[x]] = v[x]
  <2> TAKE x \in 1 .. n
  <2>1. v[x] = E[Nth(S, x)].amount /\ f[x] = Nth(S, x) /\ Nth(S, x) \in S
    BY <1>1, <1>2
  <2>2. E[Nth(S, x)] \in EventsOfBtc
    BY <2>1
  <2>3. E[Nth(S, x)].amount \in Int
    BY <2>2 DEF EventsOfBtc
  <2> QED BY <2>1, <2>3
<1> HIDE DEF f, v, n, L
<1>8. SumFunctionOnSet(v, 1 .. n) = SumFunctionOnSet(w, S)
  <2> DEFINE D == 1 .. n
  <2>1. f \in Bijection(D, S)
    BY <1>5, <1>6, IsBijection
  <2>2. \A x \in D : v[x] \in Int /\ w[f[x]] = v[x]
    BY <1>7
  <2>3. IsFiniteSet(D)
    BY <1>4
  <2> HIDE DEF D
  <2>4. SumFunctionOnSet(v, D) = SumFunctionOnSet(w, S)
    <3>1. Renames(f, D, S, v, w)
      BY <2>1, <2>2, Zenon DEF Renames
    <3> QED BY <1>1, <2>3, <3>1, SumRenamed
  <2> QED BY <2>4 DEF D
<1>9. DOMAIN v = 1 .. n
  BY <1>2 DEF v
<1> QED BY <1>8, <1>9 DEF SumOf, SumFunction, v, L

(* The events of a transaction: its inputs and its outputs, in turn.       *)
LEMMA EventsAre ==
  ASSUME NEW n \in Numbers
  PROVE  LET E == ToTransaction(n)
             a == Len(BtcChain[n].takes)
             b == Len(BtcChain[n].pays)
         IN  /\ a \in Nat /\ b \in Nat /\ E \in Seq(EventsOfBtc) /\ Len(E) = 1 + a + b
             /\ BtcChain[n].takes \in Seq(Inputs) /\ BtcChain[n].pays \in Seq(Outputs)
             /\ E[1].type = "fee"
             /\ \A i \in 1 .. a : E[1 + i] = [type |-> "utxo_input", by |-> BtcChain[n].takes[i].by,
                                              amount |-> BtcChain[n].takes[i].amount]
             /\ \A i \in 1 .. b : E[1 + a + i] = [type |-> "utxo_output", by |-> BtcChain[n].pays[i].by,
                                                  amount |-> BtcChain[n].pays[i].amount]
<1> DEFINE a == Len(BtcChain[n].takes)
           b == Len(BtcChain[n].pays)
           F == <<[type |-> "fee", by |-> "none", amount |-> 0]>>
           A == [i \in DOMAIN BtcChain[n].takes |->
                  [type |-> "utxo_input", by |-> BtcChain[n].takes[i].by, amount |-> BtcChain[n].takes[i].amount]]
           B == [i \in DOMAIN BtcChain[n].pays |->
                  [type |-> "utxo_output", by |-> BtcChain[n].pays[i].by, amount |-> BtcChain[n].pays[i].amount]]
<1>1. BtcChain[n] \in [takes : Seq(Inputs), pays : Seq(Outputs)]
  <2> DEFINE R == [takes : Seq(Inputs), pays : Seq(Outputs)]
  <2>1. BtcChain \in Seq(R)
    BY ChainAssumption
  <2> HIDE DEF R
  <2>2. BtcChain[n] \in R
    BY <2>1 DEF Numbers
  <2> QED BY <2>2 DEF R
<1>2. /\ BtcChain[n].takes \in Seq(Inputs) /\ BtcChain[n].pays \in Seq(Outputs) /\ a \in Nat /\ b \in Nat
      /\ DOMAIN BtcChain[n].takes = 1 .. a /\ DOMAIN BtcChain[n].pays = 1 .. b
  BY <1>1
<1>3. A \in Seq(EventsOfBtc) /\ Len(A) = a
  <2>1. ASSUME NEW i \in 1 .. a PROVE A[i] \in EventsOfBtc
    <3>1. BtcChain[n].takes[i] \in Inputs
      BY <1>2
    <3> QED BY <1>2, <3>1 DEF Inputs, EventsOfBtc
  <2>2. A = [i \in 1 .. a |-> A[i]]
    BY <1>2
  <2> HIDE DEF A, a
  <2> QED BY <1>2, <2>1, <2>2
<1>4. B \in Seq(EventsOfBtc) /\ Len(B) = b
  <2>1. ASSUME NEW i \in 1 .. b PROVE B[i] \in EventsOfBtc
    <3>1. BtcChain[n].pays[i] \in Outputs
      BY <1>2
    <3> QED BY <1>2, <3>1 DEF Outputs, EventsOfBtc
  <2>2. B = [i \in 1 .. b |-> B[i]]
    BY <1>2
  <2> HIDE DEF B, b
  <2> QED BY <1>2, <2>1, <2>2
<1>5. F \in Seq(EventsOfBtc) /\ Len(F) = 1 /\ F[1].type = "fee"
  BY DEF EventsOfBtc
<1>6. /\ \A i \in 1 .. a : A[i] = [type |-> "utxo_input", by |-> BtcChain[n].takes[i].by,
                                   amount |-> BtcChain[n].takes[i].amount]
      /\ \A i \in 1 .. b : B[i] = [type |-> "utxo_output", by |-> BtcChain[n].pays[i].by,
                                   amount |-> BtcChain[n].pays[i].amount]
  BY <1>2
<1>7. ToTransaction(n) = F \o A \o B
  BY DEF ToTransaction
<1> HIDE DEF A, B, F, a, b
<1> DEFINE G == F \o A
<1>8. /\ G \in Seq(EventsOfBtc) /\ Len(G) = 1 + a
      /\ \A k \in 1 .. 1 + a : G[k] = IF k <= 1 THEN F[k] ELSE A[k - 1]
  <2>1. /\ F \o A \in Seq(EventsOfBtc) /\ Len(F \o A) = Len(F) + Len(A)
        /\ \A k \in 1 .. Len(F) + Len(A) : (F \o A)[k] = IF k <= Len(F) THEN F[k] ELSE A[k - Len(F)]
    BY <1>3, <1>5, ConcatProperties
  <2> QED BY <1>3, <1>5, <2>1
<1> HIDE DEF G
<1>9. /\ G \o B \in Seq(EventsOfBtc) /\ Len(G \o B) = 1 + a + b
      /\ \A k \in 1 .. 1 + a + b : (G \o B)[k] = IF k <= 1 + a THEN G[k] ELSE B[k - (1 + a)]
  <2>1. /\ G \o B \in Seq(EventsOfBtc) /\ Len(G \o B) = Len(G) + Len(B)
        /\ \A k \in 1 .. Len(G) + Len(B) : (G \o B)[k] = IF k <= Len(G) THEN G[k] ELSE B[k - Len(G)]
    BY <1>4, <1>8, ConcatProperties
  <2> QED BY <1>4, <1>8, <2>1
<1> DEFINE E == ToTransaction(n)
<1>10. E = G \o B
  BY <1>7 DEF G
<1> HIDE DEF E
<1>11. E[1] = F[1]
  BY <1>2, <1>8, <1>9, <1>10
<1>12. ASSUME NEW i \in 1 .. a PROVE E[1 + i] = A[i]
  <2> DEFINE q == 1 + i
  <2>1. q \in 1 .. 1 + a /\ q \in 1 .. 1 + a + b /\ q <= 1 + a /\ ~(q <= 1) /\ q - 1 = i
    BY <1>2
  <2> HIDE DEF q
  <2>2. E[q] = A[i]
    BY <1>8, <1>9, <1>10, <2>1
  <2> QED BY <2>2 DEF q
<1>13. ASSUME NEW i \in 1 .. b PROVE E[1 + a + i] = B[i]
  <2> DEFINE q == 1 + a + i
  <2>1. q \in 1 .. 1 + a + b /\ ~(q <= 1 + a) /\ q - (1 + a) = i
    BY <1>2
  <2> HIDE DEF q
  <2>2. E[q] = B[i]
    BY <1>9, <1>10, <2>1
  <2> QED BY <2>2 DEF q
<1> QED BY <1>2, <1>5, <1>6, <1>9, <1>10, <1>11, <1>12, <1>13 DEF a, b, E

(* The outputs of the address, and what is taken of them.                  *)
LEMMA OwnAre ==
  ASSUME NEW n \in Numbers
  PROVE  /\ IsFiniteSet(Places(BtcChain[n].pays, "own")) /\ IsFiniteSet(Places(BtcChain[n].takes, "own"))
         /\ IsFiniteSet(OwnOutputs(n)) /\ IsFiniteSet(Spends(n))
         /\ \A o \in OwnOutputs(n) : ValueOf(o) \in Nat /\ o[1] = n
         /\ Spends(n) \subseteq OutputsOf(n - 1)
<1> DEFINE P == Places(BtcChain[n].pays, "own")
           T == Places(BtcChain[n].takes, "own")
           pays == BtcChain[n].pays
           takes == BtcChain[n].takes
<1>1. pays \in Seq(Outputs) /\ takes \in Seq(Inputs) /\ Len(pays) \in Nat /\ Len(takes) \in Nat
  BY EventsAre
<1>2. P \subseteq 1 .. Len(pays) /\ T \subseteq 1 .. Len(takes)
  BY <1>1 DEF Places
<1>3. IsFiniteSet(P) /\ IsFiniteSet(T)
  <2>0. \A last \in Nat : IsFiniteSet(1 .. last)
    BY FS_Interval
  <2>1. IsFiniteSet(1 .. Len(pays)) /\ IsFiniteSet(1 .. Len(takes))
    BY <1>1, <2>0
  <2> HIDE DEF P, T, pays, takes
  <2> QED BY <1>2, <2>1, FS_Subset
<1>4. IsFiniteSet(OwnOutputs(n))
  <2> DEFINE f == [i \in P |-> <<n, i>>]
  <2>1. f \in Surjection(P, OwnOutputs(n))
    BY DEF Surjection, OwnOutputs
  <2> QED BY <1>3, <2>1, FS_Surjection
<1>5. IsFiniteSet(Spends(n))
  <2> DEFINE f == [i \in T |-> takes[i].output]
  <2>1. f \in Surjection(T, Spends(n))
    BY DEF Surjection, Spends
  <2> QED BY <1>3, <2>1, FS_Surjection
<1>6. ASSUME NEW o \in OwnOutputs(n) PROVE ValueOf(o) \in Nat /\ o[1] = n
  <2>1. PICK i \in P : o = <<n, i>>
    BY DEF OwnOutputs
  <2>2. pays[i] \in Outputs
    BY <1>1, <1>2
  <2>3. ValueOf(o) = pays[i].amount /\ o[1] = n
    BY <2>1 DEF ValueOf
  <2> QED BY <2>2, <2>3 DEF Outputs
<1>7. Spends(n) \subseteq OutputsOf(n - 1)
  <2>1. n \in DOMAIN BtcChain
    BY ChainAssumption DEF Numbers
  <2> QED BY <2>1, ChainAssumption DEF Spends
<1> QED BY <1>3, <1>4, <1>5, <1>6, <1>7

LEMMA OutputsAre ==
  ASSUME NEW t \in 0 .. Len(BtcChain)
  PROVE  /\ IsFiniteSet(OutputsOf(t)) /\ SpentBy(t) \subseteq OutputsOf(t)
         /\ \A o \in OutputsOf(t) : ValueOf(o) \in Nat /\ o[1] \in 1 .. t
         /\ t > 0 => OutputsOf(t) = OutputsOf(t - 1) \cup OwnOutputs(t)
         /\ t > 0 => SpentBy(t) = SpentBy(t - 1) \cup Spends(t)
<1> DEFINE Bad == {n \in Nat : n <= Len(BtcChain) /\ ~IsFiniteSet(OutputsOf(n))}
<1>0. Len(BtcChain) \in Nat
  BY ChainAssumption
<1>1. ASSUME NEW n \in Nat, n <= Len(BtcChain), n > 0
      PROVE  /\ OutputsOf(n) = OutputsOf(n - 1) \cup OwnOutputs(n) /\ SpentBy(n) = SpentBy(n - 1) \cup Spends(n)
             /\ n \in Numbers
  <2>1. 1 .. n = (1 .. n - 1) \cup {n}
    BY <1>1
  <2> QED BY <1>0, <1>1, <2>1 DEF OutputsOf, SpentBy, Numbers
<1>2. ASSUME Bad # {} PROVE FALSE
  <2>1. PICK n \in Bad : \A k \in Bad : n <= k
    BY <1>2, LeastOf
  <2>2. CASE n = 0
    <3>1. OutputsOf(0) = {}
      BY DEF OutputsOf
    <3> QED BY <2>1, <2>2, <3>1, FS_EmptySet
  <2>3. CASE n > 0
    <3>1. n - 1 \in Nat /\ n - 1 <= Len(BtcChain) /\ ~(n <= n - 1)
      BY <1>0, <2>1, <2>3
    <3>2. IsFiniteSet(OutputsOf(n - 1))
      BY <2>1, <3>1
    <3>3. OutputsOf(n) = OutputsOf(n - 1) \cup OwnOutputs(n) /\ n \in Numbers
      BY <1>1, <2>1, <2>3
    <3>4. IsFiniteSet(OwnOutputs(n))
      BY <3>3, OwnAre
    <3>5. IsFiniteSet(OutputsOf(n - 1) \cup OwnOutputs(n))
      BY <3>2, <3>4, FS_Union
    <3> QED BY <2>1, <3>3, <3>5
  <2> QED BY <2>1, <2>2, <2>3
<1>3. IsFiniteSet(OutputsOf(t))
  BY <1>0, <1>2
<1>4. ASSUME NEW o \in OutputsOf(t) PROVE ValueOf(o) \in Nat /\ o[1] \in 1 .. t
  <2>1. PICK n \in 1 .. t : o \in OwnOutputs(n)
    BY DEF OutputsOf
  <2>2. n \in Numbers
    BY <1>0 DEF Numbers
  <2> QED BY <2>1, <2>2, OwnAre
<1>5. SpentBy(t) \subseteq OutputsOf(t)
  <2> SUFFICES ASSUME NEW n \in 1 .. t, NEW o \in Spends(n) PROVE o \in OutputsOf(t)
    BY DEF SpentBy
  <2>1. n \in Numbers
    BY <1>0 DEF Numbers
  <2>2. o \in OutputsOf(n - 1)
    BY <2>1, OwnAre
  <2>3. 1 .. n - 1 \subseteq 1 .. t
    OBVIOUS
  <2> QED BY <2>2, <2>3 DEF OutputsOf
<1> QED BY <1>0, <1>1, <1>3, <1>4, <1>5

(* Worth, over any set that holds the outputs.                             *)
LEMMA WorthOver ==
  ASSUME NEW S, IsFiniteSet(S), NEW w, \A o \in S : w[o] = ValueOf(o)
  PROVE  Worth(S) = SumFunctionOnSet(w, S)
<1> DEFINE v == [o \in S |-> ValueOf(o)]
<1>1. \A o \in S : v[o] = w[o]
  OBVIOUS
<1>2. DOMAIN v = S /\ Worth(S) = SumFunctionOnSet(v, DOMAIN v)
  BY DEF Worth, SumFunction
<1> HIDE DEF v
<1>3. SumFunctionOnSet(v, S) = SumFunctionOnSet(w, S)
  BY <1>1, SumOfSame
<1> QED BY <1>2, <1>3

LEMMA WorthJoined ==
  ASSUME NEW S, IsFiniteSet(S), NEW T, IsFiniteSet(T), S \cap T = {}, \A o \in S \cup T : ValueOf(o) \in Nat
  PROVE  Worth(S \cup T) = Worth(S) + Worth(T) /\ Worth(S) \in Int /\ Worth(T) \in Int
<1> DEFINE w == [o \in S \cup T |-> ValueOf(o)]
<1>1. /\ \A o \in S \cup T : w[o] = ValueOf(o) /\ w[o] \in Int
      /\ \A o \in S : w[o] = ValueOf(o)
      /\ \A o \in T : w[o] = ValueOf(o)
  OBVIOUS
<1>2. IsFiniteSet(S \cup T)
  BY FS_Union
<1> HIDE DEF w
<1>3. /\ SumFunctionOnSet(w, S \cup T) = SumFunctionOnSet(w, S) + SumFunctionOnSet(w, T)
      /\ SumFunctionOnSet(w, S) \in Int /\ SumFunctionOnSet(w, T) \in Int
  BY <1>1, SumJoined
<1>4. Worth(S) = SumFunctionOnSet(w, S) /\ Worth(T) = SumFunctionOnSet(w, T)
  BY <1>1, WorthOver
<1>5. Worth(S \cup T) = SumFunctionOnSet(w, S \cup T)
  BY <1>1, <1>2, WorthOver
<1> QED BY <1>3, <1>4, <1>5

LEMMA NetIsInt == ASSUME NEW n \in Numbers PROVE Net(n) \in Int
<1>1. Worth(OwnOutputs(n)) \in Int
  <2>1. IsFiniteSet(OwnOutputs(n)) /\ \A o \in OwnOutputs(n) : ValueOf(o) \in Nat
    BY OwnAre
  <2> QED BY <2>1, WorthJoined, FS_EmptySet
<1>2. Worth(Spends(n)) \in Int
  <2>1. n - 1 \in 0 .. Len(BtcChain)
    BY ChainAssumption DEF Numbers
  <2>2. \A o \in OutputsOf(n - 1) : ValueOf(o) \in Nat
    BY <2>1, OutputsAre
  <2>3. IsFiniteSet(Spends(n)) /\ \A o \in Spends(n) : ValueOf(o) \in Nat
    BY <2>2, OwnAre
  <2> QED BY <2>3, WorthJoined, FS_EmptySet
<1> QED BY <1>1, <1>2 DEF Net

(* What the transactions up to one brought, less what they took, is what   *)
(* is then unspent.                                                        *)
LEMMA NetAddsUp ==
  ASSUME NEW t \in 0 .. Len(BtcChain)
  PROVE  SumFunctionOnSet([n \in Numbers |-> Net(n)], 1 .. t) = Worth(OutputsOf(t) \ SpentBy(t))
<1> DEFINE nets == [n \in Numbers |-> Net(n)]
           Free(n) == OutputsOf(n) \ SpentBy(n)
           Bad == {n \in Nat : n <= Len(BtcChain) /\ SumFunctionOnSet(nets, 1 .. n) # Worth(Free(n))}
<1>0. Len(BtcChain) \in Nat
  BY ChainAssumption
<1>1. ASSUME NEW n \in Numbers PROVE nets[n] = Net(n) /\ nets[n] \in Int
  BY NetIsInt
<1>2. ASSUME NEW n \in Nat, n > 0, n <= Len(BtcChain) PROVE Worth(Free(n)) = Worth(Free(n - 1)) + Net(n)
  <2> DEFINE A == Free(n - 1)
             N == OwnOutputs(n)
             P == Spends(n)
  <2>1. n \in Numbers /\ n \in 0 .. Len(BtcChain) /\ n - 1 \in 0 .. Len(BtcChain)
    BY <1>0, <1>2 DEF Numbers
  <2>2. /\ OutputsOf(n) = OutputsOf(n - 1) \cup N /\ SpentBy(n) = SpentBy(n - 1) \cup P
        /\ P \subseteq OutputsOf(n - 1) /\ SpentBy(n - 1) \subseteq OutputsOf(n - 1)
        /\ \A o \in OutputsOf(n - 1) : ValueOf(o) \in Nat /\ o[1] \in 1 .. n - 1
        /\ \A o \in N : ValueOf(o) \in Nat /\ o[1] = n
        /\ IsFiniteSet(OutputsOf(n - 1)) /\ IsFiniteSet(N)
    BY <1>2, <2>1, OutputsAre, OwnAre
  <2>3. N \cap OutputsOf(n - 1) = {}
    <3>1. ~(n \in 1 .. n - 1)
      BY <1>2
    <3> QED BY <2>2, <3>1
  <2>4. P \cap SpentBy(n - 1) = {}
    <3> SUFFICES ASSUME NEW o \in P, o \in SpentBy(n - 1) PROVE FALSE
      OBVIOUS
    <3>1. PICK i \in Places(BtcChain[n].takes, "own") : o = BtcChain[n].takes[i].output
      BY DEF Spends
    <3>2. PICK m \in 1 .. n - 1 : o \in Spends(m)
      BY DEF SpentBy
    <3>3. PICK j \in Places(BtcChain[m].takes, "own") : o = BtcChain[m].takes[j].output
      BY <3>2 DEF Spends
    <3>4. n \in DOMAIN BtcChain /\ m \in DOMAIN BtcChain /\ m # n
      BY <1>0, <2>1, <3>2, ChainAssumption DEF Numbers
    <3>5. \A k \in DOMAIN BtcChain : \A l \in Places(BtcChain[k].takes, "own") :
            BtcChain[k].takes[l].output = BtcChain[n].takes[i].output => k = n
      BY <3>4, ChainAssumption
    <3> QED BY <3>1, <3>3, <3>4, <3>5
  <2>5. Free(n) = (A \ P) \cup N /\ A = (A \ P) \cup P /\ (A \ P) \cap P = {} /\ (A \ P) \cap N = {}
    BY <2>2, <2>3, <2>4
  <2>6. /\ IsFiniteSet(A \ P) /\ IsFiniteSet(P) /\ \A o \in (A \ P) \cup P : ValueOf(o) \in Nat
        /\ \A o \in (A \ P) \cup N : ValueOf(o) \in Nat
    <3>1. A \ P \in SUBSET OutputsOf(n - 1) /\ P \in SUBSET OutputsOf(n - 1)
      BY <2>2
    <3>2. IsFiniteSet(A \ P)
      BY <2>2, <3>1, FS_Subset
    <3>3. IsFiniteSet(P)
      BY <2>2, <3>1, FS_Subset
    <3> QED BY <2>2, <3>1, <3>2, <3>3
  <2> DEFINE R == A \ P
  <2>7. /\ IsFiniteSet(R) /\ IsFiniteSet(P) /\ IsFiniteSet(N) /\ R \cap P = {} /\ R \cap N = {}
        /\ \A o \in R \cup P : ValueOf(o) \in Nat
        /\ \A o \in R \cup N : ValueOf(o) \in Nat
        /\ Free(n) = R \cup N /\ A = R \cup P
    BY <2>2, <2>5, <2>6
  <2> HIDE DEF R, A, N, P, Free
  <2>8. Worth(R \cup P) = Worth(R) + Worth(P) /\ Worth(R) \in Int /\ Worth(P) \in Int
    BY <2>7, WorthJoined
  <2>9. Worth(R \cup N) = Worth(R) + Worth(N) /\ Worth(N) \in Int
    BY <2>7, WorthJoined
  <2>10. Net(n) = Worth(N) - Worth(P)
    BY DEF Net, N, P
  <2>11. Worth(Free(n)) = Worth(A) + Net(n)
    BY <2>7, <2>8, <2>9, <2>10
  <2> QED BY <2>11 DEF A
<1>3. ASSUME NEW n \in Nat, n > 0, n <= Len(BtcChain)
      PROVE  SumFunctionOnSet(nets, 1 .. n) = SumFunctionOnSet(nets, 1 .. n - 1) + Net(n)
             /\ SumFunctionOnSet(nets, 1 .. n - 1) \in Int
  <2>0. \A last \in Nat : IsFiniteSet(1 .. last)
    BY FS_Interval
  <2>1. IsFiniteSet(1 .. n) /\ IsFiniteSet(1 .. n - 1) /\ (1 .. n) \ {n} = 1 .. n - 1 /\ n \in 1 .. n
    <3>1. n - 1 \in Nat
      BY <1>3
    <3>2. (1 .. n) \ {n} = 1 .. n - 1 /\ n \in 1 .. n
      BY <1>3
    <3> QED BY <2>0, <3>1, <3>2
  <2>2. \A k \in 1 .. n : k \in Numbers
    BY <1>0, <1>3 DEF Numbers
  <2>3. \A k \in 1 .. n : nets[k] = Net(k) /\ nets[k] \in Int
    BY <1>1, <2>2
  <2> HIDE DEF nets
  <2>4. SumFunctionOnSet(nets, 1 .. n) = nets[n] + SumFunctionOnSet(nets, (1 .. n) \ {n})
    BY <2>1, <2>3, SumOfOneMore
  <2>5. SumFunctionOnSet(nets, 1 .. n - 1) \in Int
    <3>1. \A k \in 1 .. n - 1 : nets[k] \in Int
      BY <2>3
    <3> QED BY <2>1, <3>1, SumOfInts
  <2>6. nets[n] = Net(n) /\ nets[n] \in Int
    BY <2>1, <2>3
  <2>7. SumFunctionOnSet(nets, 1 .. n) = nets[n] + SumFunctionOnSet(nets, 1 .. n - 1)
    BY <2>1, <2>4
  <2> QED BY <2>5, <2>6, <2>7
<1>4. SumFunctionOnSet(nets, 1 .. 0) = Worth(Free(0))
  <2>1. 1 .. 0 = {} /\ Free(0) = {}
    BY DEF OutputsOf
  <2>2. Worth({}) = SumFunctionOnSet(nets, {})
    BY FS_EmptySet, WorthOver
  <2> QED BY <2>1, <2>2
<1> HIDE DEF nets, Free
<1>5. ASSUME Bad # {} PROVE FALSE
  <2>1. PICK n \in Bad : \A k \in Bad : n <= k
    BY <1>5, LeastOf
  <2>2. n # 0
    BY <1>4, <2>1
  <2>3. n - 1 \in Nat /\ n - 1 <= Len(BtcChain) /\ ~(n <= n - 1) /\ n > 0 /\ n <= Len(BtcChain)
    BY <1>0, <2>1, <2>2
  <2>4. SumFunctionOnSet(nets, 1 .. n - 1) = Worth(Free(n - 1))
    BY <2>1, <2>3
  <2>5. SumFunctionOnSet(nets, 1 .. n) = SumFunctionOnSet(nets, 1 .. n - 1) + Net(n)
    BY <1>3, <2>3
  <2>6. Worth(Free(n)) = Worth(Free(n - 1)) + Net(n)
    BY <1>2, <2>3
  <2> QED BY <2>1, <2>4, <2>5, <2>6
<1>6. SumFunctionOnSet(nets, 1 .. t) = Worth(Free(t))
  BY <1>0, <1>5
<1> QED BY <1>6 DEF nets, Free

(* The legs of one side add up to the outputs they name.                   *)
LEMMA LegsWorth ==
  ASSUME NEW E \in Seq(EventsOfBtc), NEW type, NEW P, IsFiniteSet(P), NEW T, IsFiniteSet(T),
         NEW f \in Bijection(P, Own(E, type)), NEW g \in Bijection(P, T),
         \A i \in P : ValueOf(g[i]) = E[f[i]].amount
  PROVE  SumOf(Legs(E, type)) = Worth(T)
<1> DEFINE O == Own(E, type)
           S == {k \in O : E[k].amount # 0}
           w == [k \in DOMAIN E |-> E[k].amount]
           v == [i \in P |-> E[f[i]].amount]
           u == [o \in T |-> ValueOf(o)]
<1>1. O \in SUBSET DOMAIN E /\ S \in SUBSET O /\ IsFiniteSet(O)
  <2>1. O \in SUBSET DOMAIN E /\ S \in SUBSET O
    BY DEF Own
  <2>2. f \in Surjection(P, O)
    BY DEF Bijection
  <2> QED BY <2>1, <2>2, FS_Surjection
<1>2. \A k \in DOMAIN E : w[k] = E[k].amount /\ w[k] \in Int
  <2> TAKE k \in DOMAIN E
  <2>1. E[k] \in EventsOfBtc
    OBVIOUS
  <2> QED BY <2>1 DEF EventsOfBtc
<1>3. \A i \in P : v[i] = E[f[i]].amount /\ v[i] \in Int /\ w[f[i]] = v[i] /\ u[g[i]] = v[i]
  <2>1. f \in [P -> O] /\ g \in [P -> T]
    BY DEF Bijection, Injection
  <2> QED BY <1>1, <1>2, <2>1
<1>4. Legs(E, type) = SelectAt(E, S)
  BY DEF Legs
<1>5. \A k \in O \ S : w[k] = 0
  BY <1>1, <1>2
<1>6. \A k \in O : w[k] \in Int
  BY <1>1, <1>2
<1>7. \A k \in S : w[k] = E[k].amount
  BY <1>1, <1>2
<1>8. \A o \in T : u[o] = ValueOf(o)
  OBVIOUS
<1>9. \A i \in P : v[i] \in Int /\ w[f[i]] = v[i]
  BY <1>3
<1>10. \A i \in P : v[i] \in Int /\ u[g[i]] = v[i]
  BY <1>3
<1>16. f \in Bijection(P, O)
  OBVIOUS
<1> HIDE DEF w, v, u, O, S
<1>11. SumOf(SelectAt(E, S)) = SumFunctionOnSet(w, S)
  BY <1>1, <1>7, SumOfSelected
<1>12. SumFunctionOnSet(w, O) = SumFunctionOnSet(w, S)
  BY <1>1, <1>5, <1>6, SumWithoutNothing
<1>13. SumFunctionOnSet(v, P) = SumFunctionOnSet(w, O)
  <2>1. Renames(f, P, O, v, w)
    BY <1>9, <1>16, Zenon DEF Renames
  <2> QED BY <1>1, <2>1, SumRenamed
<1>14. SumFunctionOnSet(v, P) = SumFunctionOnSet(u, T)
  <2>1. Renames(g, P, T, v, u)
    BY <1>10, Zenon DEF Renames
  <2> QED BY <2>1, SumRenamed
<1>15. Worth(T) = SumFunctionOnSet(u, T)
  BY <1>8, WorthOver
<1> QED BY <1>4, <1>11, <1>12, <1>13, <1>14, <1>15

LEMMA DecoratedWorth ==
  ASSUME NEW n \in Numbers
  PROVE  LET t == DecorateTransaction(n)
         IN  t.id = n /\ SumOf(t.inputs) = Worth(OwnOutputs(n)) /\ SumOf(t.outputs) = Worth(Spends(n))
<1> DEFINE E == ToTransaction(n)
           pays == BtcChain[n].pays
           takes == BtcChain[n].takes
           a == Len(takes)
           b == Len(pays)
           P == Places(pays, "own")
           T == Places(takes, "own")
<1>1. /\ a \in Nat /\ b \in Nat /\ E \in Seq(EventsOfBtc) /\ Len(E) = 1 + a + b
      /\ takes \in Seq(Inputs) /\ pays \in Seq(Outputs) /\ E[1].type = "fee"
      /\ \A i \in 1 .. a : E[1 + i] = [type |-> "utxo_input", by |-> takes[i].by, amount |-> takes[i].amount]
      /\ \A i \in 1 .. b : E[1 + a + i] = [type |-> "utxo_output", by |-> pays[i].by, amount |-> pays[i].amount]
  BY EventsAre
<1>0. DOMAIN takes = 1 .. a /\ DOMAIN pays = 1 .. b /\ DOMAIN E = 1 .. (1 + a + b)
  <2>1. takes \in Seq(Inputs) /\ pays \in Seq(Outputs) /\ E \in Seq(EventsOfBtc) /\ Len(E) = 1 + a + b
    BY <1>1
  <2> HIDE DEF E, pays, takes
  <2> QED BY <2>1
<1> HIDE DEF E, a, b
<1>2. /\ DOMAIN E = 1 .. (1 + a + b) /\ P = {i \in 1 .. b : pays[i].by = "own"} /\ T = {i \in 1 .. a : takes[i].by = "own"}
  BY <1>0 DEF Places
<1>3. IsFiniteSet(P) /\ IsFiniteSet(T) /\ IsFiniteSet(OwnOutputs(n)) /\ IsFiniteSet(Spends(n))
  BY OwnAre
<1>4. n \in DOMAIN BtcChain
  BY ChainAssumption DEF Numbers
<1>5. /\ \A i \in 1 .. a : 1 + i \in DOMAIN E /\ E[1 + i].type = "utxo_input" /\ E[1 + i].by = takes[i].by
                           /\ E[1 + i].amount = takes[i].amount
      /\ \A i \in 1 .. b : 1 + a + i \in DOMAIN E /\ E[1 + a + i].type = "utxo_output"
                           /\ E[1 + a + i].by = pays[i].by /\ E[1 + a + i].amount = pays[i].amount
  <2>1. ASSUME NEW i \in 1 .. a
        PROVE  1 + i \in DOMAIN E /\ E[1 + i].type = "utxo_input" /\ E[1 + i].by = takes[i].by
               /\ E[1 + i].amount = takes[i].amount
    <3>1. 1 + i \in DOMAIN E
      BY <1>1, <1>2
    <3>2. E[1 + i] = [type |-> "utxo_input", by |-> takes[i].by, amount |-> takes[i].amount]
      BY <1>1
    <3> QED BY <3>1, <3>2
  <2>2. ASSUME NEW i \in 1 .. b
        PROVE  1 + a + i \in DOMAIN E /\ E[1 + a + i].type = "utxo_output" /\ E[1 + a + i].by = pays[i].by
               /\ E[1 + a + i].amount = pays[i].amount
    <3>1. 1 + a + i \in DOMAIN E
      BY <1>1, <1>2
    <3>2. E[1 + a + i] = [type |-> "utxo_output", by |-> pays[i].by, amount |-> pays[i].amount]
      BY <1>1
    <3> QED BY <3>1, <3>2
  <2> QED BY <2>1, <2>2
<1>6. ASSUME NEW k \in DOMAIN E
      PROVE  \/ k = 1
             \/ \E i \in 1 .. a : k = 1 + i
             \/ \E i \in 1 .. b : k = 1 + a + i
  <2>1. CASE k <= 1
    BY <1>2, <2>1
  <2>2. CASE k > 1 /\ k <= 1 + a
    <3>1. k - 1 \in 1 .. a /\ k = 1 + (k - 1)
      BY <1>1, <1>2, <2>2
    <3> QED BY <3>1
  <2>3. CASE k > 1 + a
    <3>1. k - 1 - a \in 1 .. b /\ k = 1 + a + (k - 1 - a)
      BY <1>1, <1>2, <2>3
    <3> QED BY <3>1
  <2> QED BY <1>1, <1>2, <2>1, <2>2, <2>3
<1> HIDE DEF P, T
<1>7. SumOf(Legs(E, "utxo_output")) = Worth(OwnOutputs(n))
  <2> DEFINE O == Own(E, "utxo_output")
             f == [i \in P |-> 1 + a + i]
             g == [i \in P |-> <<n, i>>]
  <2>1. \A i \in P : i \in 1 .. b /\ i \in Int
    BY <1>1, <1>2
  <2>2. \A i \in P : 1 + a + i \in O
    BY <1>2, <1>5 DEF Own
  <2>3. ASSUME NEW k \in O PROVE \E i \in P : 1 + a + i = k
    <3>1. k \in DOMAIN E /\ E[k].type = "utxo_output" /\ E[k].by = "own"
      BY DEF Own
    <3>2. k # 1 /\ \A i \in 1 .. a : k # 1 + i
      BY <1>1, <1>5, <3>1
    <3>3. PICK i \in 1 .. b : k = 1 + a + i
      BY <1>6, <3>1, <3>2
    <3> QED BY <1>2, <1>5, <3>1, <3>3
  <2>4. f \in [P -> O] /\ (\A k \in O : \E i \in P : f[i] = k)
    BY <2>2, <2>3
  <2>5. \A i, j \in P : f[i] = f[j] => i = j
    BY <1>1, <2>1
  <2>6. /\ g \in [P -> OwnOutputs(n)] /\ (\A i, j \in P : g[i] = g[j] => i = j)
        /\ \A o \in OwnOutputs(n) : \E i \in P : g[i] = o
    BY DEF OwnOutputs, P
  <2>7. \A i \in P : ValueOf(g[i]) = E[f[i]].amount
    <3> TAKE i \in P
    <3>1. f[i] = 1 + a + i /\ g[i] = <<n, i>> /\ i \in 1 .. b
      BY <2>1
    <3>2. E[1 + a + i].amount = pays[i].amount
      BY <1>5, <3>1
    <3>3. ValueOf(<<n, i>>) = pays[i].amount
      BY DEF ValueOf
    <3> QED BY <3>1, <3>2, <3>3
  <2>8. f \in Bijection(P, Own(E, "utxo_output"))
    BY <2>4, <2>5, IsBijection
  <2>9. g \in Bijection(P, OwnOutputs(n))
    BY <2>6, IsBijection
  <2>10. E \in Seq(EventsOfBtc)
    BY <1>1
  <2> HIDE DEF f, g
  <2> QED BY <1>3, <2>7, <2>8, <2>9, <2>10, LegsWorth
<1>8. SumOf(Legs(E, "utxo_input")) = Worth(Spends(n))
  <2> DEFINE O == Own(E, "utxo_input")
             f == [i \in T |-> 1 + i]
             g == [i \in T |-> takes[i].output]
  <2>1. \A i \in T : i \in 1 .. a /\ i \in Int
    BY <1>1, <1>2
  <2>2. \A i \in T : 1 + i \in O
    BY <1>2, <1>5 DEF Own
  <2>3. ASSUME NEW k \in O PROVE \E i \in T : 1 + i = k
    <3>1. k \in DOMAIN E /\ E[k].type = "utxo_input" /\ E[k].by = "own"
      BY DEF Own
    <3>2. k # 1 /\ \A i \in 1 .. b : k # 1 + a + i
      BY <1>1, <1>5, <3>1
    <3>3. PICK i \in 1 .. a : k = 1 + i
      BY <1>6, <3>1, <3>2
    <3> QED BY <1>2, <1>5, <3>1, <3>3
  <2>4. f \in [T -> O] /\ (\A k \in O : \E i \in T : f[i] = k)
    BY <2>2, <2>3
  <2>5. \A i, j \in T : f[i] = f[j] => i = j
    BY <2>1
  <2>6. /\ g \in [T -> Spends(n)]
        /\ \A o \in Spends(n) : \E i \in T : g[i] = o
    BY DEF Spends, T
  <2>7. ASSUME NEW i \in T
        PROVE  takes[i].amount = ValueOf(takes[i].output) /\ \A j \in T : takes[j].output = takes[i].output => j = i
    <3>1. /\ takes[i].amount = ValueOf(takes[i].output)
          /\ \A m \in DOMAIN BtcChain : \A j \in Places(BtcChain[m].takes, "own") :
               BtcChain[m].takes[j].output = takes[i].output => m = n /\ j = i
      BY <1>4, ChainAssumption DEF T
    <3> QED BY <1>4, <3>1 DEF T
  <2>8. \A i, j \in T : g[i] = g[j] => i = j
    BY <2>7
  <2>9. \A i \in T : ValueOf(g[i]) = E[f[i]].amount
    <3> TAKE i \in T
    <3>1. f[i] = 1 + i /\ g[i] = takes[i].output /\ i \in 1 .. a
      BY <2>1
    <3>2. E[1 + i].amount = takes[i].amount
      BY <1>5, <3>1
    <3> QED BY <2>7, <3>1, <3>2
  <2>10. f \in Bijection(T, Own(E, "utxo_input"))
    BY <2>4, <2>5, IsBijection
  <2>11. g \in Bijection(T, Spends(n))
    BY <2>6, <2>8, IsBijection
  <2>12. E \in Seq(EventsOfBtc)
    BY <1>1
  <2> HIDE DEF f, g
  <2> QED BY <1>3, <2>9, <2>10, <2>11, <2>12, LegsWorth
<1>9. LET t == DecorateTransaction(n)
      IN  t.id = n /\ t.inputs = Legs(E, "utxo_output") /\ t.outputs = Legs(E, "utxo_input")
  BY DEF DecorateTransaction, E
<1> QED BY <1>7, <1>8, <1>9

(* What a walk down from a transaction to the first one gains.             *)
LEMMA GainIs ==
  ASSUME NEW t \in 0 .. Len(BtcChain), NEW list, DOMAIN list = 1 .. t,
         \A k \in 1 .. t : list[k] = DecorateTransaction(t - k + 1)
  PROVE  Gain(list) = Worth(OutputsOf(t) \ SpentBy(t))
<1> DEFINE nets == [n \in Numbers |-> Net(n)]
           v == [k \in DOMAIN list |-> SumOf(list[k].inputs) - SumOf(list[k].outputs)]
           D == 1 .. t
           f == [k \in D |-> t - k + 1]
<1>1. Len(BtcChain) \in Nat /\ t \in Nat /\ t <= Len(BtcChain)
  BY ChainAssumption
<1>2. \A k \in D : t - k + 1 \in D /\ t - k + 1 \in Numbers
  BY <1>1 DEF Numbers
<1>4. \A k \in D : v[k] \in Int /\ nets[f[k]] = v[k]
  <2> TAKE k \in D
  <2> DEFINE n == t - k + 1
  <2>1. n \in Numbers /\ list[k] = DecorateTransaction(n) /\ f[k] = n
    BY <1>2
  <2>2. v[k] = SumOf(list[k].inputs) - SumOf(list[k].outputs)
    OBVIOUS
  <2> HIDE DEF n, v
  <2>3. SumOf(list[k].inputs) = Worth(OwnOutputs(n)) /\ SumOf(list[k].outputs) = Worth(Spends(n))
    BY <2>1, DecoratedWorth
  <2>4. v[k] = Net(n) /\ Net(n) \in Int /\ nets[n] = Net(n)
    BY NetIsInt, <2>1, <2>2, <2>3 DEF Net
  <2> QED BY <2>1, <2>4
<1>5. f \in [D -> D] /\ (\A x, y \in D : f[x] = f[y] => x = y)
  <2>1. f \in [D -> D]
    BY <1>2
  <2>2. ASSUME NEW x \in D, NEW y \in D, f[x] = f[y] PROVE x = y
    <3>1. t - x + 1 = t - y + 1 /\ x \in Int /\ y \in Int
      BY <2>2
    <3> QED BY <1>1, <3>1
  <2> QED BY <2>1, <2>2
<1>6. \A y \in D : \E x \in D : f[x] = y
  <2> TAKE y \in D
  <2>1. t - y + 1 \in D /\ f[t - y + 1] = t - (t - y + 1) + 1 /\ t - (t - y + 1) + 1 = y
    BY <1>1, <1>2
  <2> WITNESS t - y + 1 \in D
  <2> QED BY <2>1
<1>7. IsFiniteSet(D)
  BY <1>1, FS_Interval
<1>8. Gain(list) = SumFunctionOnSet(v, D)
  BY DEF Gain, SumFunction
<1>9. SumFunctionOnSet(nets, D) = Worth(OutputsOf(t) \ SpentBy(t))
  BY NetAddsUp
<1> HIDE DEF f, v, nets, D
<1>11. f \in Bijection(D, D)
  BY <1>5, <1>6, IsBijection
<1>10. SumFunctionOnSet(v, D) = SumFunctionOnSet(nets, D)
  <2>1. Renames(f, D, D, v, nets)
    BY <1>4, <1>11, Zenon DEF Renames
  <2> QED BY <1>7, <2>1, SumRenamed
<1> QED BY <1>8, <1>9, <1>10

-----------------------------------------------------------------------------
(* Transactions as they were shown, from one down.                         *)
Decorated == {DecorateTransaction(n) : n \in Numbers}
Told(tip, list) ==
  list \in Seq(Decorated) /\ Len(list) <= tip /\ \A k \in 1 .. Len(list) : list[k] = DecorateTransaction(tip - k + 1)

(* Where the next sheet goes on, if the list has not come to its end.       *)
GoesOn(tip, list, token) ==
  IF token = Nothing THEN Len(list) = tip ELSE Len(list) > 0 /\ token = tip - Len(list) + 1

PageTrue(sheet, last) ==
  /\ sheet.tip \in Nat /\ sheet.tip <= last
  /\ Told(sheet.tip, sheet.listed) /\ GoesOn(sheet.tip, sheet.listed, sheet.token)

BtcStates == {"idle", "history", "unspent", "script", "done", "listed", "failed"}
BtcTyped ==
  /\ mined \in Nat /\ pooled \in Nat /\ mined + pooled <= Len(BtcChain)
  /\ btc.pc \in BtcStates /\ btc.host \in DOMAIN FirstAnswer /\ btc.size \in Int /\ btc.tip \in Nat
  /\ DOMAIN btc = DOMAIN NoBtc
  /\ DOMAIN firstPages = BtcSizes

WalkTrue ==
  /\ btc.tip <= mined /\ Told(btc.tip, btc.shown)
  /\ btc.pc \in {"idle", "history"} =>
       IF btc.token = Nothing THEN btc.shown = <<>> ELSE GoesOn(btc.tip, btc.shown, btc.token)
  /\ btc.pc \in {"idle", "unspent", "script"} => btc.cursor = Nothing
  /\ btc.pc \in {"unspent", "script", "listed"} => btc.shown = <<>>
  /\ btc.pc = "done" => Len(btc.shown) = btc.tip

(* What a request has read of the history goes on from what was shown.     *)
ReadOn ==
  /\ btc.pc = "idle" => btc.confirmed = <<>>
  /\ btc.pc = "history" =>
       IF btc.cursor = Nothing THEN btc.token = Nothing /\ btc.confirmed = <<>>
       ELSE /\ btc.confirmed \in Seq(Int) /\ btc.cursor \in Nat \ {0}
            /\ btc.cursor = btc.tip - Len(btc.shown) - Len(btc.confirmed) + 1
            /\ \A k \in 1 .. Len(btc.confirmed) : btc.confirmed[k] = btc.tip - Len(btc.shown) - k + 1

CacheTrue == \A s \in BtcSizes : firstPages[s] # Nothing => PageTrue(firstPages[s], mined)

UtxosTrue ==
  /\ btc.pc \in {"script", "listed"} => \A u \in btc.utxos : u.output \in OutputsOf(btc.tip) \ SpentBy(btc.tip)
  /\ btc.pc = "script" => btc.utxos # {} /\ \A u \in btc.utxos : u = [output |-> u.output, script |-> FALSE]
  /\ btc.pc = "listed" => \A u \in btc.utxos : u.script

(* The inductive invariant of a Bitcoin address.                           *)
BtcInv == BtcTyped /\ WalkTrue /\ ReadOn /\ CacheTrue /\ UtxosTrue

LEMMA SizeOfInterval ==
  ASSUME NEW a \in Int, NEW b \in Int, a <= b + 1
  PROVE  Cardinality(a .. b) = b - a + 1
BY FS_Interval

LEMMA NthOfInterval ==
  ASSUME NEW a \in Int, NEW b \in Int, a <= b + 1, NEW k \in 1 .. (b - a + 1)
  PROVE  Cardinality(a .. b) = b - a + 1 /\ Nth(a .. b, k) = a + k - 1
<1> DEFINE S == a .. b
           i == a + k - 1
           j == Nth(S, k)
<1>1. IsFiniteSet(S) /\ Cardinality(S) = b - a + 1 /\ S \subseteq Int
  BY FS_Interval
<1>2. i \in S /\ i \in Int
  OBVIOUS
<1>3. Rank(S, i) = k - 1
  <2>1. {x \in S : x < i} = a .. (i - 1)
    OBVIOUS
  <2>2. Cardinality(a .. (i - 1)) = k - 1
    BY <1>2, FS_Interval
  <2> QED BY <2>1, <2>2 DEF Rank
<1>4. j \in S /\ Rank(S, j) = k - 1
  BY <1>1, NthOf
<1>5. (j < i => Rank(S, j) < Rank(S, i)) /\ (i < j => Rank(S, i) < Rank(S, j))
  <2> HIDE DEF S, i, j
  <2>1. i < j => Rank(S, i) < Rank(S, j)
    BY <1>1, <1>2, <1>4, RankGrows
  <2>2. j < i => Rank(S, j) < Rank(S, i)
    BY <1>1, <1>2, <1>4, RankGrows
  <2> QED BY <2>1, <2>2
<1>6. j \in Int
  BY <1>4
<1> HIDE DEF j
<1>7. j = i
  BY <1>2, <1>3, <1>4, <1>5, <1>6
<1> QED BY <1>1, <1>7 DEF j

LEMMA Countdown ==
  ASSUME NEW c \in Nat, NEW m \in Nat, NEW seq, seq = [k \in 1 .. c |-> m - k + 1]
  PROVE  seq \in Seq(Int) /\ Len(seq) = c /\ \A k \in 1 .. c : seq[k] = m - k + 1
<1>1. \A k \in 1 .. c : m - k + 1 \in Int
  OBVIOUS
<1> QED BY <1>1

(* What a host's list has of the transactions up to one.                   *)
NoLaterThan(list, m) == {k \in DOMAIN list : list[k] <= m}
CountsFrom(c, low, m) == c \in Seq(Int) /\ Len(c) = m - low + 1 /\ \A k \in 1 .. m - low + 1 : c[k] = m - k + 1

LEMMA DownFrom ==
  ASSUME NEW low \in Nat \ {0}, NEW last \in Nat, NEW m \in Nat, low <= m + 1, m <= last, NEW H,
         H = Descending(low, last)
  PROVE  CountsFrom(SelectAt(H, NoLaterThan(H, m)), low, m)
<1> DEFINE S == NoLaterThan(H, m)
           n == last - low + 1
           a == last - m + 1
<1>1. n \in Nat /\ DOMAIN H = 1 .. n /\ (\A k \in 1 .. n : H[k] = last - k + 1) /\ H \in Seq(Int)
  <2>1. n \in Nat
    OBVIOUS
  <2>2. H = [k \in 1 .. n |-> last - k + 1]
    BY DEF Descending
  <2>3. \A k \in 1 .. n : last - k + 1 \in Int
    OBVIOUS
  <2> QED BY <2>1, <2>2, <2>3
<1>2. S = a .. n
  <2>1. ASSUME NEW k \in 1 .. n PROVE H[k] <= m <=> k \in a .. n
    BY <1>1
  <2>2. a .. n \subseteq 1 .. n
    OBVIOUS
  <2> QED BY <1>1, <2>1, <2>2 DEF NoLaterThan
<1> DEFINE c == m - low + 1
<1> HIDE DEF S
<1>3. c \in Nat /\ n - a + 1 = c /\ a \in Int /\ n \in Int /\ a <= n + 1
  OBVIOUS
<1>4. Cardinality(S) = c
  <2> HIDE DEF n, a, c
  <2>1. Cardinality(a .. n) = n - a + 1
    BY <1>3, SizeOfInterval
  <2> QED BY <1>2, <1>3, <2>1
<1>5. SelectAt(H, S) = [k \in 1 .. c |-> H[Nth(S, k)]]
  BY <1>4 DEF SelectAt
<1>6. ASSUME NEW k \in 1 .. c PROVE H[Nth(S, k)] = m - k + 1
  <2>1. Nth(S, k) = a + k - 1
    BY <1>2, <1>3, <1>6, NthOfInterval
  <2>2. a + k - 1 \in 1 .. n /\ last - (a + k - 1) + 1 = m - k + 1
    BY <1>3
  <2> QED BY <1>1, <2>1, <2>2
<1> HIDE DEF c
<1>7. SelectAt(H, S) = [k \in 1 .. c |-> m - k + 1]
  BY <1>5, <1>6
<1>8. c \in Nat
  BY <1>3
<1>9. SelectAt(H, S) \in Seq(Int) /\ Len(SelectAt(H, S)) = c /\ \A k \in 1 .. c : SelectAt(H, S)[k] = m - k + 1
  BY <1>7, <1>8, Countdown
<1> QED BY <1>9 DEF S, c, CountsFrom

LEMMA FirstOf ==
  ASSUME NEW seq \in Seq(Int), NEW m \in Nat, m <= Len(seq)
  PROVE  LET first == SubSeq(seq, 1, m)
         IN  first \in Seq(Int) /\ Len(first) = m /\ \A k \in 1 .. m : k \in 1 .. Len(seq) /\ first[k] = seq[k]
<1>1. SubSeq(seq, 1, m) = [k \in 1 .. m |-> seq[k]]
  OBVIOUS
<1>2. \A k \in 1 .. m : k \in 1 .. Len(seq) /\ seq[k] \in Int
  OBVIOUS
<1> QED BY <1>1, <1>2

(* A sheet of what was read: the first of it, and whether it goes on.       *)
PageOf(sheet, read, base, more, tip) ==
  LET m == Len(sheet.listed)
  IN  /\ sheet.tip = tip /\ sheet.listed \in Seq(Decorated) /\ m \in Nat /\ m <= Len(read)
      /\ m = Len(read) \/ m = ClampPageSize(btc.size)
      /\ \A k \in 1 .. m : sheet.listed[k] = DecorateTransaction(base - k + 1)
      /\ sheet.token = IF more /\ m > 0 THEN base - m + 1 ELSE Nothing

LEMMA PageIs ==
  ASSUME NEW read \in Seq(Int), NEW base \in Nat, Len(read) <= base, base <= Len(BtcChain),
         \A k \in 1 .. Len(read) : read[k] = base - k + 1, NEW more \in BOOLEAN, NEW tip, btc.size \in Int
  PROVE  ClampPageSize(btc.size) \in Nat \ {0} /\ PageOf(Page(read, more, tip), read, base, more, tip)
<1> DEFINE c == ClampPageSize(btc.size)
           m == IF Len(read) <= c THEN Len(read) ELSE c
           p == SubSeq(read, 1, m)
<1>1. c \in Nat \ {0}
  BY BitcoinAssumption DEF ClampPageSize
<1>2. Len(read) \in Nat /\ DOMAIN read = 1 .. Len(read)
  OBVIOUS
<1> HIDE DEF c
<1>3. Min({Len(read), c}) = m
  BY <1>1, <1>2, LesserOf
<1>4. m \in Nat /\ m <= Len(read) /\ (m = Len(read) \/ m = c)
  BY <1>1, <1>2
<1> HIDE DEF m
<1>5. p \in Seq(Int) /\ Len(p) = m /\ \A k \in 1 .. m : k \in 1 .. Len(read) /\ p[k] = read[k]
  BY <1>4, FirstOf
<1> HIDE DEF p
<1>6. DOMAIN p = 1 .. m
  BY <1>4, <1>5
<1>7. Page(read, more, tip) = [listed |-> [k \in 1 .. m |-> DecorateTransaction(p[k])],
                               token |-> IF more /\ p # <<>> THEN Last(p) ELSE Nothing, tip |-> tip]
  BY <1>3, <1>6 DEF Page, c, p
<1>8. \A k \in 1 .. m : p[k] = base - k + 1 /\ base - k + 1 \in Numbers
  <2>1. Len(BtcChain) \in Nat
    BY ChainAssumption
  <2> TAKE k \in 1 .. m
  <2>2. k \in 1 .. Len(read)
    BY <1>5
  <2>3. base - k + 1 \in 1 .. Len(BtcChain)
    BY <1>2, <2>1, <2>2
  <2> QED BY <1>5, <2>2, <2>3 DEF Numbers
<1> DEFINE listed == [k \in 1 .. m |-> DecorateTransaction(p[k])]
<1>9. listed \in Seq(Decorated) /\ Len(listed) = m /\ \A k \in 1 .. m : listed[k] = DecorateTransaction(base - k + 1)
  <2>1. \A k \in 1 .. m : DecorateTransaction(p[k]) \in Decorated
    BY <1>8 DEF Decorated
  <2> QED BY <1>4, <1>8, <2>1
<1>10. p # <<>> => Last(p) = base - m + 1
  <2> SUFFICES ASSUME p # <<>> PROVE Last(p) = base - m + 1
    OBVIOUS
  <2>1. m \in 1 .. m
    BY <1>4, <1>5
  <2> QED BY <1>5, <1>8, <2>1 DEF Last
<1>11. p # <<>> <=> m > 0
  BY <1>4, <1>5
<1> HIDE DEF listed
<1>12. Page(read, more, tip) = [listed |-> listed, token |-> IF more /\ p # <<>> THEN Last(p) ELSE Nothing, tip |-> tip]
  BY <1>7 DEF listed
<1> DEFINE sheet == Page(read, more, tip)
<1>13. sheet.listed = listed /\ sheet.tip = tip /\ sheet.token = IF more /\ p # <<>> THEN Last(p) ELSE Nothing
  BY <1>12
<1> HIDE DEF sheet
<1>14. sheet.token = IF more /\ m > 0 THEN base - m + 1 ELSE Nothing
  BY <1>10, <1>11, <1>13
<1>15. Len(sheet.listed) = m /\ sheet.listed \in Seq(Decorated) /\ \A k \in 1 .. m : sheet.listed[k] = DecorateTransaction(base - k + 1)
  BY <1>9, <1>13
<1>16. PageOf(sheet, read, base, more, tip)
  BY <1>4, <1>13, <1>14, <1>15 DEF c, PageOf
<1> QED BY <1>1, <1>16 DEF c, sheet

(* The mined part of a host's answer: it goes on from where it was asked   *)
(* for, and one that is not a full sheet comes to the first transaction.    *)
Chunk == SelectAt(EsploraHistory, NoLaterThan(EsploraHistory, mined))
Start == IF btc.cursor = Nothing THEN mined ELSE btc.cursor - 1

CountsDown(c, m) ==
  /\ c \in Seq(Int) /\ Len(c) \in Nat /\ Len(c) <= m /\ \A k \in 1 .. Len(c) : c[k] = m - k + 1
  /\ Full(c) \in BOOLEAN /\ (Full(c) => Len(c) > 0) /\ (~ Full(c) => Len(c) = m)

LEMMA AnswerIs ==
  ASSUME NEW m \in Nat, NEW last \in Nat, m <= last, NEW n \in Nat \ {0}, n >= ChainPage, NEW list,
         list = Descending(Oldest(m, n), last)
  PROVE  CountsDown(SelectAt(list, NoLaterThan(list, m)), m)
<1> DEFINE low == Oldest(m, n)
           c == SelectAt(list, NoLaterThan(list, m))
<1>1. ChainPage \in Nat \ {0}
  BY BitcoinAssumption
<1>2. low \in Nat \ {0} /\ low <= m + 1 /\ (low = 1 \/ m - low + 1 = n)
  BY DEF Oldest
<1>3. list = Descending(low, last)
  OBVIOUS
<1> HIDE DEF low
<1>5. CountsFrom(c, low, m)
  BY <1>2, <1>3, DownFrom, Zenon
<1>6. c \in Seq(Int) /\ Len(c) = m - low + 1 /\ \A k \in 1 .. m - low + 1 : c[k] = m - k + 1
  BY <1>5 DEF CountsFrom
<1> HIDE DEF c
<1>7. Len(c) >= ChainPage <=> Full(c)
  BY DEF Full
<1>8. Full(c) \in BOOLEAN
  BY DEF Full
<1>9. Len(c) \in Nat /\ Len(c) <= m /\ (Len(c) >= ChainPage => Len(c) > 0) /\ (~ (Len(c) >= ChainPage) => Len(c) = m)
  BY <1>1, <1>2, <1>6
<1> QED BY <1>6, <1>7, <1>8, <1>9 DEF CountsDown, c

LEMMA ChunkIs ==
  ASSUME BtcTyped, btc.cursor = Nothing \/ (btc.cursor \in Nat \ {0} /\ btc.cursor - 1 <= mined)
  PROVE  Start \in Nat /\ CountsDown(Chunk, Start)
<1>1. /\ ChainPage \in Nat \ {0} /\ FirstAnswer[btc.host] \in Nat /\ FirstAnswer[btc.host] >= ChainPage
      /\ mined \in Nat /\ pooled \in Nat
  BY BitcoinAssumption DEF BtcTyped
<1>3. CASE btc.cursor = Nothing
  <2>1. EsploraHistory = Descending(Oldest(mined, FirstAnswer[btc.host]), mined + pooled)
    BY <1>3 DEF EsploraHistory
  <2> DEFINE n == FirstAnswer[btc.host]
             last == mined + pooled
  <2>2. last \in Nat /\ mined <= last /\ n \in Nat \ {0}
    BY <1>1
  <2> HIDE DEF n, last
  <2>3. EsploraHistory = Descending(Oldest(mined, n), last) /\ n >= ChainPage
    BY <1>1, <2>1 DEF n, last
  <2>4. CountsDown(Chunk, mined)
    BY <1>1, <2>2, <2>3, AnswerIs, Zenon DEF Chunk
  <2> QED BY <1>1, <1>3, <2>4 DEF Start
<1>4. CASE btc.cursor # Nothing
  <2> DEFINE m == btc.cursor - 1
             H == Descending(Oldest(m, ChainPage), m)
  <2>1. m \in Nat /\ m <= mined /\ Start = m
    BY <1>4 DEF Start
  <2>2. EsploraHistory = H
    BY <1>4 DEF EsploraHistory
  <2>3. ASSUME NEW k \in DOMAIN H PROVE H[k] <= m /\ H[k] <= mined
    <3> HIDE DEF m
    <3>1. Oldest(m, ChainPage) \in Int
      BY <1>1, <2>1 DEF Oldest
    <3>2. k \in Int /\ k >= 1 /\ H[k] = m - k + 1
      BY <2>1, <3>1 DEF Descending
    <3> QED BY <1>1, <2>1, <3>2
  <2>4. NoLaterThan(H, m) = NoLaterThan(H, mined)
    BY <2>3 DEF NoLaterThan
  <2>5. ChainPage >= ChainPage /\ m <= m /\ ChainPage \in Nat \ {0}
    BY <1>1, <2>1
  <2> HIDE DEF m
  <2>6. CountsDown(SelectAt(H, NoLaterThan(H, m)), m)
    BY <2>1, <2>5, AnswerIs, Zenon
  <2> QED BY <2>1, <2>2, <2>4, <2>6, Zenon DEF Chunk
<1> QED BY <1>3, <1>4

(* A sheet is shown behind what was: it goes on from there, and ends only   *)
(* where the history does.                                                 *)
MoreIsRight(more, read, base) ==
  IF more THEN Len(read) > 0 ELSE Len(read) = base /\ Len(read) <= ClampPageSize(btc.size)
ShownOn(sheet, tip, shown) ==
  sheet.tip = tip /\ Told(tip, shown \o sheet.listed) /\ GoesOn(tip, shown \o sheet.listed, sheet.token)

LEMMA PageGoesOn ==
  ASSUME NEW tip \in Nat, tip <= Len(BtcChain), NEW shown, Told(tip, shown), NEW read \in Seq(Int),
         NEW base, base = tip - Len(shown), Len(read) <= base, \A k \in 1 .. Len(read) : read[k] = base - k + 1,
         NEW more \in BOOLEAN, MoreIsRight(more, read, base), btc.size \in Int
  PROVE  ShownOn(Page(read, more, tip), tip, shown)
<1> DEFINE sheet == Page(read, more, tip)
           m == Len(sheet.listed)
           c == ClampPageSize(btc.size)
           all == shown \o sheet.listed
<1>1. shown \in Seq(Decorated) /\ Len(shown) \in Nat /\ Len(shown) <= tip
      /\ \A k \in 1 .. Len(shown) : shown[k] = DecorateTransaction(tip - k + 1)
  BY DEF Told
<1>2. base \in Nat /\ base <= Len(BtcChain) /\ Len(read) <= base /\ Len(read) \in Nat
      /\ \A k \in 1 .. Len(read) : read[k] = base - k + 1
  BY <1>1, ChainAssumption
<1>3. /\ sheet.tip = tip /\ sheet.listed \in Seq(Decorated) /\ m \in Nat /\ m <= Len(read)
      /\ m = Len(read) \/ m = c
      /\ c \in Nat \ {0}
      /\ \A k \in 1 .. m : sheet.listed[k] = DecorateTransaction(base - k + 1)
      /\ sheet.token = IF more /\ m > 0 THEN base - m + 1 ELSE Nothing
  <2>1. c \in Nat \ {0} /\ PageOf(sheet, read, base, more, tip)
    BY <1>2, PageIs, Zenon
  <2> HIDE DEF sheet
  <2> QED BY <2>1 DEF PageOf
<1> DEFINE listed == sheet.listed
<1>4. listed \in Seq(Decorated) /\ Len(listed) = m
  BY <1>3
<1> HIDE DEF sheet, listed
<1>5. all = shown \o listed /\ all \in Seq(Decorated) /\ Len(all) = Len(shown) + m
      /\ \A k \in 1 .. Len(all) : all[k] = IF k <= Len(shown) THEN shown[k] ELSE listed[k - Len(shown)]
  BY <1>1, <1>4, <1>3 DEF listed
<1> HIDE DEF all, m, c
<1>6. ASSUME NEW k \in 1 .. Len(all) PROVE all[k] = DecorateTransaction(tip - k + 1)
  <2>1. CASE k <= Len(shown)
    <3>1. k \in 1 .. Len(shown)
      BY <1>1, <2>1
    <3> QED BY <1>1, <1>5, <2>1, <3>1
  <2>2. CASE ~ (k <= Len(shown))
    <3> DEFINE j == k - Len(shown)
    <3>1. j \in 1 .. m /\ base - j + 1 = tip - k + 1
      BY <1>1, <1>3, <1>5, <2>2
    <3> HIDE DEF j
    <3>2. all[k] = listed[j]
      BY <1>5, <2>2 DEF j
    <3> QED BY <1>3, <3>1, <3>2 DEF listed
  <2> QED BY <2>1, <2>2
<1>7. Len(all) <= tip
  BY <1>1, <1>2, <1>3, <1>5
<1>8. GoesOn(tip, all, sheet.token)
  <2>1. CASE more /\ m > 0
    <3>1. sheet.token = base - m + 1 /\ base - m + 1 \in Int /\ base - m + 1 = tip - Len(all) + 1 /\ Len(all) > 0
      BY <1>1, <1>2, <1>3, <1>5, <2>1
    <3>2. sheet.token # Nothing
      BY <3>1, BitcoinAssumption
    <3> QED BY <3>1, <3>2 DEF GoesOn
  <2>2. CASE ~ (more /\ m > 0)
    <3>1. ~ more
      BY <1>2, <1>3, <2>2 DEF MoreIsRight
    <3>2. m = base
      <4>1. Len(read) = base /\ Len(read) <= c
        BY <3>1 DEF c, MoreIsRight
      <4>2. m \in Int /\ c \in Int /\ base \in Int
        BY <1>2, <1>3
      <4>3. m = Len(read) \/ m = c
        BY <1>3
      <4>4. m <= Len(read)
        BY <1>3
      <4> QED BY <4>1, <4>2, <4>3, <4>4
    <3>3. sheet.token = Nothing /\ Len(all) = tip
      BY <1>1, <1>3, <1>5, <2>2, <3>2
    <3> QED BY <3>3 DEF GoesOn
  <2> QED BY <2>1, <2>2
<1> QED BY <1>3, <1>5, <1>6, <1>7, <1>8 DEF Told, sheet, all, ShownOn

-----------------------------------------------------------------------------
LEMMA BtcStarts == BtcInit => BtcInv
<1> SUFFICES ASSUME BtcInit PROVE BtcInv
  OBVIOUS
<1>1. Len(BtcChain) \in Nat /\ FirstMined \in 0 .. Len(BtcChain) /\ 1 \in DOMAIN FirstAnswer
  BY BitcoinAssumption, ChainAssumption
<1>2. BtcTyped
  BY <1>1 DEF BtcTyped, BtcInit, NoBtc, BtcStates
<1>3. WalkTrue /\ ReadOn /\ UtxosTrue
  BY <1>1 DEF WalkTrue, ReadOn, UtxosTrue, BtcInit, NoBtc, Told
<1>4. CacheTrue
  BY DEF CacheTrue, BtcInit
<1> QED BY <1>2, <1>3, <1>4 DEF BtcInv

LEMMA BtcStutters == BtcInv /\ UNCHANGED btcVars => BtcInv'
BY DEF BtcInv, BtcTyped, WalkTrue, ReadOn, CacheTrue, UtxosTrue, PageTrue, Told, GoesOn, OutputsOf, SpentBy,
       btcVars

(* A host fails, a request begins to read the unspent set, or the wallet   *)
(* opens the address again.                                                *)
LEMMA BtcMovesOn ==
  ASSUME BtcInv, HostFails \/ CallerError \/ GetUtxo \/ Reopen
  PROVE  BtcInv'
<1>1. UNCHANGED <<mined, pooled, firstPages>>
  BY DEF HostFails, CallerError, GetUtxo, Reopen, Elsewhere
<1>2. CacheTrue'
  BY <1>1 DEF BtcInv, CacheTrue, PageTrue, Told, GoesOn
<1>3. DOMAIN btc = DOMAIN NoBtc /\ DOMAIN NoBtc = {"pc", "host", "size", "token", "cursor", "confirmed", "tip", "shown", "utxos"}
  BY DEF BtcInv, BtcTyped, NoBtc
<1> DEFINE Kept ==
             /\ btc'.token = btc.token /\ btc'.cursor = btc.cursor /\ btc'.confirmed = btc.confirmed
             /\ btc'.tip = btc.tip /\ btc'.shown = btc.shown /\ btc'.utxos = btc.utxos /\ btc'.size = btc.size
           MovesOn ==
             btc'.pc = btc.pc \/ btc'.pc = "failed" \/ (btc.pc = "idle" /\ btc.token = Nothing /\ btc'.pc = "unspent")
<1>4. /\ btc'.pc \in BtcStates /\ btc'.host \in DOMAIN FirstAnswer /\ DOMAIN btc' = DOMAIN NoBtc
      /\ btc' = NoBtc \/ (Kept /\ MovesOn)
  <2>0. btc.pc \in BtcStates /\ btc.host \in DOMAIN FirstAnswer
    BY DEF BtcInv, BtcTyped
  <2>1. CASE HostFails
    <3>1. btc.host < Len(FirstAnswer) => btc.host + 1 \in DOMAIN FirstAnswer
      BY <2>0, BitcoinAssumption
    <3> QED BY <1>3, <2>0, <2>1, <3>1 DEF HostFails, BtcStates
  <2>2. CASE CallerError
    BY <1>3, <2>0, <2>2 DEF CallerError, BtcStates
  <2>3. CASE GetUtxo
    BY <1>3, <2>0, <2>3 DEF GetUtxo, BtcStates
  <2>4. CASE Reopen
    <3>1. 1 \in DOMAIN FirstAnswer
      BY BitcoinAssumption
    <3> QED BY <2>4, <3>1 DEF Reopen, NoBtc, BtcStates
  <2> QED BY <2>1, <2>2, <2>3, <2>4
<1>5. CASE btc' = NoBtc
  <2>1. BtcTyped'
    BY <1>1, <1>4, <1>5 DEF BtcInv, BtcTyped, NoBtc
  <2>2. WalkTrue' /\ ReadOn' /\ UtxosTrue'
    BY <1>1, <1>5 DEF BtcInv, BtcTyped, WalkTrue, ReadOn, UtxosTrue, NoBtc, Told
  <2> QED BY <1>2, <2>1, <2>2 DEF BtcInv
<1>6. CASE btc' # NoBtc
  <2>0. Kept /\ MovesOn
    BY <1>4, <1>6
  <2>1. BtcTyped'
    <3>1. btc'.size \in Int /\ btc'.tip \in Nat
      BY <2>0 DEF BtcInv, BtcTyped
    <3> QED BY <1>1, <1>4, <3>1 DEF BtcInv, BtcTyped
  <2>2. WalkTrue'
    <3>1. btc'.tip <= mined' /\ Told(btc'.tip, btc'.shown)
      BY <1>1, <2>0 DEF BtcInv, WalkTrue
    <3> QED BY <2>0, <3>1 DEF BtcInv, WalkTrue
  <2>3. ReadOn'
    BY <1>1, <1>4, <1>6 DEF BtcInv, ReadOn
  <2>4. UtxosTrue'
    BY <1>1, <1>4, <1>6 DEF BtcInv, UtxosTrue, OutputsOf, SpentBy
  <2> QED BY <1>2, <2>1, <2>2, <2>3, <2>4 DEF BtcInv
<1> QED BY <1>5, <1>6

(* A cached sheet expires, and the chain grows.                             *)
LEMMA BtcElsewhere ==
  ASSUME BtcInv, FirstPageExpires \/ Broadcast \/ Mine
  PROVE  BtcInv'
<1>0. Len(BtcChain) \in Nat /\ BtcTyped
  BY ChainAssumption DEF BtcInv
<1>1. btc' = btc /\ mined' \in Nat /\ pooled' \in Nat /\ mined' + pooled' <= Len(BtcChain) /\ mined <= mined'
  BY <1>0 DEF FirstPageExpires, Broadcast, Mine, BtcTyped
<1>2. DOMAIN firstPages' = BtcSizes /\ \A s \in BtcSizes : firstPages'[s] # Nothing => firstPages'[s] = firstPages[s]
  BY <1>0 DEF FirstPageExpires, Broadcast, Mine, BtcTyped
<1>3. BtcTyped'
  BY <1>0, <1>1, <1>2 DEF BtcTyped
<1>4. WalkTrue'
  BY <1>0, <1>1 DEF BtcInv, BtcTyped, WalkTrue, Told, GoesOn
<1>5. ReadOn'
  BY <1>1 DEF BtcInv, ReadOn
<1>6. UtxosTrue'
  BY <1>1 DEF BtcInv, UtxosTrue, OutputsOf, SpentBy
<1>7. CacheTrue'
  <2> SUFFICES ASSUME NEW s \in BtcSizes, firstPages'[s] # Nothing PROVE PageTrue(firstPages'[s], mined')
    BY DEF CacheTrue
  <2>1. firstPages'[s] = firstPages[s] /\ PageTrue(firstPages[s], mined)
    BY <1>2 DEF BtcInv, CacheTrue
  <2>2. firstPages[s].tip <= mined'
    BY <1>0, <1>1, <2>1 DEF PageTrue, BtcTyped
  <2> QED BY <2>1, <2>2 DEF PageTrue
<1> QED BY <1>3, <1>4, <1>5, <1>6, <1>7 DEF BtcInv

LEMMA BtcReadsUnspent ==
  ASSUME BtcInv, ReadUnspent
  PROVE  BtcInv'
<1>0. BtcTyped /\ DOMAIN NoBtc = {"pc", "host", "size", "token", "cursor", "confirmed", "tip", "shown", "utxos"}
  BY DEF BtcInv, NoBtc
<1>1. btc.pc = "unspent" /\ UNCHANGED <<mined, pooled, firstPages>> /\ btc.shown = <<>> /\ btc.cursor = Nothing
  BY DEF ReadUnspent, Elsewhere, BtcInv, WalkTrue
<1>2. /\ btc'.pc = IF Unspent = {} THEN "listed" ELSE "script"
      /\ btc'.host = 1 /\ btc'.tip = mined /\ btc'.utxos = {[output |-> o, script |-> FALSE] : o \in Unspent}
      /\ DOMAIN btc' = DOMAIN NoBtc /\ btc'.shown = <<>> /\ btc'.cursor = Nothing /\ btc'.size = btc.size
  BY <1>0, <1>1 DEF ReadUnspent, BtcTyped
<1>3. Unspent \subseteq OutputsOf(mined) \ SpentBy(mined)
  <2> SUFFICES ASSUME NEW o \in Unspent PROVE o \in OutputsOf(mined) /\ o \notin SpentBy(mined)
    OBVIOUS
  <2>1. mined \in Nat /\ pooled \in Nat
    BY <1>0 DEF BtcTyped
  <2>2. o \in OutputsOf(mined + pooled) /\ o \notin SpentBy(mined + pooled) /\ o[1] <= mined
    BY DEF Unspent
  <2>3. PICK n \in 1 .. mined + pooled : o \in OwnOutputs(n)
    BY <2>2 DEF OutputsOf
  <2>4. o[1] = n
    BY <2>3 DEF OwnOutputs
  <2>5. n \in 1 .. mined
    BY <2>1, <2>2, <2>4
  <2>6. 1 .. mined \subseteq 1 .. mined + pooled
    BY <2>1
  <2> QED BY <2>2, <2>3, <2>5, <2>6 DEF OutputsOf, SpentBy
<1>4. BtcTyped'
  <2>1. 1 \in DOMAIN FirstAnswer
    BY BitcoinAssumption
  <2> QED BY <1>0, <1>1, <1>2, <2>1 DEF BtcTyped, BtcStates
<1>5. WalkTrue' /\ ReadOn'
  <2>1. Told(mined, <<>>)
    BY <1>0 DEF Told, BtcTyped
  <2>2. mined <= mined
    BY <1>0 DEF BtcTyped
  <2> QED BY <1>1, <1>2, <2>1, <2>2 DEF WalkTrue, ReadOn
<1>6. UtxosTrue'
  <2>1. ASSUME NEW u \in btc'.utxos
        PROVE  u = [output |-> u.output, script |-> FALSE] /\ u.output \in OutputsOf(mined) \ SpentBy(mined)
    <3>1. PICK o \in Unspent : u = [output |-> o, script |-> FALSE]
      BY <1>2
    <3> QED BY <1>3, <3>1
  <2>2. \A u \in btc'.utxos : u.output \in (OutputsOf(btc.tip) \ SpentBy(btc.tip))'
    BY <1>2, <2>1 DEF OutputsOf, SpentBy
  <2>3. btc'.pc = "listed" => btc'.utxos = {}
    BY <1>2
  <2>4. btc'.pc = "script" => btc'.utxos # {}
    BY <1>2
  <2> QED BY <2>1, <2>2, <2>3, <2>4 DEF UtxosTrue
<1>7. CacheTrue'
  BY <1>1 DEF BtcInv, CacheTrue, PageTrue, Told, GoesOn
<1> QED BY <1>4, <1>5, <1>6, <1>7 DEF BtcInv

(* An address with an unspent output has a transaction, and a history.     *)
LEMMA BtcFindsScript ==
  ASSUME BtcInv, FindAddressScript
  PROVE  BtcInv'
<1>0. BtcTyped /\ DOMAIN NoBtc = {"pc", "host", "size", "token", "cursor", "confirmed", "tip", "shown", "utxos"}
  BY DEF BtcInv, NoBtc
<1>1. /\ btc.pc = "script" /\ UNCHANGED <<mined, pooled, firstPages>> /\ btc.cursor = Nothing /\ btc.utxos # {}
      /\ \A u \in btc.utxos : u = [output |-> u.output, script |-> FALSE] /\ u.output \in OutputsOf(btc.tip) \ SpentBy(btc.tip)
      /\ btc.tip <= mined /\ btc.shown = <<>>
  BY DEF FindAddressScript, Elsewhere, BtcInv, WalkTrue, UtxosTrue
<1>2. EsploraHistory # <<>>
  <2> DEFINE n == FirstAnswer[btc.host]
             low == Oldest(mined, n)
  <2>1. mined \in Nat /\ pooled \in Nat /\ btc.tip \in Nat /\ n \in Nat /\ n >= ChainPage /\ ChainPage \in Nat \ {0}
    BY <1>0, BitcoinAssumption DEF BtcTyped
  <2>2. PICK m \in 1 .. btc.tip : TRUE
    BY <1>1 DEF OutputsOf
  <2>3. mined >= 1
    BY <1>1, <2>1, <2>2
  <2> HIDE DEF n
  <2>4. low \in Nat /\ low <= mined + pooled
    BY <2>1, <2>3 DEF Oldest
  <2>5. EsploraHistory = Descending(low, mined + pooled)
    BY <1>1 DEF EsploraHistory, n
  <2> HIDE DEF low
  <2>6. 1 \in 1 .. (mined + pooled - low + 1)
    BY <2>1, <2>4
  <2>7. 1 \in DOMAIN EsploraHistory
    <3>1. PICK first, last : first = low /\ last = mined + pooled
      OBVIOUS
    <3>2. 1 \in 1 .. (last - first + 1)
      BY <2>1, <2>4, <3>1
    <3>3. 1 \in DOMAIN Descending(first, last)
      BY <3>2 DEF Descending
    <3> QED BY <2>5, <3>1, <3>3
  <2> QED BY <2>7
<1>3. /\ btc'.pc = "listed" /\ btc'.utxos = {[u EXCEPT !.script = TRUE] : u \in btc.utxos}
      /\ btc'.tip = btc.tip /\ btc'.shown = <<>> /\ btc'.host = btc.host /\ btc'.size = btc.size
      /\ DOMAIN btc' = DOMAIN NoBtc
  <2>1. (EsploraHistory # <<>>) = TRUE
    BY <1>2
  <2> QED BY <1>0, <1>1, <2>1 DEF FindAddressScript, BtcTyped
<1>4. BtcTyped'
  BY <1>0, <1>1, <1>3 DEF BtcTyped, BtcStates
<1>5. WalkTrue' /\ ReadOn'
  <2>1. Told(btc.tip, <<>>)
    BY <1>0 DEF Told, BtcTyped
  <2> QED BY <1>1, <1>3, <2>1 DEF WalkTrue, ReadOn
<1>6. UtxosTrue'
  <2>1. ASSUME NEW v \in btc'.utxos PROVE v.script /\ v.output \in OutputsOf(btc.tip) \ SpentBy(btc.tip)
    <3>1. PICK u \in btc.utxos : v = [u EXCEPT !.script = TRUE]
      BY <1>3
    <3>2. u = [output |-> u.output, script |-> FALSE] /\ u.output \in OutputsOf(btc.tip) \ SpentBy(btc.tip)
      BY <1>1
    <3>3. v.script = TRUE /\ v.output = u.output
      BY <3>1, <3>2
    <3> QED BY <3>2, <3>3
  <2>2. \A u \in btc'.utxos : u.output \in (OutputsOf(btc.tip) \ SpentBy(btc.tip))'
    BY <1>3, <2>1 DEF OutputsOf, SpentBy
  <2> QED BY <1>3, <2>1, <2>2 DEF UtxosTrue
<1>7. CacheTrue'
  BY <1>1 DEF BtcInv, CacheTrue, PageTrue, Told, GoesOn
<1> QED BY <1>4, <1>5, <1>6, <1>7 DEF BtcInv

(* A request takes its first sheet from the cache, or begins to read.       *)
LEMMA BtcAsks ==
  ASSUME BtcInv, GetTransactions
  PROVE  BtcInv'
<1>0. BtcTyped /\ DOMAIN NoBtc = {"pc", "host", "size", "token", "cursor", "confirmed", "tip", "shown", "utxos"}
  BY DEF BtcInv, NoBtc
<1>1. /\ btc.pc = "idle" /\ UNCHANGED <<mined, pooled, firstPages>> /\ btc.cursor = Nothing /\ btc.confirmed = <<>>
      /\ btc.tip <= mined /\ Told(btc.tip, btc.shown)
      /\ IF btc.token = Nothing THEN btc.shown = <<>> ELSE GoesOn(btc.tip, btc.shown, btc.token)
  BY DEF GetTransactions, Elsewhere, BtcInv, WalkTrue, ReadOn
<1>2. PICK size \in IF btc.token = Nothing THEN BtcSizes ELSE {btc.size} :
        IF btc.token = Nothing /\ firstPages[size] # Nothing
        THEN btc' = [btc EXCEPT !.pc = IF firstPages[size].token = Nothing THEN "done" ELSE "idle", !.size = size,
                                !.token = firstPages[size].token, !.tip = firstPages[size].tip,
                                !.shown = firstPages[size].listed]
        ELSE btc' = [btc EXCEPT !.pc = "history", !.size = size, !.cursor = btc.token]
  BY DEF GetTransactions
<1>3. size \in Int
  BY <1>0, BitcoinAssumption DEF BtcTyped
<1>4. CacheTrue'
  BY <1>1 DEF BtcInv, CacheTrue, PageTrue, Told, GoesOn
<1>5. CASE btc.token = Nothing /\ firstPages[size] # Nothing
  <2>1. PICK sheet : sheet = firstPages[size]
    OBVIOUS
  <2>2. PageTrue(sheet, mined)
    BY <1>2, <1>5, <2>1 DEF BtcInv, CacheTrue
  <2>3. /\ btc'.pc = (IF sheet.token = Nothing THEN "done" ELSE "idle") /\ btc'.size = size /\ btc'.token = sheet.token
        /\ btc'.tip = sheet.tip /\ btc'.shown = sheet.listed /\ DOMAIN btc' = DOMAIN NoBtc
        /\ btc'.cursor = Nothing /\ btc'.confirmed = <<>> /\ btc'.host = btc.host
    <3>1. btc' = [btc EXCEPT !.pc = IF sheet.token = Nothing THEN "done" ELSE "idle", !.size = size, !.token = sheet.token,
                             !.tip = sheet.tip, !.shown = sheet.listed]
      BY <1>2, <1>5, <2>1
    <3>2. DOMAIN btc = {"pc", "host", "size", "token", "cursor", "confirmed", "tip", "shown", "utxos"}
      BY <1>0 DEF BtcTyped
    <3>3. DOMAIN btc' = DOMAIN NoBtc
      BY <1>0, <3>1, <3>2
    <3> QED BY <1>1, <3>1, <3>2, <3>3
  <2>4. BtcTyped'
    BY <1>0, <1>1, <1>3, <2>2, <2>3 DEF BtcTyped, BtcStates, PageTrue
  <2>5. WalkTrue'
    <3>1. btc'.tip <= mined' /\ Told(btc'.tip, btc'.shown) /\ GoesOn(btc'.tip, btc'.shown, btc'.token)
      BY <1>1, <2>2, <2>3 DEF PageTrue
    <3>2. btc'.token = Nothing => Len(btc'.shown) = btc'.tip
      BY <3>1 DEF GoesOn
    <3> QED BY <2>3, <3>1, <3>2 DEF WalkTrue
  <2>6. ReadOn' /\ UtxosTrue'
    BY <2>3 DEF ReadOn, UtxosTrue
  <2> QED BY <1>4, <2>4, <2>5, <2>6 DEF BtcInv
<1>6. CASE ~ (btc.token = Nothing /\ firstPages[size] # Nothing)
  <2>1. /\ btc'.pc = "history" /\ btc'.size = size /\ btc'.cursor = btc.token /\ btc'.token = btc.token /\ btc'.tip = btc.tip
        /\ btc'.shown = btc.shown /\ btc'.confirmed = <<>> /\ DOMAIN btc' = DOMAIN NoBtc /\ btc'.host = btc.host
    BY <1>0, <1>1, <1>2, <1>6 DEF BtcTyped
  <2>2. BtcTyped'
    BY <1>0, <1>1, <1>3, <2>1 DEF BtcTyped, BtcStates
  <2>3. WalkTrue'
    BY <1>1, <2>1 DEF WalkTrue, Told, GoesOn
  <2>4. btc.token # Nothing =>
          btc.token \in Nat \ {0} /\ btc.token = btc.tip - Len(btc.shown) - Len(<<>>) + 1
    <3>1. btc.tip \in Nat /\ Len(btc.shown) <= btc.tip /\ Len(btc.shown) \in Nat
      BY <1>0, <1>1 DEF BtcTyped, Told
    <3> QED BY <1>1, <3>1 DEF GoesOn
  <2>5. ReadOn'
    BY <2>1, <2>4 DEF ReadOn
  <2>6. UtxosTrue'
    BY <2>1 DEF UtxosTrue
  <2> QED BY <1>4, <2>2, <2>3, <2>5, <2>6 DEF BtcInv
<1> QED BY <1>5, <1>6

(* What is read behind what was read goes on from it.                      *)
ReadTo(all, base, c) ==
  /\ all \in Seq(Int) /\ Len(all) \in Nat /\ Len(all) <= base /\ \A k \in 1 .. Len(all) : all[k] = base - k + 1
  /\ Full(c) => Last(c) = base - Len(all) + 1 /\ Last(c) \in Nat \ {0} /\ Len(all) > 0
  /\ ~ Full(c) => Len(all) = base

LEMMA ReadsOn ==
  ASSUME NEW base \in Nat, NEW read \in Seq(Int), \A k \in 1 .. Len(read) : read[k] = base - k + 1,
         NEW start \in Nat, start = base - Len(read), NEW c, CountsDown(c, start)
  PROVE  ReadTo(read \o c, base, c)
<1> DEFINE all == read \o c
<1>1. /\ c \in Seq(Int) /\ Len(c) \in Nat /\ Len(c) <= start /\ \A k \in 1 .. Len(c) : c[k] = start - k + 1
      /\ (Full(c) => Len(c) > 0) /\ (~ Full(c) => Len(c) = start)
  BY DEF CountsDown
<1>2. /\ all \in Seq(Int) /\ Len(all) = Len(read) + Len(c) /\ Len(read) \in Nat
      /\ \A k \in 1 .. Len(all) : all[k] = IF k <= Len(read) THEN read[k] ELSE c[k - Len(read)]
  BY <1>1
<1> HIDE DEF all
<1>3. ASSUME NEW k \in 1 .. Len(all) PROVE all[k] = base - k + 1
  <2>1. CASE k <= Len(read)
    <3>1. k \in 1 .. Len(read)
      BY <1>2, <2>1
    <3> QED BY <1>2, <2>1, <3>1
  <2>2. CASE ~ (k <= Len(read))
    <3> DEFINE j == k - Len(read)
    <3>1. j \in 1 .. Len(c) /\ start - j + 1 = base - k + 1
      BY <1>1, <1>2, <2>2
    <3> HIDE DEF j
    <3>2. all[k] = c[j]
      BY <1>2, <2>2 DEF j
    <3> QED BY <1>1, <3>1, <3>2
  <2> QED BY <2>1, <2>2
<1>4. Len(all) \in Nat /\ Len(all) <= base
  BY <1>1, <1>2
<1>5. ASSUME Full(c) PROVE Last(c) = base - Len(all) + 1 /\ Last(c) \in Nat \ {0} /\ Len(all) > 0
  <2>1. Len(c) \in 1 .. Len(c)
    BY <1>1, <1>5
  <2>2. Last(c) = start - Len(c) + 1
    BY <1>1, <2>1 DEF Last
  <2> QED BY <1>1, <1>2, <1>5, <2>2
<1>6. ~ Full(c) => Len(all) = base
  BY <1>1, <1>2
<1> QED BY <1>2, <1>3, <1>4, <1>5, <1>6 DEF all, ReadTo

LEMMA BtcFetches ==
  ASSUME BtcInv, FetchTransactions
  PROVE  BtcInv'
<1> DEFINE Tip  == IF btc.cursor = Nothing THEN mined ELSE btc.tip
           base == Tip - Len(btc.shown)
           all  == btc.confirmed \o Chunk
           size == ClampPageSize(btc.size)
           more == Len(all) > size \/ Full(Chunk)
           sheet == Page(all, more, Tip)
<1>0. BtcTyped /\ DOMAIN NoBtc = {"pc", "host", "size", "token", "cursor", "confirmed", "tip", "shown", "utxos"}
      /\ btc.pc = "history" /\ Len(BtcChain) \in Nat /\ mined \in Nat /\ mined <= Len(BtcChain) /\ btc.size \in Int
  BY ChainAssumption DEF BtcInv, NoBtc, FetchTransactions, BtcTyped
<1>1. /\ btc.tip \in Nat /\ btc.tip <= mined /\ Told(btc.tip, btc.shown)
      /\ IF btc.token = Nothing THEN btc.shown = <<>> ELSE GoesOn(btc.tip, btc.shown, btc.token)
      /\ IF btc.cursor = Nothing THEN btc.token = Nothing /\ btc.confirmed = <<>>
         ELSE /\ btc.confirmed \in Seq(Int) /\ btc.cursor \in Nat \ {0}
              /\ btc.cursor = btc.tip - Len(btc.shown) - Len(btc.confirmed) + 1
              /\ \A k \in 1 .. Len(btc.confirmed) : btc.confirmed[k] = btc.tip - Len(btc.shown) - k + 1
  BY <1>0 DEF BtcInv, WalkTrue, ReadOn, BtcTyped
<1>2. Len(btc.shown) \in Nat /\ Len(btc.shown) <= btc.tip
  BY <1>1 DEF Told
<1>3. /\ Tip \in Nat /\ Tip <= mined /\ Told(Tip, btc.shown) /\ base \in Nat /\ base <= Tip
      /\ btc.confirmed \in Seq(Int) /\ \A k \in 1 .. Len(btc.confirmed) : btc.confirmed[k] = base - k + 1
      /\ Start = base - Len(btc.confirmed)
      /\ btc.cursor = Nothing \/ (btc.cursor \in Nat \ {0} /\ btc.cursor - 1 <= mined)
      /\ IF btc.token = Nothing THEN btc.shown = <<>> ELSE GoesOn(Tip, btc.shown, btc.token)
  <2>1. CASE btc.cursor = Nothing
    <3>1. btc.shown = <<>> /\ btc.confirmed = <<>> /\ Tip = mined /\ Start = mined /\ btc.token = Nothing
      BY <1>1, <2>1 DEF Start
    <3>2. Told(mined, <<>>) /\ base = mined
      BY <1>0, <3>1 DEF Told
    <3> QED BY <1>0, <2>1, <3>1, <3>2
  <2>2. CASE btc.cursor # Nothing
    <3>1. Tip = btc.tip /\ Start = btc.cursor - 1 /\ Len(btc.confirmed) \in Nat
      BY <1>1, <2>2 DEF Start
    <3>2. base = btc.tip - Len(btc.shown) /\ base \in Nat /\ base <= btc.tip
      BY <1>1, <1>2, <3>1
    <3> HIDE DEF base, Tip
    <3>3. Start = base - Len(btc.confirmed) /\ btc.cursor - 1 <= mined
      BY <1>0, <1>1, <1>2, <2>2, <3>1, <3>2
    <3> QED BY <1>1, <2>2, <3>1, <3>2, <3>3
  <2> QED BY <2>1, <2>2
<1>4. Start \in Nat /\ CountsDown(Chunk, Start)
  BY <1>0, <1>3, ChunkIs
<1> HIDE DEF base, Tip
<1>5. /\ all \in Seq(Int) /\ Len(all) \in Nat /\ Len(all) <= base
      /\ \A k \in 1 .. Len(all) : all[k] = base - k + 1
      /\ Full(Chunk) => Last(Chunk) = base - Len(all) + 1 /\ Last(Chunk) \in Nat \ {0} /\ Len(all) > 0
      /\ ~ Full(Chunk) => Len(all) = base
  <2>1. ReadTo(all, base, Chunk)
    BY <1>3, <1>4, ReadsOn, Zenon
  <2> HIDE DEF all
  <2> QED BY <2>1 DEF ReadTo
<1>6. UNCHANGED <<mined, pooled>>
  BY DEF FetchTransactions, Elsewhere
<1>7. IF Full(Chunk) /\ ~ (Len(all) >= size)
      THEN btc' = [btc EXCEPT !.host = 1, !.confirmed = all, !.cursor = Last(Chunk), !.tip = Tip] /\ UNCHANGED firstPages
      ELSE /\ Show(sheet)
           /\ firstPages' = IF btc.token = Nothing THEN [firstPages EXCEPT ![btc.size] = sheet] ELSE firstPages
  BY Zenon DEF FetchTransactions, Chunk, NoLaterThan, Tip
<1> HIDE DEF all
<1>8. 1 \in DOMAIN FirstAnswer
  BY BitcoinAssumption
<1>9. CASE Full(Chunk) /\ ~ (Len(all) >= size)
  <2>1. /\ btc'.host = 1 /\ btc'.confirmed = all /\ btc'.cursor = Last(Chunk) /\ btc'.tip = Tip /\ btc'.pc = btc.pc
        /\ btc'.shown = btc.shown /\ btc'.token = btc.token /\ btc'.size = btc.size /\ DOMAIN btc' = DOMAIN NoBtc
        /\ UNCHANGED firstPages
    BY <1>0, <1>7, <1>9 DEF BtcTyped
  <2>2. BtcTyped'
    BY <1>0, <1>3, <1>6, <1>8, <2>1 DEF BtcTyped
  <2>3. WalkTrue'
    BY <1>0, <1>3, <1>6, <2>1 DEF WalkTrue, Told, GoesOn
  <2>4. ReadOn'
    <3>1. Last(Chunk) # Nothing /\ Last(Chunk) \in Nat \ {0} /\ Last(Chunk) = base - Len(all) + 1
      BY <1>5, <1>9, BitcoinAssumption
    <3>2. base = Tip - Len(btc.shown)
      BY DEF base
    <3> QED BY <1>0, <1>5, <2>1, <3>1, <3>2 DEF ReadOn
  <2>5. UtxosTrue'
    BY <1>0, <2>1 DEF UtxosTrue
  <2>6. CacheTrue'
    BY <1>6, <2>1 DEF BtcInv, CacheTrue, PageTrue, Told, GoesOn
  <2> QED BY <2>2, <2>3, <2>4, <2>5, <2>6 DEF BtcInv
<1>10. CASE ~ (Full(Chunk) /\ ~ (Len(all) >= size))
  <2> DEFINE shown == btc.shown \o sheet.listed
  <2>1. size \in Nat \ {0}
    BY <1>0, BitcoinAssumption DEF ClampPageSize
  <2>2. Full(Chunk) \in BOOLEAN
    BY <1>4 DEF CountsDown
  <2>3. more \in BOOLEAN
    OBVIOUS
  <2>4. MoreIsRight(more, all, base)
    <3>1. (more => Len(all) > 0) /\ (~ more => Len(all) = base /\ Len(all) <= size)
      <4> HIDE DEF size
      <4> QED BY <1>5, <2>1
    <3> HIDE DEF more
    <3> QED BY <2>3, <3>1 DEF MoreIsRight
  <2>5. base = Tip - Len(btc.shown)
    BY DEF base
  <2> HIDE DEF more
  <2>6. Tip <= Len(BtcChain)
    BY <1>0, <1>3
  <2>7. sheet.tip = Tip /\ Told(Tip, shown) /\ GoesOn(Tip, shown, sheet.token)
    <3>1. ShownOn(sheet, Tip, btc.shown)
      BY <1>0, <1>3, <1>5, <2>3, <2>4, <2>5, <2>6, PageGoesOn, Zenon
    <3> HIDE DEF sheet
    <3> QED BY <3>1 DEF ShownOn
  <2> HIDE DEF sheet
  <2>8. /\ btc'.pc = (IF sheet.token = Nothing THEN "done" ELSE "idle") /\ btc'.token = sheet.token /\ btc'.tip = Tip
        /\ btc'.shown = shown /\ btc'.confirmed = <<>> /\ btc'.cursor = Nothing /\ btc'.host = 1 /\ btc'.size = btc.size
        /\ DOMAIN btc' = DOMAIN NoBtc
        /\ firstPages' = IF btc.token = Nothing THEN [firstPages EXCEPT ![btc.size] = sheet] ELSE firstPages
    <3>1. /\ btc' = [btc EXCEPT !.pc = IF sheet.token = Nothing THEN "done" ELSE "idle", !.token = sheet.token,
                               !.tip = sheet.tip, !.shown = shown, !.confirmed = <<>>, !.cursor = Nothing, !.host = 1]
          /\ firstPages' = IF btc.token = Nothing THEN [firstPages EXCEPT ![btc.size] = sheet] ELSE firstPages
      BY <1>7, <1>10 DEF Show
    <3>2. DOMAIN btc = {"pc", "host", "size", "token", "cursor", "confirmed", "tip", "shown", "utxos"}
      BY <1>0 DEF BtcTyped
    <3>3. DOMAIN btc' = DOMAIN NoBtc
      BY <1>0, <3>1, <3>2
    <3> HIDE DEF shown
    <3> QED BY <2>7, <3>1, <3>2, <3>3
  <2>9. BtcTyped'
    <3>1. DOMAIN firstPages' = BtcSizes
      BY <1>0, <2>8 DEF BtcTyped
    <3> QED BY <1>0, <1>3, <1>6, <1>8, <2>8, <3>1 DEF BtcTyped, BtcStates
  <2>10. WalkTrue'
    <3>1. btc'.tip <= mined' /\ Told(btc'.tip, btc'.shown) /\ GoesOn(btc'.tip, btc'.shown, btc'.token)
      BY <1>3, <1>6, <2>7, <2>8
    <3>2. btc'.token = Nothing => Len(btc'.shown) = btc'.tip
      BY <3>1 DEF GoesOn
    <3> QED BY <2>8, <3>1, <3>2 DEF WalkTrue
  <2>11. ReadOn' /\ UtxosTrue'
    BY <2>8 DEF ReadOn, UtxosTrue
  <2>12. CacheTrue'
    <3> SUFFICES ASSUME NEW s \in BtcSizes, firstPages'[s] # Nothing PROVE PageTrue(firstPages'[s], mined')
      BY DEF CacheTrue
    <3>1. CASE btc.token = Nothing /\ s = btc.size
      <4>1. firstPages'[s] = sheet
        BY <1>0, <2>8, <3>1 DEF BtcTyped
      <4>2. btc.shown = <<>> /\ sheet.listed \in Seq(Decorated)
        <5>1. PageOf(sheet, all, base, more, Tip)
          <6>1. Len(all) <= base /\ base <= Len(BtcChain)
            BY <1>0, <1>3, <1>5
          <6> QED BY <1>0, <1>3, <1>5, <2>3, <6>1, PageIs, Zenon DEF sheet
        <5> QED BY <1>3, <3>1, <5>1 DEF PageOf
      <4>3. shown = sheet.listed
        BY <4>2
      <4> QED BY <1>3, <1>6, <2>7, <4>1, <4>3 DEF PageTrue
    <3>2. CASE ~ (btc.token = Nothing /\ s = btc.size)
      <4>1. firstPages'[s] = firstPages[s]
        BY <1>0, <2>8, <3>2 DEF BtcTyped
      <4> QED BY <1>6, <4>1 DEF BtcInv, CacheTrue
    <3> QED BY <3>1, <3>2
  <2> QED BY <2>9, <2>10, <2>11, <2>12 DEF BtcInv
<1> QED BY <1>9, <1>10

LEMMA BtcMoves == BtcInv /\ [BtcNext]_btcVars => BtcInv'
BY BtcStutters, BtcMovesOn, BtcElsewhere, BtcReadsUnspent, BtcFindsScript, BtcAsks, BtcFetches DEF BtcNext

LEMMA BtcInvExact == BtcInv => AddressAsOnChain
<1> SUFFICES ASSUME BtcInv PROVE AddressAsOnChain
  OBVIOUS
<1>1. /\ Len(BtcChain) \in Nat /\ btc.tip \in 0 .. Len(BtcChain) /\ Told(btc.tip, btc.shown)
      /\ (btc.pc = "done" => Len(btc.shown) = btc.tip)
  BY ChainAssumption DEF BtcInv, BtcTyped, WalkTrue
<1>2. PICK tip, list : tip = btc.tip /\ list = btc.shown
  OBVIOUS
<1>3. tip \in 0 .. Len(BtcChain) /\ tip \in Nat /\ DOMAIN list = 1 .. Len(list) /\ Len(list) \in Nat /\ Len(list) <= tip
      /\ \A k \in 1 .. Len(list) : list[k] = DecorateTransaction(tip - k + 1)
  BY <1>1, <1>2 DEF Told
<1>4. \A k \in DOMAIN list : list[k].id = tip - k + 1
  <2> SUFFICES ASSUME NEW k \in 1 .. Len(list) PROVE list[k].id = tip - k + 1
    BY <1>3
  <2>1. tip - k + 1 \in Numbers
    BY <1>1, <1>3 DEF Numbers
  <2> QED BY <1>3, <2>1, DecoratedWorth
<1>5. ASSUME btc.pc = "done" PROVE Gain(list) = Worth(OutputsOf(tip) \ SpentBy(tip))
  <2>1. DOMAIN list = 1 .. tip /\ \A k \in 1 .. tip : list[k] = DecorateTransaction(tip - k + 1)
    BY <1>1, <1>2, <1>3, <1>5
  <2> QED BY <1>3, <2>1, GainIs
<1>6. BtcWalkBalances
  BY <1>2, <1>4, <1>5 DEF BtcWalkBalances
<1>7. UtxosSpendable
  BY DEF BtcInv, UtxosTrue, UtxosSpendable
<1> QED BY <1>6, <1>7 DEF AddressAsOnChain

LEMMA BtcInvAlways == ServicesSpec => []BtcInv
<1>1. ServicesInit => BtcInv
  BY BtcStarts DEF ServicesInit
<1>2. BtcInv /\ [ServicesNext]_serviceVars => BtcInv'
  <2>1. [ServicesNext]_serviceVars => [BtcNext]_btcVars
    BY DEF ServicesNext, serviceVars, Transactions, SkrStake, Staking, Nfts, NftAction, Events, Bitcoin, Balance
  <2> QED BY <2>1, BtcMoves
<1> QED BY <1>1, <1>2, PTL DEF ServicesSpec

(* However long the history of an address, whichever host answers each     *)
(* call and whatever is mined between two of them, a walk lists the        *)
(* transactions one by one down from the newest, what they brought less    *)
(* what they took is what is unspent at its end, and the outputs offered   *)
(* for a spend are mined, unspent and have their script                    *)
(* (fetchTransactions, getInputs, getOutputs, getUtxo).                    *)
THEOREM WalkAddsUp == ServicesSpec => []AddressAsOnChain
BY BtcInvAlways, BtcInvExact, PTL
=============================================================================
