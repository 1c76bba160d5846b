----------------------------- MODULE Rules_proofs -----------------------------
(* Laws of the pure rules for every input, where the runs enumerate a few:    *)
(* sums; claim trust, founder scores, trends, axes, confidence bands,         *)
(* verdicts, the reads of a founder and the bridge, of AssessmentCases; the   *)
(* ledger of links, the clustering of identities and the transfers of a scan, *)
(* of BoundaryCases; the executor's exclusions and ranking, of QueryCases;    *)
(* the analyses' grounded answers, of EvidenceCases; the conviction, the      *)
(* projection of a deck and the agreement of rankings on their own.           *)
EXTENDS QueryCases, AssessmentCases, EvidenceCases, BoundaryCases,
        FiniteSetTheorems, WellFoundedInduction, TLAPS

-----------------------------------------------------------------------------
(* Sums.  The library's sum of a function over a set takes its elements in *)
(* an order of its own; these laws say that the order does not matter.     *)

(* Induction, of a set of numbers: inclusion of finite sets is well        *)
(* founded, and so are the intervals from zero.                            *)
LEMMA NumberInduction ==
  ASSUME NEW T, 0 \in T, \A n \in Nat : n \in T => n + 1 \in T
  PROVE  \A n \in Nat : n \in T
<1> DEFINE Rest == Nat \ T
           Below == {0..n : n \in Rest}
<1>1. SUFFICES ASSUME Rest # {} PROVE FALSE
  OBVIOUS
<1>2. \A n \in Nat : 0..n \in FiniteSubsetsOf(Nat)
  <2>1. \A n \in Nat : IsFiniteSet(0..n) /\ 0..n \subseteq Nat
    BY FS_Interval
  <2>2. QED
    BY <2>1 DEF FiniteSubsetsOf
<1>3. \E x \in Below : \A y \in Below : ~(<<y, x>> \in StrictSubsetOrdering(Nat))
  <2>1. Below \subseteq FiniteSubsetsOf(Nat) /\ Below # {}
    BY <1>1, <1>2
  <2> HIDE DEF Below
  <2>2. QED
    BY <2>1, FS_StrictSubsetOrderingWellFounded, WFMin
<1>4. PICK m \in Rest : \A k \in Rest : <<0..k, 0..m>> \notin StrictSubsetOrdering(Nat)
  BY <1>3
<1>5. m # 0 /\ m - 1 \in Nat
  OBVIOUS
<1>6. m - 1 \in Rest
  <2>1. m - 1 \in T => (m - 1) + 1 \in T
    BY <1>5
  <2>2. (m - 1) + 1 = m
    OBVIOUS
  <2>3. QED
    BY <1>5, <2>1, <2>2
<1>7. 0..(m - 1) \subseteq 0..m /\ 0..(m - 1) # 0..m
  BY <1>5
<1>8. <<0..(m - 1), 0..m>> \in StrictSubsetOrdering(Nat)
  BY <1>2, <1>5, <1>7 DEF StrictSubsetOrdering
<1>9. QED
  BY <1>4, <1>6, <1>8

LEMMA SubsetInduction ==
  ASSUME NEW S, IsFiniteSet(S), NEW T,
         \A s \in SUBSET S : (\A x \in s : s \ {x} \in T) => s \in T
  PROVE  \A s \in SUBSET S : s \in T
<1> DEFINE Rest == {s \in SUBSET S : s \notin T}
<1>1. SUFFICES ASSUME Rest # {} PROVE FALSE
  OBVIOUS
<1>2. \A s \in SUBSET S : s \in FiniteSubsetsOf(S)
  BY FS_Subset DEF FiniteSubsetsOf
<1>3. PICK s \in Rest : \A t \in Rest : <<t, s>> \notin StrictSubsetOrdering(S)
  <2>1. Rest \subseteq FiniteSubsetsOf(S)
    BY <1>2
  <2> HIDE DEF Rest
  <2>2. QED
    BY <1>1, <2>1, FS_StrictSubsetOrderingWellFounded, WFMin
<1>4. \A x \in s : <<s \ {x}, s>> \in StrictSubsetOrdering(S)
  BY <1>2 DEF StrictSubsetOrdering
<1>5. \A x \in s : s \ {x} \in T
  BY <1>3, <1>4
<1>6. QED
  BY <1>5

Chosen(s) == CHOOSE x \in s : TRUE
SumStep(g, f, s) == IF s = {} THEN 0 ELSE f[Chosen(s)] + g[s \ {Chosen(s)}]
IsSum(g, f, S) == g = [s \in SUBSET S |-> SumStep(g, f, s)]
Sums(f, S) == CHOOSE g : IsSum(g, f, S)

LEMMA SumExists ==
  ASSUME NEW f, NEW S, IsFiniteSet(S)
  PROVE  IsSum(Sums(f, S), f, S)
<1> DEFINE Small(n) == {s \in SUBSET S : Cardinality(s) <= n}
           Good(n) == \E g : g = [s \in Small(n) |-> SumStep(g, f, s)]
           T == {n \in Nat : Good(n)}
<1>0. \A s \in SUBSET S : IsFiniteSet(s) /\ Cardinality(s) \in Nat /\ Cardinality(s) <= Cardinality(S)
  BY FS_Subset, FS_CardinalityType
<1>1. Good(0)
  <2>1. \A s \in Small(0) : s = {}
    BY <1>0, FS_EmptySet
  <2> DEFINE g0 == [s \in Small(0) |-> 0]
  <2>2. \A s \in Small(0) : SumStep(g0, f, s) = 0
    BY <2>1 DEF SumStep
  <2>3. g0 = [s \in Small(0) |-> SumStep(g0, f, s)]
    <3> HIDE DEF Small
    <3>1. QED
      BY <2>2
  <2>4. QED
    BY <2>3
<1>2. ASSUME NEW n \in Nat, Good(n)
      PROVE  Good(n + 1)
  <2>1. PICK g : g = [s \in Small(n) |-> SumStep(g, f, s)]
    BY <1>2
  <2> DEFINE h == [s \in Small(n + 1) |-> SumStep(g, f, s)]
  <2>2. \A s \in Small(n) : s \in Small(n + 1) /\ h[s] = g[s]
    <3>1. \A s \in Small(n) : s \in Small(n + 1)
      BY <1>0
    <3>2. \A s \in Small(n) : g[s] = SumStep(g, f, s)
      <4> HIDE DEF Small
      <4>1. QED
        BY <2>1
    <3> HIDE DEF Small
    <3>3. QED
      BY <3>1, <3>2
  <2>3. ASSUME NEW s \in Small(n + 1)
        PROVE  SumStep(g, f, s) = SumStep(h, f, s)
    <3>1. CASE s = {}
      BY <3>1 DEF SumStep
    <3>2. CASE s # {}
      <4>1. Chosen(s) \in s
        BY <3>2 DEF Chosen
      <4>2. s \ {Chosen(s)} \in Small(n)
        BY <1>0, <4>1, FS_RemoveElement
      <4>3. h[s \ {Chosen(s)}] = g[s \ {Chosen(s)}]
        BY <2>2, <4>2
      <4> HIDE DEF h, Small
      <4>4. QED
        BY <4>3 DEF SumStep
    <3>3. QED
      BY <3>1, <3>2
  <2>4. h = [s \in Small(n + 1) |-> SumStep(h, f, s)]
    <3> HIDE DEF Small
    <3>1. QED
      BY <2>3
  <2>5. QED
    BY <2>4
<1>3. \A n \in Nat : Good(n)
  <2> HIDE DEF Good
  <2>1. 0 \in T /\ \A n \in Nat : n \in T => n + 1 \in T
    BY <1>1, <1>2
  <2> HIDE DEF T
  <2>2. \A n \in Nat : n \in T
    BY <2>1, NumberInduction
  <2> USE DEF T
  <2>3. QED
    BY <2>2
<1>4. Cardinality(S) \in Nat /\ Small(Cardinality(S)) = SUBSET S
  BY <1>0, FS_CardinalityType
<1>5. Good(Cardinality(S))
  BY <1>3, <1>4
<1>6. \E g : IsSum(g, f, S)
  <2> HIDE DEF Small
  <2>1. QED
    BY <1>4, <1>5 DEF IsSum
<1>7. QED
  BY <1>6 DEF Sums

LEMMA SumsAt ==
  ASSUME NEW f, NEW S, IsFiniteSet(S), NEW s \in SUBSET S
  PROVE  Sums(f, S)[s] = SumStep(Sums(f, S), f, s)
<1> DEFINE g == Sums(f, S)
<1>0. IsSum(g, f, S)
  BY SumExists
<1> HIDE DEF g
<1>1. g = [t \in SUBSET S |-> SumStep(g, f, t)]
  BY <1>0 DEF IsSum
<1>2. g[s] = SumStep(g, f, s)
  BY <1>1
<1>3. QED
  BY <1>2 DEF g

LEMMA SumIs ==
  ASSUME NEW f, NEW S
  PROVE  SumFunctionOnSet(f, S) = Sums(f, S)[S]
  BY DEF SumFunctionOnSet, FoldFunctionOnSet, MapThenFoldSet, Sums, IsSum, SumStep, Chosen

LEMMA SumsAgree ==
  ASSUME NEW f, NEW S, IsFiniteSet(S), NEW R \in SUBSET S
  PROVE  Sums(f, S)[R] = Sums(f, R)[R]
<1> DEFINE T == {s \in SUBSET R : Sums(f, S)[s] = Sums(f, R)[s]}
<1>1. IsFiniteSet(R)
  BY FS_Subset
<1>2. ASSUME NEW s \in SUBSET R, \A x \in s : s \ {x} \in T
      PROVE  s \in T
  <2>1. Sums(f, S)[s] = SumStep(Sums(f, S), f, s) /\ Sums(f, R)[s] = SumStep(Sums(f, R), f, s)
    BY <1>1, SumsAt
  <2>2. s # {} => Sums(f, S)[s \ {Chosen(s)}] = Sums(f, R)[s \ {Chosen(s)}]
    BY <1>2 DEF Chosen
  <2>3. SumStep(Sums(f, S), f, s) = SumStep(Sums(f, R), f, s)
    BY <2>2 DEF SumStep
  <2>4. QED
    BY <2>1, <2>3
<1>3. R \in T
  <2> HIDE DEF T
  <2>1. QED
    BY <1>1, <1>2, SubsetInduction
<1>4. QED
  BY <1>3

(* A sum over nothing is zero, and any element may be taken out of a sum.  *)
LEMMA SumOfNone ==
  ASSUME NEW f
  PROVE  SumFunctionOnSet(f, {}) = 0
<1>1. Sums(f, {})[{}] = SumStep(Sums(f, {}), f, {})
  BY SumsAt, FS_EmptySet
<1>2. QED
  BY <1>1, SumIs DEF SumStep

LEMMA SumTakesOne ==
  ASSUME NEW f, NEW S, IsFiniteSet(S), \A x \in S : f[x] \in Int
  PROVE  /\ SumFunctionOnSet(f, S) \in Int
         /\ \A x \in S : SumFunctionOnSet(f, S) = f[x] + SumFunctionOnSet(f, S \ {x})
<1> DEFINE Law(s) == /\ SumFunctionOnSet(f, s) \in Int
                     /\ \A x \in s : /\ SumFunctionOnSet(f, s \ {x}) \in Int
                                     /\ SumFunctionOnSet(f, s) = f[x] + SumFunctionOnSet(f, s \ {x})
           T == {s \in SUBSET S : Law(s)}
<1>1. ASSUME NEW s \in SUBSET S, s # {}
      PROVE  /\ Chosen(s) \in s
             /\ SumFunctionOnSet(f, s) = f[Chosen(s)] + SumFunctionOnSet(f, s \ {Chosen(s)})
  <2>1. Chosen(s) \in s
    BY <1>1 DEF Chosen
  <2>2. IsFiniteSet(s)
    BY FS_Subset
  <2>3. Sums(f, s)[s] = f[Chosen(s)] + Sums(f, s)[s \ {Chosen(s)}]
    <3>1. Sums(f, s)[s] = SumStep(Sums(f, s), f, s)
      BY <2>2, SumsAt
    <3>2. QED
      BY <1>1, <3>1 DEF SumStep
  <2>4. Sums(f, s)[s \ {Chosen(s)}] = Sums(f, s \ {Chosen(s)})[s \ {Chosen(s)}]
    BY <2>2, SumsAgree
  <2>5. QED
    BY <2>1, <2>3, <2>4, SumIs
<1>2. ASSUME NEW s \in SUBSET S, \A x \in s : s \ {x} \in T
      PROVE  s \in T
  <2>1. CASE s = {}
    BY <2>1, SumOfNone
  <2>2. CASE s # {}
    <3> DEFINE p == Chosen(s)
               Sum(t) == SumFunctionOnSet(f, t)
    <3>1. p \in s /\ f[p] \in Int /\ Sum(s) = f[p] + Sum(s \ {p}) /\ Sum(s \ {p}) \in Int
      BY <1>1, <1>2, <2>2
    <3>2. ASSUME NEW x \in s, x # p
          PROVE  Sum(s) = f[x] + Sum(s \ {x})
      <4>1. Sum(s \ {p}) = f[x] + Sum((s \ {p}) \ {x})
        BY <1>2, <3>1, <3>2
      <4>2. Sum(s \ {x}) = f[p] + Sum((s \ {x}) \ {p})
        BY <1>2, <3>1, <3>2
      <4>3. (s \ {p}) \ {x} = (s \ {x}) \ {p}
        OBVIOUS
      <4>4. Sum((s \ {p}) \ {x}) \in Int /\ f[x] \in Int
        BY <1>2, <3>1, <3>2
      <4>5. Sum(s \ {x}) = f[p] + Sum((s \ {p}) \ {x})
        BY <4>2, <4>3
      <4>6. Sum(s) = f[p] + (f[x] + Sum((s \ {p}) \ {x}))
        BY <3>1, <4>1
      <4>7. \A a, b, c \in Int : a + (b + c) = b + (a + c)
        OBVIOUS
      <4>8. f[p] \in Int
        BY <3>1
      <4> HIDE DEF p, Sum
      <4>9. QED
        BY <4>4, <4>5, <4>6, <4>7, <4>8
    <3>3. \A x \in s : Sum(s \ {x}) \in Int
      BY <1>2
    <3>4. Sum(s) \in Int
      BY <3>1
    <3>5. QED
      BY <3>1, <3>2, <3>3, <3>4
  <2>3. QED
    BY <2>1, <2>2
<1>3. S \in T
  <2> HIDE DEF T
  <2>1. \A s \in SUBSET S : (\A x \in s : s \ {x} \in T) => s \in T
    BY <1>2
  <2>2. \A s \in SUBSET S : s \in T
    BY <2>1, SubsetInduction
  <2>3. QED
    BY <2>2
<1>4. QED
  BY <1>3

(* Sums compare as their terms do, and agree where their terms agree.      *)
LEMMA SumsCompare ==
  ASSUME NEW f, NEW g, NEW S, IsFiniteSet(S),
         \A x \in S : f[x] \in Int /\ g[x] \in Int /\ f[x] <= g[x]
  PROVE  SumFunctionOnSet(f, S) <= SumFunctionOnSet(g, S)
<1> DEFINE T == {s \in SUBSET S : SumFunctionOnSet(f, s) <= SumFunctionOnSet(g, s)}
<1>1. ASSUME NEW s \in SUBSET S, \A x \in s : s \ {x} \in T
      PROVE  s \in T
  <2>0. IsFiniteSet(s)
    BY FS_Subset
  <2>1. CASE s = {}
    BY <2>1, SumOfNone
  <2>2. CASE s # {}
    <3>1. PICK x \in s : TRUE
      BY <2>2
    <3> DEFINE F == SumFunctionOnSet(f, s \ {x})
               G == SumFunctionOnSet(g, s \ {x})
    <3>2. SumFunctionOnSet(f, s) = f[x] + F /\ SumFunctionOnSet(g, s) = g[x] + G
      BY <2>0, SumTakesOne
    <3>3. F \in Int /\ G \in Int
      <4>1. IsFiniteSet(s \ {x})
        BY <2>0, FS_RemoveElement
      <4>2. QED
        BY <4>1, SumTakesOne
    <3>4. F <= G
      BY <1>1
    <3>5. f[x] \in Int /\ g[x] \in Int /\ f[x] <= g[x]
      OBVIOUS
    <3> HIDE DEF F, G
    <3>6. QED
      BY <3>2, <3>3, <3>4, <3>5
  <2>3. QED
    BY <2>1, <2>2
<1>2. \A s \in SUBSET S : s \in T
  <2> HIDE DEF T
  <2>1. \A s \in SUBSET S : (\A x \in s : s \ {x} \in T) => s \in T
    BY <1>1
  <2>2. QED
    BY <2>1, SubsetInduction
<1>3. QED
  BY <1>2

LEMMA SumsSame ==
  ASSUME NEW f, NEW g, NEW S, IsFiniteSet(S), \A x \in S : f[x] \in Int /\ f[x] = g[x]
  PROVE  SumFunctionOnSet(f, S) = SumFunctionOnSet(g, S)
<1>1. \A x \in S : /\ f[x] \in Int /\ g[x] \in Int
                  /\ f[x] <= g[x] /\ g[x] <= f[x]
  OBVIOUS
<1>2. /\ SumFunctionOnSet(f, S) <= SumFunctionOnSet(g, S)
      /\ SumFunctionOnSet(g, S) <= SumFunctionOnSet(f, S)
  BY <1>1, SumsCompare
<1>3. SumFunctionOnSet(f, S) \in Int /\ SumFunctionOnSet(g, S) \in Int
  BY <1>1, SumTakesOne
<1>4. QED
  BY <1>2, <1>3

(* What is zero may be left out of a sum.                                  *)
LEMMA SumSkipsZero ==
  ASSUME NEW f, NEW S, IsFiniteSet(S), NEW R \in SUBSET S,
         \A x \in S : f[x] \in Int, \A x \in S \ R : f[x] = 0
  PROVE  SumFunctionOnSet(f, S) = SumFunctionOnSet(f, R)
<1> DEFINE Here(s) == SumFunctionOnSet(f, s) = SumFunctionOnSet(f, s \cap R)
           T == {s \in SUBSET S : Here(s)}
<1>1. ASSUME NEW s \in SUBSET S, \A x \in s : s \ {x} \in T
      PROVE  s \in T
  <2>0. IsFiniteSet(s) /\ IsFiniteSet(s \cap R)
    BY FS_Subset
  <2>1. CASE s \subseteq R
    <3>1. s \cap R = s
      BY <2>1
    <3>2. QED
      BY <3>1
  <2>2. CASE ~(s \subseteq R)
    <3>1. PICK x \in s : x \notin R
      BY <2>2
    <3>2. SumFunctionOnSet(f, s) = f[x] + SumFunctionOnSet(f, s \ {x})
      BY <2>0, SumTakesOne
    <3>3. SumFunctionOnSet(f, s \ {x}) \in Int
      <4>1. IsFiniteSet(s \ {x})
        BY <2>0, FS_RemoveElement
      <4>2. QED
        BY <4>1, SumTakesOne
    <3>4. f[x] = 0
      BY <3>1
    <3>5. (s \ {x}) \cap R = s \cap R
      BY <3>1
    <3>6. SumFunctionOnSet(f, s \ {x}) = SumFunctionOnSet(f, s \cap R)
      BY <1>1, <3>5
    <3>7. QED
      BY <3>2, <3>3, <3>4, <3>6
  <2>3. QED
    BY <2>1, <2>2
<1>2. \A s \in SUBSET S : s \in T
  <2> HIDE DEF T
  <2>1. \A s \in SUBSET S : (\A x \in s : s \ {x} \in T) => s \in T
    BY <1>1
  <2>2. QED
    BY <2>1, SubsetInduction
<1>3. S \cap R = R
  OBVIOUS
<1>4. QED
  BY <1>2, <1>3

LEMMA SumOfZeros ==
  ASSUME NEW f, NEW S, IsFiniteSet(S), \A x \in S : f[x] = 0
  PROVE  SumFunctionOnSet(f, S) = 0
  BY SumSkipsZero, SumOfNone

(* Two sums whose terms differ in one place differ by what it holds.       *)
LEMMA SumsDiffer ==
  ASSUME NEW f, NEW g, NEW S, IsFiniteSet(S), NEW x \in S,
         \A y \in S : f[y] \in Int /\ g[y] \in Int,
         \A y \in S \ {x} : f[y] = g[y]
  PROVE  SumFunctionOnSet(f, S) - SumFunctionOnSet(g, S) = f[x] - g[x]
<1>1. IsFiniteSet(S \ {x})
  BY FS_RemoveElement
<1>2. SumFunctionOnSet(f, S \ {x}) = SumFunctionOnSet(g, S \ {x})
  BY <1>1, SumsSame
<1>3. SumFunctionOnSet(f, S \ {x}) \in Int
  BY <1>1, SumTakesOne
<1>4. /\ SumFunctionOnSet(f, S) = f[x] + SumFunctionOnSet(f, S \ {x})
      /\ SumFunctionOnSet(g, S) = g[x] + SumFunctionOnSet(g, S \ {x})
  BY SumTakesOne
<1>5. f[x] \in Int /\ g[x] \in Int
  OBVIOUS
<1>6. QED
  BY <1>2, <1>3, <1>4, <1>5
-----------------------------------------------------------------------------
(* Claim trust.                                                            *)
LEMMA GreaterOfTwo ==
  ASSUME NEW a \in Int, NEW b \in Int
  PROVE  /\ Max({a, b}) = IF a >= b THEN a ELSE b
         /\ Min({a, b}) = IF a <= b THEN a ELSE b
  BY DEF Max, Min

LEMMA ClampedIs ==
  ASSUME NEW n \in Int
  PROVE  Clamped(n) = IF n < 0 THEN 0 ELSE IF n > 100 THEN 100 ELSE n
<1>1. Min({100, n}) = IF 100 <= n THEN 100 ELSE n
  BY GreaterOfTwo
<1>2. Max({0, Min({100, n})}) = IF 0 >= Min({100, n}) THEN 0 ELSE Min({100, n})
  BY <1>1, GreaterOfTwo
<1>3. QED
  BY <1>1, <1>2 DEF Clamped

LEMMA ClampedGrows ==
  ASSUME NEW m \in Int, NEW n \in Int, m <= n
  PROVE  /\ Clamped(m) <= Clamped(n)
         /\ Clamped(m) \in 0..100
         /\ (Clamped(m) < 50) = (m < 50)
  BY ClampedIs

LEMMA KindsOfTrust ==
  /\ TrustKinds = {"provenance", "independence", "recency", "extraction_certainty",
                   "corroboration", "contradiction"}
  /\ IsFiniteSet(TrustKinds)
<1>1. TrustKinds = {"provenance", "independence", "recency", "extraction_certainty",
                    "corroboration", "contradiction"}
  BY DEF TrustKinds, TrustRaises
<1>2. /\ IsFiniteSet({"provenance"})
      /\ IsFiniteSet({"provenance", "independence"})
  BY FS_EmptySet, FS_AddElement
<1>3. IsFiniteSet(TrustKinds)
  <2> DEFINE few == {"provenance", "independence", "recency"}
  <2>1. IsFiniteSet({"provenance", "independence"} \cup {"recency"})
    BY <1>2, FS_AddElement
  <2>2. IsFiniteSet(({"provenance", "independence"} \cup {"recency"}) \cup {"extraction_certainty"})
    BY <2>1, FS_AddElement
  <2>3. IsFiniteSet((({"provenance", "independence"} \cup {"recency"}) \cup {"extraction_certainty"})
                      \cup {"corroboration"})
    BY <2>2, FS_AddElement
  <2>4. IsFiniteSet(((({"provenance", "independence"} \cup {"recency"}) \cup {"extraction_certainty"})
                      \cup {"corroboration"}) \cup {"contradiction"})
    BY <2>3, FS_AddElement
  <2>5. ((({"provenance", "independence"} \cup {"recency"}) \cup {"extraction_certainty"})
          \cup {"corroboration"}) \cup {"contradiction"} = TrustKinds
    BY <1>1
  <2>6. QED
    BY <2>4, <2>5
<1>4. QED
  BY <1>1, <1>3

TrustTotal(signals) == SumFunction([k \in TrustKinds |-> TrustDelta(k, signals[k])])

(* What a factor says orders what it adds.                                 *)
LEMMA DeltasAreOrdered ==
  ASSUME NEW k \in TrustKinds
  PROVE  /\ \A s \in Signals : TrustDelta(k, s) \in Int
         /\ \A s \in Signals : /\ TrustDelta(k, "weakens") <= TrustDelta(k, s)
                               /\ TrustDelta(k, s) <= TrustDelta(k, "strengthens")
         /\ TrustDelta(k, "unknown") = 0 /\ TrustDelta(k, "neutral") = 0
<1>1. TrustRaises[k] \in Nat /\ TrustLowers[k] \in Nat
  BY KindsOfTrust DEF TrustRaises, TrustLowers
<1> HIDE DEF TrustRaises, TrustLowers
<1>2. /\ TrustDelta(k, "strengthens") = TrustRaises[k]
      /\ TrustDelta(k, "weakens") = -TrustLowers[k]
      /\ TrustDelta(k, "neutral") = 0 /\ TrustDelta(k, "unknown") = 0
  BY DEF TrustDelta
<1>3. QED
  BY <1>1, <1>2 DEF Signals

LEMMA TrustTotalsCompare ==
  ASSUME NEW a \in [TrustKinds -> Signals], NEW b \in [TrustKinds -> Signals],
         \A k \in TrustKinds : TrustDelta(k, a[k]) <= TrustDelta(k, b[k])
  PROVE  TrustTotal(a) \in Int /\ TrustTotal(b) \in Int /\ TrustTotal(a) <= TrustTotal(b)
<1> DEFINE f == [k \in TrustKinds |-> TrustDelta(k, a[k])]
           g == [k \in TrustKinds |-> TrustDelta(k, b[k])]
<1>1. \A k \in TrustKinds : f[k] \in Int /\ g[k] \in Int /\ f[k] <= g[k]
  BY DeltasAreOrdered
<1>2. DOMAIN f = TrustKinds /\ DOMAIN g = TrustKinds /\ IsFiniteSet(TrustKinds)
  BY KindsOfTrust
<1>3. TrustTotal(a) = SumFunctionOnSet(f, TrustKinds) /\ TrustTotal(b) = SumFunctionOnSet(g, TrustKinds)
  BY <1>2 DEF TrustTotal, SumFunction
<1> HIDE DEF f, g
<1>4. QED
  BY <1>1, <1>2, <1>3, SumsCompare, SumTakesOne

AllUnknown(signals) == \A k \in TrustKinds : signals[k] = "unknown"

LEMMA TrustScoreIs ==
  ASSUME NEW signals \in [TrustKinds -> Signals]
  PROVE  /\ ScoreClaimTrust(signals, TRUE, FALSE)
              = IF AllUnknown(signals) THEN NoScore ELSE Clamped(50 + TrustTotal(signals))
         /\ ScoreClaimTrust(signals, FALSE, FALSE) = NoScore
         /\ ScoreClaimTrust(signals, TRUE, TRUE) = NoScore
         /\ TrustTotal(signals) \in Int
         /\ Clamped(50 + TrustTotal(signals)) \in 0..100
<1>1. TrustTotal(signals) \in Int
  <2>1. \A k \in TrustKinds : TrustDelta(k, signals[k]) \in Int
    BY DeltasAreOrdered
  <2>2. \A k \in TrustKinds : TrustDelta(k, signals[k]) <= TrustDelta(k, signals[k])
    BY <2>1
  <2>3. QED
    BY <2>2, TrustTotalsCompare
<1>2. Clamped(50 + TrustTotal(signals)) \in 0..100
  BY <1>1, ClampedGrows
<1>3. QED
  BY <1>1, <1>2 DEF ScoreClaimTrust, TrustState, TrustTotal, AllUnknown

(* Trust, for every combination of factors: what is not known moves it     *)
(* nowhere, and learning of a factor moves it the way the factor points.   *)
LEMMA TrustHolds ==
  ASSUME NEW signals \in [TrustKinds -> Signals]
  PROVE  TrustIsFair(signals)
<1> DEFINE Learnt(k, s) == [signals EXCEPT ![k] = s]
           Score(x) == ScoreClaimTrust(x, TRUE, FALSE)
           score == Score(signals)
<1>1. \A k \in TrustKinds, s \in Signals :
        /\ Learnt(k, s) \in [TrustKinds -> Signals] /\ Learnt(k, s)[k] = s
        /\ \A j \in TrustKinds : j # k => Learnt(k, s)[j] = signals[j]
  OBVIOUS
<1>2. \A x \in [TrustKinds -> Signals] :
        Score(x) = IF AllUnknown(x) THEN NoScore ELSE Clamped(50 + TrustTotal(x))
  BY TrustScoreIs
<1>3. \A x \in [TrustKinds -> Signals] :
        TrustTotal(x) \in Int /\ Clamped(50 + TrustTotal(x)) \in 0..100
  BY TrustScoreIs
<1>4. ASSUME NEW k \in TrustKinds, NEW s \in Signals, NEW t \in Signals,
             TrustDelta(k, s) <= TrustDelta(k, t)
      PROVE  Clamped(50 + TrustTotal(Learnt(k, s))) <= Clamped(50 + TrustTotal(Learnt(k, t)))
  <2>1. \A j \in TrustKinds : TrustDelta(j, Learnt(k, s)[j]) <= TrustDelta(j, Learnt(k, t)[j])
    <3>1. \A j \in TrustKinds : j # k => TrustDelta(j, signals[j]) \in Int
      BY DeltasAreOrdered
    <3>2. ASSUME NEW j \in TrustKinds
          PROVE  TrustDelta(j, Learnt(k, s)[j]) <= TrustDelta(j, Learnt(k, t)[j])
      <4>1. CASE j = k
        BY <1>1, <1>4, <4>1
      <4>2. CASE j # k
        <5>1. Learnt(k, s)[j] = signals[j] /\ Learnt(k, t)[j] = signals[j]
          BY <1>1, <4>2
        <5> HIDE DEF Learnt
        <5>2. QED
          BY <3>1, <4>2, <5>1
      <4>3. QED
        BY <4>1, <4>2
    <3>3. QED
      BY <3>2
  <2> HIDE DEF Learnt
  <2>2. TrustTotal(Learnt(k, s)) <= TrustTotal(Learnt(k, t))
    BY <1>1, <2>1, TrustTotalsCompare
  <2>3. QED
    BY <1>1, <1>3, <2>2, ClampedGrows
<1>5. \A k \in TrustKinds : Learnt(k, signals[k]) = signals
  OBVIOUS
<1>6. (score = NoScore) = AllUnknown(signals)
  <2>1. score = IF AllUnknown(signals) THEN NoScore ELSE Clamped(50 + TrustTotal(signals))
    BY <1>2
  <2>2. Clamped(50 + TrustTotal(signals)) # NoScore
    BY <1>3 DEF NoScore
  <2> HIDE DEF score, Score
  <2>3. CASE AllUnknown(signals)
    BY <2>1, <2>3
  <2>4. CASE ~AllUnknown(signals)
    <3>1. score # NoScore
      BY <2>1, <2>2, <2>4
    <3>2. QED
      BY <2>4, <3>1 DEF AllUnknown
  <2>5. QED
    BY <2>3, <2>4
<1>7. NoScore \in {score} \/ score \in 0..100
  BY <1>2, <1>3
<1>8. ASSUME score # NoScore, NEW k \in TrustKinds
      PROVE  /\ signals[k] = "unknown" => /\ Score(Learnt(k, "strengthens")) >= score
                                          /\ Score(Learnt(k, "neutral")) = score
                                          /\ Score(Learnt(k, "weakens")) <= score
             /\ signals[k] # "weakens" \/ Score(Learnt(k, "unknown")) \in {NoScore} \cup score..100
  <2>0. {"strengthens", "neutral", "weakens", "unknown"} \subseteq Signals /\ signals[k] \in Signals
    BY DEF Signals
  <2>1. score = Clamped(50 + TrustTotal(signals)) /\ ~AllUnknown(signals)
    BY <1>2, <1>6, <1>8
  <2>2. ASSUME NEW s \in Signals, signals[k] = "unknown"
        PROVE  Score(Learnt(k, s)) = Clamped(50 + TrustTotal(Learnt(k, s)))
    <3>1. PICK j \in TrustKinds : signals[j] # "unknown"
      BY <2>1 DEF AllUnknown
    <3>2. ~AllUnknown(Learnt(k, s))
      BY <1>1, <2>2, <3>1 DEF AllUnknown
    <3> HIDE DEF Learnt, Score
    <3>3. QED
      BY <1>1, <1>2, <3>2
  <2>3. CASE signals[k] = "unknown"
    <3>1. Learnt(k, "unknown") = signals
      BY <2>3
    <3>2. /\ TrustDelta(k, "unknown") <= TrustDelta(k, "strengthens")
          /\ TrustDelta(k, "unknown") <= TrustDelta(k, "neutral")
          /\ TrustDelta(k, "neutral") <= TrustDelta(k, "unknown")
          /\ TrustDelta(k, "weakens") <= TrustDelta(k, "unknown")
      BY <2>0, DeltasAreOrdered
    <3> HIDE DEF Learnt, Score, score
    <3>3. /\ Clamped(50 + TrustTotal(Learnt(k, "unknown"))) <= Clamped(50 + TrustTotal(Learnt(k, "strengthens")))
          /\ Clamped(50 + TrustTotal(Learnt(k, "unknown"))) <= Clamped(50 + TrustTotal(Learnt(k, "neutral")))
          /\ Clamped(50 + TrustTotal(Learnt(k, "neutral"))) <= Clamped(50 + TrustTotal(Learnt(k, "unknown")))
          /\ Clamped(50 + TrustTotal(Learnt(k, "weakens"))) <= Clamped(50 + TrustTotal(Learnt(k, "unknown")))
      BY <1>4, <2>0, <3>2
    <3>4. \A s \in Signals : Clamped(50 + TrustTotal(Learnt(k, s))) \in Int
      BY <1>1, <1>3
    <3>5. QED
      BY <2>0, <2>1, <2>2, <2>3, <3>1, <3>3, <3>4
  <2>4. CASE signals[k] = "weakens"
    <3>1. Learnt(k, "weakens") = signals
      BY <2>4
    <3>2. TrustDelta(k, "weakens") <= TrustDelta(k, "unknown")
      BY <2>0, DeltasAreOrdered
    <3> HIDE DEF Learnt, Score, score
    <3>3. score <= Clamped(50 + TrustTotal(Learnt(k, "unknown")))
      BY <1>4, <2>0, <2>1, <3>1, <3>2
    <3>4. Score(Learnt(k, "unknown")) \in {NoScore, Clamped(50 + TrustTotal(Learnt(k, "unknown")))}
      BY <1>1, <1>2, <2>0
    <3>5. Clamped(50 + TrustTotal(Learnt(k, "unknown"))) \in 0..100 /\ score \in 0..100
      BY <1>1, <1>3, <2>0, <2>1
    <3>6. QED
      BY <2>4, <3>3, <3>4, <3>5
  <2>5. QED
    BY <2>3, <2>4
<1>9. ScoreClaimTrust(signals, FALSE, FALSE) = NoScore /\ ScoreClaimTrust(signals, TRUE, TRUE) = NoScore
  BY TrustScoreIs
<1>10. QED
  BY <1>6, <1>7, <1>8, <1>9 DEF TrustIsFair, AllUnknown
-----------------------------------------------------------------------------
(* The founder score.                                                      *)
LEMMA FactorsOfFounders ==
  /\ DOMAIN CostlyPositive = {"shipped_adopted_work", "corroborated_domain_experience",
       "sustained_follow_through", "peer_validated_recognition", "work_product_quality"}
  /\ DOMAIN Positive = DOMAIN CostlyPositive \cup {"public_writing_depth"}
  /\ DOMAIN Negative = {"verified_negative_signal"} /\ Negative["verified_negative_signal"] = 18
  /\ \A f \in DOMAIN Positive : Positive[f] \in {6, 10, 12, 18}
  /\ DOMAIN Positive \cap DOMAIN Negative = {} /\ DOMAIN Positive \cap Context = {}
  /\ DOMAIN Negative \cap Context = {}
<1>1. /\ DOMAIN CostlyPositive = {"shipped_adopted_work", "corroborated_domain_experience",
           "sustained_follow_through", "peer_validated_recognition", "work_product_quality"}
      /\ \A f \in DOMAIN CostlyPositive : CostlyPositive[f] \in {10, 12, 18}
  BY DEF CostlyPositive
<1>2. /\ DOMAIN Positive = DOMAIN CostlyPositive \cup {"public_writing_depth"}
      /\ \A f \in DOMAIN Positive : Positive[f] \in {6, 10, 12, 18}
  BY <1>1 DEF Positive
<1>3. DOMAIN Negative = {"verified_negative_signal"} /\ Negative["verified_negative_signal"] = 18
  BY DEF Negative
<1>5. QED
  BY <1>1, <1>2, <1>3 DEF Context

LEMMA FiniteFactors ==
  IsFiniteSet(FounderFactors) /\ IsFiniteSet(DOMAIN CostlyPositive)
<1> DEFINE work == {"shipped_adopted_work", "corroborated_domain_experience"}
           proof == {"sustained_follow_through", "peer_validated_recognition"}
           quality == {"work_product_quality", "public_writing_depth"}
           reach == {"follower_reach", "institutional_pedigree"}
           polish == {"presentation_polish", "team_size"}
<1>1. \A a, b : IsFiniteSet({a, b})
  <2>1. \A a : IsFiniteSet({} \cup {a})
    BY FS_EmptySet, FS_AddElement
  <2>2. \A a, b : IsFiniteSet(({} \cup {a}) \cup {b})
    BY <2>1, FS_AddElement
  <2>3. \A a, b : ({} \cup {a}) \cup {b} = {a, b}
    OBVIOUS
  <2>4. QED
    BY <2>2, <2>3
<1>2. IsFiniteSet(((work \cup proof) \cup quality) \cup ((reach \cup polish) \cup {"verified_negative_signal", "team_size"}))
  <2>1. IsFiniteSet(work) /\ IsFiniteSet(proof) /\ IsFiniteSet(quality) /\ IsFiniteSet(reach)
        /\ IsFiniteSet(polish) /\ IsFiniteSet({"verified_negative_signal", "team_size"})
    BY <1>1
  <2> HIDE DEF work, proof, quality, reach, polish
  <2>2. IsFiniteSet((work \cup proof) \cup quality)
    BY <2>1, FS_Union
  <2>3. IsFiniteSet((reach \cup polish) \cup {"verified_negative_signal", "team_size"})
    BY <2>1, FS_Union
  <2>4. QED
    BY <2>2, <2>3, FS_Union
<1>3. FounderFactors \subseteq ((work \cup proof) \cup quality) \cup ((reach \cup polish) \cup {"verified_negative_signal", "team_size"})
  BY FactorsOfFounders DEF FounderFactors, Context
<1>4. DOMAIN CostlyPositive \subseteq FounderFactors
  BY FactorsOfFounders DEF FounderFactors
<1>5. QED
  BY <1>2, <1>3, <1>4, FS_Subset

Tiers == {"full", "partial", "absent"}
FounderObservation == [tier : Tiers, known : BOOLEAN, evidenced : BOOLEAN]

(* What a factor contributes: nothing below zero but a verified negative.  *)
LEMMA ContributionIs ==
  ASSUME NEW F \in SUBSET FounderFactors, NEW observations \in [F -> FounderObservation],
         NEW f \in FounderFactors
  PROVE  /\ Contribution(f, observations) \in Int
         /\ f \notin DOMAIN Negative => Contribution(f, observations) >= 0
         /\ f \notin F => Contribution(f, observations) = 0
         /\ f \in DOMAIN Negative => Contribution(f, observations) <= 0
         /\ f \in F /\ (~observations[f].known \/ ~observations[f].evidenced) /\ f \in DOMAIN Negative
              => Contribution(f, observations) = 0
<1>1. CASE f \notin F
  BY <1>1 DEF Contribution
<1>2. CASE f \in F
  <2> DEFINE tier == EffectiveTier(f, observations[f])
  <2>1. /\ tier \in Tiers
        /\ f \in DOMAIN Negative /\ (~observations[f].known \/ ~observations[f].evidenced) => tier = "absent"
    BY <1>2 DEF EffectiveTier, FounderObservation, Tiers
  <2>2. Contribution(f, observations)
          = IF f \in Context THEN 0
            ELSE IF f \in DOMAIN Negative THEN -Share(Negative[f], tier) ELSE Share(Positive[f], tier)
    BY <1>2 DEF Contribution
  <2>3. f \in DOMAIN Positive \cup DOMAIN Negative \cup Context
    BY DEF FounderFactors
  <2>4. f \in DOMAIN Negative => Negative[f] = 18
    BY FactorsOfFounders
  <2> HIDE DEF tier
  <2>5. f \in DOMAIN Negative => Share(Negative[f], tier) \in Nat /\ (tier = "absent" => Share(Negative[f], tier) = 0)
    BY <2>1, <2>4 DEF Share, Tiers
  <2>6. f \in DOMAIN Positive => Share(Positive[f], tier) \in Nat
    BY <2>1, FactorsOfFounders DEF Share, Tiers
  <2>7. QED
    BY <1>2, <2>1, <2>2, <2>3, <2>5, <2>6, FactorsOfFounders
<1>3. QED
  BY <1>1, <1>2

Total(observations) == SumFunction([f \in FounderFactors |-> Contribution(f, observations)])

LEMMA TotalIs ==
  ASSUME NEW F \in SUBSET FounderFactors, NEW observations \in [F -> FounderObservation]
  PROVE  /\ Total(observations) \in Int
         /\ Total(observations) = SumFunctionOnSet([f \in FounderFactors |-> Contribution(f, observations)], FounderFactors)
<1> DEFINE g == [f \in FounderFactors |-> Contribution(f, observations)]
<1>1. \A f \in FounderFactors : g[f] \in Int
  BY ContributionIs
<1>2. Total(observations) = SumFunctionOnSet(g, FounderFactors)
  BY DEF Total, SumFunction
<1> HIDE DEF g
<1>3. SumFunctionOnSet(g, FounderFactors) \in Int
  BY <1>1, FiniteFactors, SumTakesOne
<1> USE DEF g
<1>4. QED
  BY <1>2, <1>3

LEMMA ScoreFounderIs ==
  ASSUME NEW F \in SUBSET FounderFactors, NEW observations \in [F -> FounderObservation],
         NEW level, NEW conflicted \in BOOLEAN
  PROVE  /\ ScoreFounder(observations, level, conflicted).score = Clamped(50 + Total(observations))
         /\ Clamped(50 + Total(observations)) \in 0..100
         /\ (Clamped(50 + Total(observations)) < 50) = (Total(observations) < 0)
<1>1. ScoreFounder(observations, level, conflicted).score = Clamped(50 + Total(observations))
  BY DEF ScoreFounder, Total
<1>2. Total(observations) \in Int
  BY TotalIs
<1>3. Clamped(50 + Total(observations)) \in 0..100
      /\ (Clamped(50 + Total(observations)) < 50) = (50 + Total(observations) < 50)
  BY <1>2, ClampedGrows
<1>4. (50 + Total(observations) < 50) = (Total(observations) < 0)
  BY <1>2
<1>5. QED
  BY <1>1, <1>3, <1>4
(* The founder score, for every set of observations: what is missing or    *)
(* unknown lowers no score and makes no snapshot surer, and only a known,  *)
(* evidenced negative brings one below the baseline.                       *)
LEMMA FounderHolds ==
  ASSUME NEW F \in SUBSET FounderFactors, DOMAIN Negative \subseteq F,
         NEW observations \in [F -> FounderObservation], NEW level \in {"low", "medium", "high"}
  PROVE  FounderIsFair(observations, level)
<1> DEFINE Here(o) == ScoreFounder(o, level, FALSE)
           Left(f) == [g \in DOMAIN observations \ {f} |-> observations[g]]
           accusation == observations["verified_negative_signal"]
<1>0. DOMAIN observations = F
  OBVIOUS
<1>1. \A f : Left(f) \in [F \ {f} -> FounderObservation] /\ F \ {f} \in SUBSET FounderFactors
  OBVIOUS
<1>2. ASSUME ~(accusation.known /\ accusation.evidenced)
      PROVE  Total(observations) >= 0
  <2> DEFINE c == [f \in FounderFactors |-> Contribution(f, observations)]
             z == [f \in FounderFactors |-> 0]
  <2>1. \A f \in FounderFactors : z[f] = 0 /\ c[f] \in Int /\ z[f] <= c[f]
    <3>1. ASSUME NEW f \in FounderFactors
          PROVE  Contribution(f, observations) \in Int /\ Contribution(f, observations) >= 0
      <4>1. CASE f \in DOMAIN Negative
        <5>1. f = "verified_negative_signal" /\ f \in F
          BY <4>1, FactorsOfFounders
        <5>2. ~observations[f].known \/ ~observations[f].evidenced
          BY <1>2, <5>1
        <5>3. QED
          BY <4>1, <5>1, <5>2, ContributionIs
      <4>2. CASE f \notin DOMAIN Negative
        BY <4>2, ContributionIs
      <4>3. QED
        BY <4>1, <4>2
    <3>2. QED
      BY <3>1
  <2>2. Total(observations) = SumFunctionOnSet(c, FounderFactors)
    BY TotalIs
  <2> HIDE DEF c, z
  <2>3. SumFunctionOnSet(z, FounderFactors) <= SumFunctionOnSet(c, FounderFactors)
    BY <2>1, FiniteFactors, SumsCompare
  <2>4. SumFunctionOnSet(z, FounderFactors) = 0
    BY <2>1, FiniteFactors, SumOfZeros
  <2>5. QED
    BY <2>2, <2>3, <2>4, TotalIs
<1>3. ASSUME NEW f \in F \ DOMAIN Negative
      PROVE  /\ Total(Left(f)) \in Int /\ Total(Left(f)) <= Total(observations)
             /\ CostlyPresent(Left(f)) \subseteq CostlyPresent(observations)
  <2> DEFINE o == Left(f)
             c == [g \in FounderFactors |-> Contribution(g, observations)]
             d == [g \in FounderFactors |-> Contribution(g, o)]
  <2>1. \A g \in FounderFactors : /\ d[g] = IF g = f THEN 0 ELSE c[g]
                                  /\ c[g] \in Int /\ d[g] \in Int /\ d[g] <= c[g]
    <3>1. ASSUME NEW g \in FounderFactors
          PROVE  /\ Contribution(g, o) = IF g = f THEN 0 ELSE Contribution(g, observations)
                 /\ Contribution(g, observations) \in Int
                 /\ g = f => Contribution(g, observations) >= 0
      <4>1. Contribution(f, o) = 0
        BY DEF Contribution
      <4>2. g # f => Contribution(g, o) = Contribution(g, observations)
        BY DEF Contribution
      <4>3. QED
        BY <4>1, <4>2, ContributionIs
    <3>2. QED
      BY <3>1
  <2>2. Total(observations) = SumFunctionOnSet(c, FounderFactors)
    BY TotalIs
  <2>3. Total(o) = SumFunctionOnSet(d, FounderFactors) /\ Total(o) \in Int
    BY <1>1, TotalIs
  <2>4. CostlyPresent(o) \subseteq CostlyPresent(observations)
    <3>1. DOMAIN CostlyPositive \subseteq FounderFactors
      BY FactorsOfFounders DEF FounderFactors
    <3>2. \A g \in DOMAIN CostlyPositive : Contribution(g, o) = d[g] /\ Contribution(g, observations) = c[g]
      BY <3>1
    <3> HIDE DEF c, d, o
    <3>3. \A g \in DOMAIN CostlyPositive : Contribution(g, o) > 0 => Contribution(g, observations) > 0
      BY <2>1, <3>1, <3>2
    <3>4. QED
      BY <3>3 DEF CostlyPresent
  <2> HIDE DEF c, d
  <2>5. SumFunctionOnSet(d, FounderFactors) <= SumFunctionOnSet(c, FounderFactors)
    BY <2>1, FiniteFactors, SumsCompare
  <2>6. QED
    BY <2>2, <2>3, <2>4, <2>5
<1>4. ASSUME NEW f \in F \ DOMAIN Negative
      PROVE  /\ Here(Left(f)).score <= Here(observations).score
             /\ Here(Left(f)).uncertainty >= Here(observations).uncertainty
             /\ ~Here(Left(f)).provisional => ~Here(observations).provisional
  <2> DEFINE o == Left(f)
  <2>0. o \in [F \ {f} -> FounderObservation] /\ F \ {f} \in SUBSET FounderFactors
    BY <1>1
  <2>1. /\ Total(o) \in Int /\ Total(observations) \in Int /\ Total(o) <= Total(observations)
        /\ CostlyPresent(o) \subseteq CostlyPresent(observations)
    BY <1>3, TotalIs
  <2> HIDE DEF o
  <2>2. Here(o).score <= Here(observations).score
    <3>1. Clamped(50 + Total(o)) <= Clamped(50 + Total(observations))
      BY <2>1, ClampedGrows
    <3>2. Here(o).score = Clamped(50 + Total(o)) /\ Here(observations).score = Clamped(50 + Total(observations))
      BY <2>0, ScoreFounderIs
    <3>3. QED
      BY <3>1, <3>2
  <2>3. Uncertainty(o, level, FALSE) >= Uncertainty(observations, level, FALSE)
    <3> DEFINE base == CASE level = "low" -> 3 [] level = "medium" -> 2 [] level = "high" -> 1
    <3>1. base \in 1..3
      OBVIOUS
    <3> HIDE DEF base
    <3>2. Min({3, base + 1}) \in Int /\ Min({3, base + 1}) >= base
      <4>1. Min({3, base + 1}) = IF 3 <= base + 1 THEN 3 ELSE base + 1
        <5>1. 3 \in Int /\ base + 1 \in Int
          BY <3>1
        <5>2. QED
          BY <5>1, GreaterOfTwo
      <4>2. QED
        BY <3>1, <4>1
    <3>3. \A x : Uncertainty(x, level, FALSE) = IF CostlyPresent(x) = {} THEN Min({3, base + 1}) ELSE base
      BY DEF Uncertainty, base
    <3>4. CostlyPresent(observations) = {} => CostlyPresent(o) = {}
      BY <2>1
    <3>5. /\ Uncertainty(o, level, FALSE) \in {Min({3, base + 1}), base}
          /\ Uncertainty(observations, level, FALSE) \in {Min({3, base + 1}), base}
          /\ Uncertainty(observations, level, FALSE) = Min({3, base + 1})
                => Uncertainty(o, level, FALSE) = Min({3, base + 1}) \/ Min({3, base + 1}) = base
      BY <3>3, <3>4
    <3> DEFINE lo == Uncertainty(o, level, FALSE)
               hi == Uncertainty(observations, level, FALSE)
               more == Min({3, base + 1})
    <3>6. more \in Int /\ base \in Int /\ base <= more /\ lo \in {more, base} /\ hi \in {more, base}
          /\ (hi = more => lo = more \/ more = base)
      <4> HIDE DEF lo, hi
      <4>1. more \in Int /\ base \in Int /\ base <= more
        BY <3>1, <3>2
      <4>2. lo \in {more, base} /\ hi \in {more, base} /\ (hi = more => lo = more \/ more = base)
        BY <3>5 DEF lo, hi
      <4>3. QED
        BY <4>1, <4>2
    <3> HIDE DEF lo, hi, more
    <3>7. lo >= hi
      BY <3>6
    <3>8. QED
      BY <3>7 DEF lo, hi
  <2>4. Here(o).uncertainty >= Here(observations).uncertainty
    BY <2>3 DEF ScoreFounder
  <2>5. Cardinality(CostlyPresent(o)) <= Cardinality(CostlyPresent(observations))
    <3>1. IsFiniteSet(CostlyPresent(observations))
      BY FiniteFactors, FS_Subset DEF CostlyPresent
    <3>2. QED
      BY <2>1, <3>1, FS_Subset
  <2>6. Cardinality(CostlyPresent(o)) \in Nat /\ Cardinality(CostlyPresent(observations)) \in Nat
    <3>1. IsFiniteSet(CostlyPresent(observations)) /\ IsFiniteSet(CostlyPresent(o))
      BY FiniteFactors, FS_Subset DEF CostlyPresent
    <3>2. QED
      BY <3>1, FS_CardinalityType
  <2>7. ~Here(o).provisional => ~Here(observations).provisional
    BY <2>5, <2>6 DEF ScoreFounder
  <2>8. QED
    BY <2>2, <2>4, <2>7 DEF o
<1>5. /\ ScoreFounder(observations, level, TRUE).provisional
      /\ ScoreFounder(observations, level, TRUE).score = Here(observations).score
  BY DEF ScoreFounder
<1>6. /\ Here(observations).score < 50 => accusation.known /\ accusation.evidenced
      /\ (FounderBand(Here(observations).score) \in {"weak", "below_baseline"}) = (Here(observations).score < 50)
  <2>1. Here(observations).score \in 0..100 /\ (Here(observations).score < 50) = (Total(observations) < 0)
    BY ScoreFounderIs
  <2> DEFINE score == Here(observations).score
  <2>2. score \in 0..100
    BY <2>1
  <2>3. score < 50 => accusation.known /\ accusation.evidenced
    <3>1. CASE accusation.known /\ accusation.evidenced
      BY <3>1
    <3>2. CASE ~(accusation.known /\ accusation.evidenced)
      <4>1. Total(observations) >= 0 /\ Total(observations) \in Int
        BY <1>2, <3>2, TotalIs
      <4> HIDE DEF score
      <4>2. ~(Total(observations) < 0)
        BY <4>1
      <4>3. ~(score < 50)
        BY <2>1, <4>2 DEF score
      <4>4. QED
        BY <4>3
    <3>3. QED
      BY <3>1, <3>2
  <2> HIDE DEF score
  <2>4. (FounderBand(score) \in {"weak", "below_baseline"}) = (score < 50)
    <3>1. CASE score < 50
      <4>1. FounderBand(score) \in {"weak", "below_baseline"}
        BY <2>2, <3>1 DEF FounderBand
      <4>2. QED
        BY <3>1, <4>1
    <3>2. CASE ~(score < 50)
      <4>1. FounderBand(score) \in {"baseline", "moderate", "strong"}
        BY <2>2, <3>2 DEF FounderBand
      <4>2. QED
        BY <3>2, <4>1
    <3>3. QED
      BY <3>1, <3>2
  <2>5. QED
    BY <2>3, <2>4 DEF score
<1> HIDE DEF Left
<1>7. QED
  BY <1>0, <1>4, <1>5, <1>6 DEF FounderIsFair, Left
-----------------------------------------------------------------------------
(* Trends.                                                                 *)
LEMMA FewerThanTwo ==
  ASSUME NEW S, IsFiniteSet(S)
  PROVE  (Cardinality(S) < 2) = (\A i, j \in S : i = j)
<1>0. Cardinality(S) \in Nat
  BY FS_CardinalityType
<1>1. CASE S = {}
  <2>1. Cardinality(S) < 2
    BY <1>0, <1>1, FS_EmptySet
  <2>2. \A i, j \in S : i = j
    BY <1>1
  <2>3. QED
    BY <2>1, <2>2
<1>2. CASE S # {}
  <2>1. PICK x \in S : TRUE
    BY <1>2
  <2>2. IsFiniteSet(S \ {x}) /\ Cardinality(S \ {x}) = Cardinality(S) - 1
    BY FS_RemoveElement
  <2>3. (Cardinality(S \ {x}) = 0) = (S \ {x} = {})
    BY <2>2, FS_EmptySet
  <2>4. CASE S \ {x} = {}
    <3>1. \A i, j \in S : i = j
      BY <2>4
    <3>2. Cardinality(S) < 2
      BY <1>0, <2>2, <2>3, <2>4
    <3>3. QED
      BY <3>1, <3>2
  <2>5. CASE S \ {x} # {}
    <3>1. ~(\A i, j \in S : i = j)
      BY <2>1, <2>5
    <3>2. Cardinality(S \ {x}) # 0 /\ Cardinality(S \ {x}) \in Nat
      BY <2>2, <2>3, <2>5, FS_CardinalityType
    <3>3. ~(Cardinality(S) < 2)
      BY <1>0, <2>2, <3>2
    <3>4. (Cardinality(S) < 2) = FALSE
      BY <3>3
    <3>5. (\A i, j \in S : i = j) = FALSE
      BY <3>1
    <3>6. QED
      BY <3>4, <3>5
  <2>6. QED
    BY <2>4, <2>5
<1>3. QED
  BY <1>1, <1>2

LEMMA LeastExists ==
  ASSUME NEW S, IsFiniteSet(S), S # {}, NEW key, \A x \in S : key[x] \in Int
  PROVE  \E x \in S : \A y \in S : key[x] <= key[y]
<1> DEFINE Has(s) == s # {} => \E x \in s : \A y \in s : key[x] <= key[y]
           T == {s \in SUBSET S : Has(s)}
<1>1. ASSUME NEW s \in SUBSET S, \A x \in s : s \ {x} \in T
      PROVE  s \in T
  <2>1. CASE s = {}
    BY <2>1
  <2>2. CASE s # {}
    <3>1. PICK z \in s : TRUE
      BY <2>2
    <3>2. CASE s \ {z} = {}
      <4>1. \A y \in s : y = z
        BY <3>2
      <4>2. \A y \in s : key[z] <= key[y]
        BY <3>1, <4>1
      <4>3. QED
        BY <3>1, <4>2
    <3>3. CASE s \ {z} # {}
      <4>1. PICK x \in s \ {z} : \A y \in s \ {z} : key[x] <= key[y]
        BY <1>1, <3>3
      <4>2. key[x] \in Int /\ key[z] \in Int /\ \A y \in s : key[y] \in Int
        OBVIOUS
      <4>3. CASE key[x] <= key[z]
        <5>1. \A y \in s : key[x] <= key[y]
          BY <4>1, <4>3
        <5>2. QED
          BY <5>1
      <4>4. CASE ~(key[x] <= key[z])
        <5>1. \A y \in s : key[z] <= key[y]
          BY <4>1, <4>2, <4>4
        <5>2. QED
          BY <3>1, <5>1
      <4>5. QED
        BY <4>3, <4>4
    <3>4. QED
      BY <3>2, <3>3
  <2>3. QED
    BY <2>1, <2>2
<1>2. S \in T
  <2> HIDE DEF T
  <2>1. \A s \in SUBSET S : (\A x \in s : s \ {x} \in T) => s \in T
    BY <1>1
  <2>2. QED
    BY <2>1, SubsetInduction
<1>3. QED
  BY <1>2

DatedPoint == [day : Int, position : {"negative", "mixed", "strong_positive", "unknown"}]
Placed(points) == {i \in DOMAIN points : points[i].position # "unknown"}
Directional(points) == {points[i] : i \in Placed(points)}
IsBefore(p, q) == \/ p.day < q.day
                  \/ p.day = q.day /\ Ordinal[p.position] < Ordinal[q.position]
EarliestOf(D) == CHOOSE p \in D : \A q \in D : ~IsBefore(q, p)
LatestOf(D) == CHOOSE p \in D : \A q \in D : ~IsBefore(p, q)
Change(D) == Ordinal[LatestOf(D).position] - Ordinal[EarliestOf(D).position]

LEMMA TrendIs ==
  ASSUME NEW points
  PROVE  DeriveTrend(points)
           = IF Cardinality(Placed(points)) < 2 THEN "unknown"
             ELSE IF Change(Directional(points)) > 0 THEN "improving"
             ELSE IF Change(Directional(points)) < 0 THEN "declining" ELSE "stable"
  BY DEF DeriveTrend, Placed, Directional, IsBefore, EarliestOf, LatestOf, Change

LEMMA EndsExist ==
  ASSUME NEW points \in Seq(DatedPoint), Placed(points) # {}
  PROVE  /\ EarliestOf(Directional(points)) \in Directional(points)
         /\ LatestOf(Directional(points)) \in Directional(points)
         /\ \A p \in Directional(points) : p.position \in DOMAIN Ordinal /\ p \in Range(points)
<1> DEFINE D == Directional(points)
           late == [p \in D |-> 3 * p.day + Ordinal[p.position]]
           early == [p \in D |-> -(3 * p.day + Ordinal[p.position])]
<1>1. \A p \in D : /\ p.day \in Int /\ p.position \in {"negative", "mixed", "strong_positive"}
                   /\ p \in Range(points)
  <2>1. \A i \in DOMAIN points : points[i] \in DatedPoint /\ points[i] \in Range(points)
    BY DEF Range
  <2>2. \A p \in D : p \in DatedPoint /\ p \in Range(points) /\ p.position # "unknown"
    BY <2>1 DEF Directional, Placed
  <2> HIDE DEF D
  <2>3. QED
    BY <2>2 DEF DatedPoint
<1>2. DOMAIN Ordinal = {"negative", "mixed", "strong_positive"}
      /\ \A o \in DOMAIN Ordinal : Ordinal[o] \in -1..1
  BY DEF Ordinal
<1>3. IsFiniteSet(D) /\ D # {}
  <2>1. DOMAIN points = 1..Len(points) /\ Len(points) \in Nat
    OBVIOUS
  <2>2. IsFiniteSet(Placed(points))
    BY <2>1, FS_Interval, FS_Subset DEF Placed
  <2> DEFINE at == [i \in Placed(points) |-> points[i]]
  <2>3. at \in Surjection(Placed(points), D)
    BY DEF Directional, Surjection
  <2>4. IsFiniteSet(D)
    BY <2>2, <2>3, FS_Surjection DEF ExistsSurjection
  <2>5. QED
    BY <2>4 DEF Directional
<1>4. \A p \in D : late[p] \in Int /\ early[p] \in Int
  BY <1>1, <1>2
<1>5. \A p, q \in D : IsBefore(p, q) => late[p] < late[q] /\ early[q] < early[p]
  <2> SUFFICES ASSUME NEW p \in D, NEW q \in D, IsBefore(p, q)
               PROVE  late[p] < late[q] /\ early[q] < early[p]
    OBVIOUS
  <2> DEFINE a == Ordinal[p.position]
             b == Ordinal[q.position]
             d == p.day
             e == q.day
  <2>1. a \in -1..1 /\ b \in -1..1 /\ d \in Int /\ e \in Int
    BY <1>1, <1>2
  <2>2. d < e \/ (d = e /\ a < b)
    BY DEF IsBefore
  <2>3. /\ late[p] = 3 * d + a /\ late[q] = 3 * e + b
        /\ early[p] = -(3 * d + a) /\ early[q] = -(3 * e + b)
    OBVIOUS
  <2> HIDE DEF a, b, d, e, late, early
  <2>4. 3 * d + a < 3 * e + b
    BY <2>1, <2>2
  <2>5. QED
    BY <2>1, <2>3, <2>4
<1> HIDE DEF late, early, D
<1>6. PICK p \in D : \A q \in D : late[p] <= late[q]
  BY <1>3, <1>4, LeastExists
<1>7. PICK r \in D : \A q \in D : early[r] <= early[q]
  BY <1>3, <1>4, LeastExists
<1>8. \A q \in D : ~IsBefore(q, p)
  BY <1>4, <1>5, <1>6
<1>9. \A q \in D : ~IsBefore(r, q)
  BY <1>4, <1>5, <1>7
<1>10. EarliestOf(D) \in D /\ LatestOf(D) \in D
  BY <1>8, <1>9 DEF EarliestOf, LatestOf
<1>11. QED
  BY <1>1, <1>2, <1>10 DEF D

(* Trends, of every history: the order of the points and the last unknown  *)
(* one do not matter, and a direction needs two positions that differ.     *)
LEMMA TrendHolds ==
  ASSUME NEW points \in Seq(DatedPoint), points # <<>>
  PROVE  TrendIsFair(points)
<1> DEFINE n == Len(points)
<1>0. /\ n \in Nat \ {0} /\ DOMAIN points = 1..n
      /\ Last(points) = points[n]
      /\ Reverse(points) = [i \in 1..n |-> points[n - i + 1]]
      /\ Front(points) = SubSeq(points, 1, n - 1)
  BY DEF Last, Reverse, Front
<1>1. \A p : IsFiniteSet(Placed(p)) =>
        (Cardinality(Placed(p)) < 2) = (\A i, j \in Placed(p) : i = j)
  BY FewerThanTwo
<1>2. IsFiniteSet(1..n)
  BY <1>0, FS_Interval
<1>3. DeriveTrend(points) = DeriveTrend(Reverse(points))
  <2> DEFINE back == Reverse(points)
  <2>1. /\ DOMAIN back = 1..n
        /\ \A i \in 1..n : n - i + 1 \in 1..n /\ back[i] = points[n - i + 1] /\ back[n - i + 1] = points[i]
    <3>1. \A i \in 1..n : n - i + 1 \in 1..n /\ n - (n - i + 1) + 1 = i
      BY <1>0
    <3>2. QED
      BY <1>0, <3>1
  <2> HIDE DEF back
  <2>2. /\ \A i \in Placed(points) : n - i + 1 \in Placed(back) /\ back[n - i + 1] = points[i]
        /\ \A i \in Placed(back) : n - i + 1 \in Placed(points) /\ points[n - i + 1] = back[i]
    BY <1>0, <2>1 DEF Placed
  <2>3. Directional(back) = Directional(points)
    BY <2>2 DEF Directional
  <2>4. IsFiniteSet(Placed(points)) /\ IsFiniteSet(Placed(back))
    BY <1>0, <1>2, <2>1, FS_Subset DEF Placed
  <2>5. (\A i, j \in Placed(points) : i = j) = (\A i, j \in Placed(back) : i = j)
    <3>1. \A i \in Placed(points) : i \in Int
      BY <1>0 DEF Placed
    <3>2. \A i \in Placed(back) : i \in Int
      BY <1>0, <2>1 DEF Placed
    <3>3. \A i, j \in Int : n - i + 1 = n - j + 1 => i = j
      BY <1>0
    <3> HIDE DEF n
    <3>4. (\A i, j \in Placed(points) : i = j) => (\A i, j \in Placed(back) : i = j)
      BY <2>2, <3>2, <3>3
    <3>5. (\A i, j \in Placed(back) : i = j) => (\A i, j \in Placed(points) : i = j)
      BY <2>2, <3>1, <3>3
    <3>6. QED
      BY <3>4, <3>5
  <2>6. (Cardinality(Placed(points)) < 2) = (Cardinality(Placed(back)) < 2)
    BY <1>1, <2>4, <2>5
  <2>7. DeriveTrend(points) = DeriveTrend(back)
    BY <2>3, <2>6, TrendIs
  <2>8. QED
    BY <2>7 DEF back
<1>4. ASSUME Last(points).position = "unknown"
      PROVE  DeriveTrend(points) = DeriveTrend(Front(points))
  <2>1. /\ DOMAIN Front(points) = 1..(n - 1)
        /\ \A i \in 1..(n - 1) : Front(points)[i] = points[i]
    BY <1>0
  <2>2. Placed(Front(points)) = Placed(points)
    BY <1>0, <1>4, <2>1 DEF Placed
  <2>3. \A i \in Placed(points) : Front(points)[i] = points[i]
    BY <2>1, <2>2 DEF Placed
  <2>4. Directional(Front(points)) = Directional(points)
    BY <2>2, <2>3 DEF Directional
  <2>5. QED
    BY <2>2, <2>4, TrendIs
<1>5. ASSUME DeriveTrend(points) \in {"improving", "declining"}
      PROVE  \E p, q \in Range(points) : {p.position, q.position} \subseteq DOMAIN Ordinal
                                          /\ p.position # q.position
  <2>1. ~(Cardinality(Placed(points)) < 2)
    BY <1>5, TrendIs
  <2>2. Placed(points) # {}
    <3>1. SUFFICES ASSUME Placed(points) = {} PROVE FALSE
      OBVIOUS
    <3>2. Cardinality(Placed(points)) = 0
      BY <3>1, FS_EmptySet
    <3>3. QED
      BY <2>1, <3>2
  <2> DEFINE p == EarliestOf(Directional(points))
             q == LatestOf(Directional(points))
  <2>3. p \in Directional(points) /\ q \in Directional(points)
    BY <2>2, EndsExist
  <2>4. Change(Directional(points)) > 0 \/ Change(Directional(points)) < 0
    BY <1>5, TrendIs
  <2>5. p.position # q.position
    <3>1. SUFFICES ASSUME p.position = q.position PROVE FALSE
      OBVIOUS
    <3>2. Ordinal[p.position] \in Int
      BY <2>2, <2>3, EndsExist DEF Ordinal
    <3>3. Change(Directional(points)) = 0
      BY <3>1, <3>2 DEF Change
    <3>4. QED
      BY <2>4, <3>3
  <2>6. /\ p \in Range(points) /\ q \in Range(points)
        /\ p.position \in DOMAIN Ordinal /\ q.position \in DOMAIN Ordinal
    BY <2>2, <2>3, EndsExist
  <2> HIDE DEF p, q
  <2>7. QED
    BY <2>5, <2>6
<1>6. Cardinality(Placed(points)) < 2 => DeriveTrend(points) = "unknown"
  BY TrendIs
<1>7. QED
  BY <1>3, <1>4, <1>5, <1>6 DEF TrendIsFair, Placed
-----------------------------------------------------------------------------
(* Axes.                                                                   *)
LEMMA ProductsGrow ==
  ASSUME NEW a \in Nat, NEW b \in Nat, a <= b, NEW m \in Nat
  PROVE  a * m \in Nat /\ b * m \in Nat /\ a * m <= b * m
<1> DEFINE T == {n \in Nat : a * n \in Nat /\ b * n \in Nat /\ a * n <= b * n}
<1>1. 0 \in T
  OBVIOUS
<1>2. ASSUME NEW n \in Nat, n \in T
      PROVE  n + 1 \in T
  <2>1. a * (n + 1) = a * n + a /\ b * (n + 1) = b * n + b
    OBVIOUS
  <2>2. QED
    BY <1>2, <2>1
<1> HIDE DEF T
<1>3. m \in T
  BY <1>1, <1>2, NumberInduction
<1>4. QED
  BY <1>3 DEF T

LEMMA QuotientsGrow ==
  ASSUME NEW a \in Nat, NEW b \in Nat, a <= b, NEW c \in Nat \ {0}
  PROVE  a \div c <= b \div c
OBVIOUS

Readings == Points \cup {NotKnown}
SignalOf(C) == [reading : Readings, claims : SUBSET C]
AxisSignals(C) == Seq(SignalOf(C))
Plus(r) == IF r > 0 THEN r ELSE 0
Minus(r) == IF r < 0 THEN -r ELSE 0

LEMMA SumOfThrees ==
  ASSUME NEW f, NEW S, IsFiniteSet(S), \A x \in S : f[x] \in 0..3
  PROVE  SumFunctionOnSet(f, S) \in 0..(3 * Cardinality(S))
<1> DEFINE Law(s) == SumFunctionOnSet(f, s) \in 0..(3 * Cardinality(s))
           T == {s \in SUBSET S : Law(s)}
<1>1. ASSUME NEW s \in SUBSET S, \A x \in s : s \ {x} \in T
      PROVE  s \in T
  <2>0. IsFiniteSet(s) /\ Cardinality(s) \in Nat
    BY FS_Subset, FS_CardinalityType
  <2>1. CASE s = {}
    <3>1. SumFunctionOnSet(f, s) = 0 /\ Cardinality(s) = 0
      BY <2>1, SumOfNone, FS_EmptySet
    <3>2. QED
      BY <3>1
  <2>2. CASE s # {}
    <3>1. PICK x \in s : TRUE
      BY <2>2
    <3> DEFINE F == SumFunctionOnSet(f, s \ {x})
    <3>2. SumFunctionOnSet(f, s) = f[x] + F
      BY <2>0, SumTakesOne
    <3>3. F \in 0..(3 * Cardinality(s \ {x}))
      BY <1>1
    <3>4. Cardinality(s \ {x}) = Cardinality(s) - 1
      BY <2>0, FS_RemoveElement
    <3>5. f[x] \in 0..3
      OBVIOUS
    <3> HIDE DEF F
    <3>6. f[x] + F \in 0..(3 * Cardinality(s))
      BY <2>0, <3>3, <3>4, <3>5
    <3>7. QED
      BY <3>2, <3>6
  <2>3. QED
    BY <2>1, <2>2
<1>2. \A s \in SUBSET S : s \in T
  <2> HIDE DEF T
  <2>1. \A s \in SUBSET S : (\A x \in s : s \ {x} \in T) => s \in T
    BY <1>1
  <2>2. QED
    BY <2>1, SubsetInduction
<1>3. QED
  BY <1>2

LEMMA ReadingsAre ==
  ASSUME NEW C, NEW signals \in AxisSignals(C)
  PROVE  /\ DOMAIN signals = 1..Len(signals) /\ Len(signals) \in Nat
         /\ \A i \in DOMAIN signals : signals[i].reading \in Readings
         /\ \A i \in Present(signals) : i \in DOMAIN signals /\ signals[i].reading \in -3..3
         /\ IsFiniteSet(Present(signals)) /\ Cardinality(Present(signals)) \in Nat
<1>1. DOMAIN signals = 1..Len(signals) /\ Len(signals) \in Nat
  BY DEF AxisSignals
<1>2. \A i \in DOMAIN signals : signals[i].reading \in Readings
  <2>1. \A i \in DOMAIN signals : signals[i] \in SignalOf(C)
    BY DEF AxisSignals
  <2>2. QED
    BY <2>1 DEF SignalOf
<1>3. IsFiniteSet(Present(signals))
  <2>1. Present(signals) \subseteq 1..Len(signals)
    BY <1>1 DEF Present
  <2>2. IsFiniteSet(1..Len(signals))
    BY <1>1, FS_Interval
  <2>3. QED
    BY <2>1, <2>2, FS_Subset
<1>4. QED
  BY <1>1, <1>2, <1>3, FS_CardinalityType DEF Present, Readings, Points

LEMMA TotalsAre ==
  ASSUME NEW C, NEW signals \in AxisSignals(C)
  PROVE  /\ PositiveSum(signals) = SumFunctionOnSet([i \in Present(signals) |-> Plus(signals[i].reading)], Present(signals))
         /\ NegativeSum(signals) = SumFunctionOnSet([i \in Present(signals) |-> Minus(signals[i].reading)], Present(signals))
         /\ PositiveSum(signals) \in 0..(3 * Cardinality(Present(signals)))
         /\ NegativeSum(signals) \in 0..(3 * Cardinality(Present(signals)))
<1> DEFINE p == [i \in Present(signals) |-> Plus(signals[i].reading)]
           n == [i \in Present(signals) |-> Minus(signals[i].reading)]
<1>1. PositiveSum(signals) = SumFunctionOnSet(p, Present(signals))
  BY DEF PositiveSum, SumFunction, Plus
<1>2. NegativeSum(signals) = SumFunctionOnSet(n, Present(signals))
  BY DEF NegativeSum, SumFunction, Minus
<1>3. \A i \in Present(signals) : p[i] \in 0..3 /\ n[i] \in 0..3
  BY ReadingsAre DEF Plus, Minus
<1> HIDE DEF p, n
<1>4. /\ SumFunctionOnSet(p, Present(signals)) \in 0..(3 * Cardinality(Present(signals)))
      /\ SumFunctionOnSet(n, Present(signals)) \in 0..(3 * Cardinality(Present(signals)))
  BY <1>3, ReadingsAre, SumOfThrees
<1> USE DEF p, n
<1>5. QED
  BY <1>1, <1>2, <1>4

(* One more reading adds itself to the totals; an unknown one, nothing.    *)
LEMMA MoreIs ==
  ASSUME NEW C, NEW signals \in AxisSignals(C), NEW extra \in SignalOf(C)
  PROVE  LET more == Append(signals, extra) IN
         /\ more \in AxisSignals(C) /\ Len(more) = Len(signals) + 1 /\ more[Len(more)] = extra
         /\ extra.reading = NotKnown =>
              /\ Present(more) = Present(signals)
              /\ PositiveSum(more) = PositiveSum(signals) /\ NegativeSum(more) = NegativeSum(signals)
         /\ extra.reading # NotKnown =>
              /\ Cardinality(Present(more)) = Cardinality(Present(signals)) + 1
              /\ PositiveSum(more) = PositiveSum(signals) + Plus(extra.reading)
              /\ NegativeSum(more) = NegativeSum(signals) + Minus(extra.reading)
<1> DEFINE more == Append(signals, extra)
           last == Len(signals) + 1
           S == Present(signals)
           M == Present(more)
<1>1. /\ more \in AxisSignals(C) /\ Len(more) = last /\ DOMAIN more = 1..last
      /\ more[last] = extra /\ \A i \in 1..Len(signals) : more[i] = signals[i]
  BY DEF AxisSignals
<1>2. /\ DOMAIN signals = 1..Len(signals) /\ Len(signals) \in Nat
      /\ IsFiniteSet(S) /\ Cardinality(S) \in Nat /\ \A i \in S : i \in 1..Len(signals)
  BY ReadingsAre
<1> HIDE DEF more
<1>3. /\ extra.reading = NotKnown => M = S
      /\ extra.reading # NotKnown => M = S \cup {last} /\ M \ {last} = S /\ last \in M
  BY <1>1, <1>2 DEF Present
<1>4. \A i \in S : more[i] = signals[i] /\ i \in M
  BY <1>1, <1>2, <1>3
<1>5. last \notin S
  BY <1>2
<1> DEFINE p == [i \in S |-> Plus(signals[i].reading)]
           n == [i \in S |-> Minus(signals[i].reading)]
           mp == [i \in M |-> Plus(more[i].reading)]
           mn == [i \in M |-> Minus(more[i].reading)]
<1>6. /\ PositiveSum(signals) = SumFunctionOnSet(p, S) /\ PositiveSum(more) = SumFunctionOnSet(mp, M)
      /\ NegativeSum(signals) = SumFunctionOnSet(n, S) /\ NegativeSum(more) = SumFunctionOnSet(mn, M)
  BY <1>1, TotalsAre
<1>7. \A i \in S : p[i] \in Int /\ n[i] \in Int /\ p[i] = mp[i] /\ n[i] = mn[i]
  <2>1. \A i \in S : signals[i].reading \in -3..3
    BY ReadingsAre
  <2>2. \A r \in -3..3 : Plus(r) \in Int /\ Minus(r) \in Int
    BY DEF Plus, Minus
  <2> HIDE DEF S, M
  <2>3. QED
    BY <1>4, <2>1, <2>2
<1>8. last \in M => mp[last] = Plus(extra.reading) /\ mn[last] = Minus(extra.reading)
  BY <1>1
<1>9. \A i \in M : mp[i] \in Int /\ mn[i] \in Int
  <2>1. \A i \in M : more[i].reading \in -3..3
    BY <1>1, ReadingsAre
  <2>2. \A r \in -3..3 : Plus(r) \in Int /\ Minus(r) \in Int
    BY DEF Plus, Minus
  <2> HIDE DEF S, M
  <2>3. QED
    BY <2>1, <2>2
<1>10. IsFiniteSet(M)
  BY <1>1, ReadingsAre
<1> HIDE DEF p, n, mp, mn, S, M
<1>11. SumFunctionOnSet(p, S) = SumFunctionOnSet(mp, S) /\ SumFunctionOnSet(n, S) = SumFunctionOnSet(mn, S)
  BY <1>2, <1>7, SumsSame
<1>12. CASE extra.reading = NotKnown
  BY <1>1, <1>3, <1>6, <1>11, <1>12 DEF more, S, M
<1>13. CASE extra.reading # NotKnown
  <2>1. Cardinality(M) = Cardinality(S) + 1
    BY <1>2, <1>3, <1>5, <1>13, FS_AddElement
  <2>2. /\ SumFunctionOnSet(mp, M) = mp[last] + SumFunctionOnSet(mp, S)
        /\ SumFunctionOnSet(mn, M) = mn[last] + SumFunctionOnSet(mn, S)
    <3>1. /\ SumFunctionOnSet(mp, M) = mp[last] + SumFunctionOnSet(mp, M \ {last})
          /\ SumFunctionOnSet(mn, M) = mn[last] + SumFunctionOnSet(mn, M \ {last})
      BY <1>3, <1>9, <1>10, <1>13, SumTakesOne
    <3>2. QED
      BY <1>3, <1>13, <3>1
  <2>3. SumFunctionOnSet(mp, S) \in Int /\ SumFunctionOnSet(mn, S) \in Int
    BY <1>2, <1>3, <1>9, <1>13, SumTakesOne
  <2>4. /\ Plus(extra.reading) = mp[last] /\ Minus(extra.reading) = mn[last]
        /\ mp[last] \in Int /\ mn[last] \in Int
    BY <1>3, <1>8, <1>9, <1>13
  <2>5. /\ PositiveSum(more) = PositiveSum(signals) + Plus(extra.reading)
        /\ NegativeSum(more) = NegativeSum(signals) + Minus(extra.reading)
    BY <1>6, <1>11, <2>2, <2>3, <2>4
  <2>6. QED
    BY <1>1, <1>13, <2>1, <2>5 DEF more, S, M
<1>14. QED
  BY <1>12, <1>13

LEMMA MirroredIs ==
  ASSUME NEW C, NEW signals \in AxisSignals(C)
  PROVE  /\ Mirror(signals) \in AxisSignals(C)
         /\ Present(Mirror(signals)) = Present(signals)
         /\ PositiveSum(Mirror(signals)) = NegativeSum(signals)
         /\ NegativeSum(Mirror(signals)) = PositiveSum(signals)
<1> DEFINE other == Mirror(signals)
           S == Present(signals)
<1>0. /\ DOMAIN signals = 1..Len(signals) /\ Len(signals) \in Nat /\ IsFiniteSet(S)
      /\ \A i \in DOMAIN signals : signals[i].reading \in Readings
      /\ \A i \in S : i \in DOMAIN signals /\ signals[i].reading \in -3..3
  BY ReadingsAre
<1>1. \A i \in DOMAIN signals : signals[i] \in SignalOf(C)
  BY DEF AxisSignals
<1>2. /\ DOMAIN other = DOMAIN signals
      /\ \A i \in DOMAIN signals :
           /\ other[i].reading = IF signals[i].reading = NotKnown THEN NotKnown ELSE -signals[i].reading
           /\ other[i] \in SignalOf(C)
  <2>1. ASSUME NEW i \in DOMAIN signals
        PROVE  /\ other[i].reading = IF signals[i].reading = NotKnown THEN NotKnown ELSE -signals[i].reading
               /\ other[i] \in SignalOf(C)
    <3>1. other[i] = [signals[i] EXCEPT !.reading = IF @ = NotKnown THEN @ ELSE -@]
      BY DEF Mirror
    <3>2. other[i].reading = IF signals[i].reading = NotKnown THEN NotKnown ELSE -signals[i].reading
      BY <1>1, <3>1 DEF SignalOf
    <3>3. other[i].reading \in Readings
      BY <1>0, <3>2 DEF Readings, Points
    <3>4. other[i] = [signals[i] EXCEPT !.reading = other[i].reading]
      BY <3>1, <3>2
    <3> HIDE DEF other
    <3>5. other[i] \in SignalOf(C)
      BY <1>1, <3>3, <3>4 DEF SignalOf
    <3>6. QED
      BY <3>2, <3>5
  <2>2. QED
    BY <2>1 DEF Mirror
<1> HIDE DEF other
<1>3. other \in AxisSignals(C)
  <2>1. other = [i \in 1..Len(signals) |-> other[i]]
    BY <1>0 DEF other, Mirror
  <2>2. \A i \in 1..Len(signals) : other[i] \in SignalOf(C)
    BY <1>0, <1>2
  <2>3. other \in [1..Len(signals) -> SignalOf(C)]
    BY <2>1, <2>2
  <2>4. QED
    BY <1>0, <2>3 DEF AxisSignals
<1>4. Present(other) = S
  <2>1. \A r \in Readings : (r # NotKnown) => -r # NotKnown
    BY DEF Readings, Points, NotKnown
  <2>2. \A i \in DOMAIN signals : (other[i].reading # NotKnown) <=> (signals[i].reading # NotKnown)
    BY <1>0, <1>2, <2>1
  <2>3. QED
    BY <1>2, <2>2 DEF Present
<1> DEFINE p == [i \in S |-> Plus(signals[i].reading)]
           n == [i \in S |-> Minus(signals[i].reading)]
           op == [i \in S |-> Plus(other[i].reading)]
           on == [i \in S |-> Minus(other[i].reading)]
<1>5. /\ PositiveSum(signals) = SumFunctionOnSet(p, S) /\ NegativeSum(signals) = SumFunctionOnSet(n, S)
      /\ PositiveSum(other) = SumFunctionOnSet(op, S) /\ NegativeSum(other) = SumFunctionOnSet(on, S)
  <2>1. /\ PositiveSum(signals) = SumFunctionOnSet(p, S) /\ NegativeSum(signals) = SumFunctionOnSet(n, S)
    BY TotalsAre
  <2>2. /\ PositiveSum(other) = SumFunctionOnSet([i \in Present(other) |-> Plus(other[i].reading)], Present(other))
        /\ NegativeSum(other) = SumFunctionOnSet([i \in Present(other) |-> Minus(other[i].reading)], Present(other))
    BY <1>3, TotalsAre
  <2>3. QED
    BY <1>4, <2>1, <2>2
<1>6. \A i \in S : p[i] \in Int /\ n[i] \in Int /\ op[i] \in Int /\ on[i] \in Int /\ op[i] = n[i] /\ on[i] = p[i]
  <2>1. \A r \in -3..3 : /\ Plus(r) \in Int /\ Minus(r) \in Int /\ Plus(-r) = Minus(r) /\ Minus(-r) = Plus(r)
    BY DEF Plus, Minus
  <2>2. \A i \in S : other[i].reading = -signals[i].reading /\ signals[i].reading \in -3..3
    <3>1. \A i \in S : i \in DOMAIN signals /\ signals[i].reading # NotKnown /\ signals[i].reading \in -3..3
      BY <1>0 DEF Present
    <3> HIDE DEF S
    <3>2. QED
      BY <1>2, <3>1
  <2> HIDE DEF S
  <2>3. QED
    BY <2>1, <2>2
<1> HIDE DEF p, n, op, on, S
<1>7. SumFunctionOnSet(op, S) = SumFunctionOnSet(n, S) /\ SumFunctionOnSet(on, S) = SumFunctionOnSet(p, S)
  BY <1>0, <1>6, SumsSame
<1>8. QED
  BY <1>3, <1>4, <1>5, <1>7 DEF other, S

(* Confidence, in its parts: it grows with the coverage, and a conflict    *)
(* only takes from it.                                                     *)
Coverage(level) == CASE level = "low" -> 30 [] level = "medium" -> 65 [] level = "high" -> 100
Agreed(p, n) == IF p + n = 0 THEN 1 ELSE Max({p, n})
Whole(p, n) == IF p + n = 0 THEN 1 ELSE p + n
Rounded(x, whole) == (2 * x + 30 * whole) \div (60 * whole)

LEMMA RoundedGrows ==
  ASSUME NEW x \in Nat, NEW y \in Nat, x <= y, NEW whole \in Nat \ {0}
  PROVE  Rounded(x, whole) <= Rounded(y, whole)
<1> DEFINE a == 2 * x + 30 * whole
           b == 2 * y + 30 * whole
           c == 60 * whole
<1>1. a \in Nat /\ b \in Nat /\ a <= b /\ c \in Nat \ {0}
  OBVIOUS
<1>2. Rounded(x, whole) = a \div c /\ Rounded(y, whole) = b \div c
  BY DEF Rounded
<1> HIDE DEF a, b, c
<1>3. QED
  BY <1>1, <1>2, QuotientsGrow

LEMMA ConfidenceIs ==
  ASSUME NEW C, NEW signals \in AxisSignals(C), NEW level, NEW conflicted \in BOOLEAN
  PROVE  LET count == Cardinality(Present(signals))
             p == PositiveSum(signals)
             n == NegativeSum(signals)
         IN /\ Confidence(signals, level, conflicted)
                 = IF count = 0 THEN -1
                   ELSE Rounded(Coverage(level) * Agreed(p, n) * Min({count, 3})
                                  * (IF conflicted THEN 7 ELSE 10), Whole(p, n))
            /\ Agreed(p, n) \in Nat /\ Min({count, 3}) \in Nat /\ Whole(p, n) \in Nat \ {0}
            /\ count \in Nat
<1> DEFINE count == Cardinality(Present(signals))
           p == PositiveSum(signals)
           n == NegativeSum(signals)
<1>1. count \in Nat /\ p \in Nat /\ n \in Nat
  <2>1. count \in Nat /\ p \in 0..(3 * count) /\ n \in 0..(3 * count)
    BY ReadingsAre, TotalsAre
  <2> HIDE DEF count, p, n
  <2>2. QED
    BY <2>1
<1>2. Confidence(signals, level, conflicted)
        = IF count = 0 THEN -1
          ELSE Rounded(Coverage(level) * Agreed(p, n) * Min({count, 3})
                         * (IF conflicted THEN 7 ELSE 10), Whole(p, n))
  BY DEF Confidence, Rounded, Coverage, Agreed, Whole
<1> HIDE DEF count, p, n
<1>3. Max({p, n}) \in Nat /\ Min({count, 3}) \in Nat
  <2>1. /\ Max({p, n}) = IF p >= n THEN p ELSE n
        /\ Min({count, 3}) = IF count <= 3 THEN count ELSE 3
    <3>1. p \in Int /\ n \in Int /\ count \in Int /\ 3 \in Int
      BY <1>1
    <3>2. QED
      BY <3>1, GreaterOfTwo
  <2>2. QED
    BY <1>1, <2>1
<1>4. Agreed(p, n) \in Nat /\ Whole(p, n) \in Nat \ {0}
  BY <1>1, <1>3 DEF Agreed, Whole
<1>5. QED
  BY <1>1, <1>2, <1>3, <1>4 DEF count, p, n

LEMMA ConfidenceGrows ==
  ASSUME NEW C, NEW signals \in AxisSignals(C)
  PROVE  /\ Confidence(signals, "low", FALSE) <= Confidence(signals, "medium", FALSE)
         /\ Confidence(signals, "medium", FALSE) <= Confidence(signals, "high", FALSE)
         /\ \A level \in {"low", "medium", "high"} :
              Confidence(signals, level, TRUE) <= Confidence(signals, level, FALSE)
<1> DEFINE count == Cardinality(Present(signals))
           a == Agreed(PositiveSum(signals), NegativeSum(signals))
           m == Min({count, 3})
           w == Whole(PositiveSum(signals), NegativeSum(signals))
           At(k, t) == IF count = 0 THEN -1 ELSE Rounded(k * a * m * t, w)
<1>1. /\ a \in Nat /\ m \in Nat /\ w \in Nat \ {0} /\ count \in Nat
      /\ Confidence(signals, "low", FALSE) = At(30, 10)
      /\ Confidence(signals, "medium", FALSE) = At(65, 10)
      /\ Confidence(signals, "high", FALSE) = At(100, 10)
      /\ Confidence(signals, "low", TRUE) = At(30, 7)
      /\ Confidence(signals, "medium", TRUE) = At(65, 7)
      /\ Confidence(signals, "high", TRUE) = At(100, 7)
  <2>1. Coverage("low") = 30 /\ Coverage("medium") = 65 /\ Coverage("high") = 100
    BY DEF Coverage
  <2>3. a \in Nat /\ m \in Nat /\ w \in Nat \ {0} /\ count \in Nat
    <3>1. TRUE \in BOOLEAN
      OBVIOUS
    <3>2. QED
      BY <3>1, ConfidenceIs
  <2>4. /\ Confidence(signals, "low", FALSE) = At(30, 10)
        /\ Confidence(signals, "low", TRUE) = At(30, 7)
    <3>1. Confidence(signals, "low", FALSE) = At(Coverage("low"), IF FALSE THEN 7 ELSE 10)
      BY ConfidenceIs
    <3>2. Confidence(signals, "low", TRUE) = At(Coverage("low"), IF TRUE THEN 7 ELSE 10)
      BY ConfidenceIs
    <3>3. QED
      BY <2>1, <3>1, <3>2
  <2>5. /\ Confidence(signals, "medium", FALSE) = At(65, 10)
        /\ Confidence(signals, "medium", TRUE) = At(65, 7)
    <3>1. Confidence(signals, "medium", FALSE) = At(Coverage("medium"), IF FALSE THEN 7 ELSE 10)
      BY ConfidenceIs
    <3>2. Confidence(signals, "medium", TRUE) = At(Coverage("medium"), IF TRUE THEN 7 ELSE 10)
      BY ConfidenceIs
    <3>3. QED
      BY <2>1, <3>1, <3>2
  <2>6. /\ Confidence(signals, "high", FALSE) = At(100, 10)
        /\ Confidence(signals, "high", TRUE) = At(100, 7)
    <3>1. Confidence(signals, "high", FALSE) = At(Coverage("high"), IF FALSE THEN 7 ELSE 10)
      BY ConfidenceIs
    <3>2. Confidence(signals, "high", TRUE) = At(Coverage("high"), IF TRUE THEN 7 ELSE 10)
      BY ConfidenceIs
    <3>3. QED
      BY <2>1, <3>1, <3>2
  <2> HIDE DEF At
  <2>7. QED
    BY <2>3, <2>4, <2>5, <2>6
<1> HIDE DEF a, m, w, count
<1>2. \A k \in {30, 65, 100} : k * a \in Nat /\ k * a * m \in Nat
  BY <1>1, ProductsGrow
<1>3. 30 * a * m <= 65 * a * m /\ 65 * a * m <= 100 * a * m
  <2>1. 30 * a <= 65 * a /\ 65 * a <= 100 * a
    BY <1>1
  <2>2. QED
    BY <1>1, <1>2, <2>1, ProductsGrow
<1>4. \A x, y \in Nat, t \in {7, 10} : x <= y => x * t \in Nat /\ y * t \in Nat /\ x * t <= y * t
  OBVIOUS
<1>5. \A x \in Nat : x * 7 \in Nat /\ x * 10 \in Nat /\ x * 7 <= x * 10
  OBVIOUS
<1>6. At(30, 10) <= At(65, 10) /\ At(65, 10) <= At(100, 10)
  <2>1. CASE count = 0
    BY <2>1
  <2>2. CASE count # 0
    BY <1>1, <1>2, <1>3, <1>4, <2>2, RoundedGrows
  <2>3. QED
    BY <2>1, <2>2
<1>7. At(30, 7) <= At(30, 10) /\ At(65, 7) <= At(65, 10) /\ At(100, 7) <= At(100, 10)
  <2>1. CASE count = 0
    BY <2>1
  <2>2. CASE count # 0
    BY <1>1, <1>2, <1>5, <2>2, RoundedGrows
  <2>3. QED
    BY <2>1, <2>2
<1> HIDE DEF At
<1>8. QED
  BY <1>1, <1>6, <1>7
LEMMA PositionIs ==
  ASSUME NEW C, NEW signals \in AxisSignals(C), NEW level \in {"low", "medium", "high"}
  PROVE  LET count == Cardinality(Present(signals))
             p == PositiveSum(signals)
             n == NegativeSum(signals)
         IN /\ count \in Nat /\ p \in Nat /\ n \in Nat /\ n <= 3 * count
            /\ (Position(signals, level) = "strong_positive")
                 <=> count >= (IF level = "low" THEN 3 ELSE 2) /\ p - n >= 3 /\ n <= 1
            /\ (Position(signals, level) = "negative")
                 <=> level # "low" /\ count >= 2 /\ p - n <= -3 /\ p <= 1
            /\ (Position(signals, level) = "mixed")
                 <=> /\ count >= (IF level = "low" THEN 3 ELSE 2)
                     /\ ~(p - n >= 3 /\ n <= 1) /\ ~(p - n <= -3 /\ p <= 1)
            /\ Position(signals, level) \in {"unknown", "negative", "mixed", "strong_positive"}
<1> DEFINE count == Cardinality(Present(signals))
           p == PositiveSum(signals)
           n == NegativeSum(signals)
<1>1. count \in Nat /\ p \in Nat /\ n \in Nat /\ n <= 3 * count
  <2>1. count \in Nat /\ p \in 0..(3 * count) /\ n \in 0..(3 * count)
    BY ReadingsAre, TotalsAre
  <2> HIDE DEF count, p, n
  <2>2. QED
    BY <2>1
<1>2. Position(signals, level)
        = IF \/ ~(count >= (IF level = "low" THEN 3 ELSE 2))
             \/ PositionFromTotals(p, n) = "negative" /\ level = "low"
          THEN "unknown" ELSE PositionFromTotals(p, n)
  <2> DEFINE need == IF level = "low" THEN 3 ELSE 2
  <2>1. Position(signals, level)
          = IF \/ ~HasSufficientSignals(count, level)
               \/ PositionFromTotals(p, n) = "negative" /\ level = "low"
            THEN "unknown" ELSE PositionFromTotals(p, n)
    BY DEF Position
  <2>2. HasSufficientSignals(count, level) <=> count >= need
    BY DEF HasSufficientSignals
  <2> HIDE DEF need, count, p, n
  <2>3. Position(signals, level)
          = IF \/ ~(count >= need)
               \/ PositionFromTotals(p, n) = "negative" /\ level = "low"
            THEN "unknown" ELSE PositionFromTotals(p, n)
    BY <2>1, <2>2
  <2>4. QED
    BY <2>3 DEF need
<1> HIDE DEF count, p, n
<1>3. /\ p - n >= 3 /\ n <= 1 => PositionFromTotals(p, n) = "strong_positive"
      /\ p - n <= -3 /\ p <= 1 => PositionFromTotals(p, n) = "negative"
      /\ ~(p - n >= 3 /\ n <= 1) /\ ~(p - n <= -3 /\ p <= 1) => PositionFromTotals(p, n) = "mixed"
  BY <1>1 DEF PositionFromTotals
<1>4. ~(p - n >= 3 /\ p - n <= -3)
  BY <1>1
<1>5. /\ (Position(signals, level) = "strong_positive")
           <=> count >= (IF level = "low" THEN 3 ELSE 2) /\ p - n >= 3 /\ n <= 1
      /\ (Position(signals, level) = "negative")
           <=> level # "low" /\ count >= 2 /\ p - n <= -3 /\ p <= 1
      /\ (Position(signals, level) = "mixed")
           <=> /\ count >= (IF level = "low" THEN 3 ELSE 2)
               /\ ~(p - n >= 3 /\ n <= 1) /\ ~(p - n <= -3 /\ p <= 1)
      /\ Position(signals, level) \in {"unknown", "negative", "mixed", "strong_positive"}
  <2> DEFINE need == IF level = "low" THEN 3 ELSE 2
             high == p - n >= 3 /\ n <= 1
             low == p - n <= -3 /\ p <= 1
             reached == PositionFromTotals(p, n)
             position == Position(signals, level)
             enough == count >= need
  <2>1. position = IF ~enough \/ (reached = "negative" /\ level = "low") THEN "unknown" ELSE reached
    BY <1>2
  <2>2. /\ high => reached = "strong_positive" /\ ~low
        /\ low => reached = "negative"
        /\ ~high /\ ~low => reached = "mixed"
    BY <1>3, <1>4
  <2>3. level # "low" => (enough <=> count >= 2)
    OBVIOUS
  <2> HIDE DEF high, low, reached, position, enough
  <2>4. /\ (position = "strong_positive") <=> enough /\ high
        /\ (position = "negative") <=> level # "low" /\ enough /\ low
        /\ (position = "mixed") <=> enough /\ ~high /\ ~low
        /\ position \in {"unknown", "negative", "mixed", "strong_positive"}
    BY <2>1, <2>2
  <2>5. (position = "negative") <=> level # "low" /\ count >= 2 /\ low
    BY <2>3, <2>4
  <2>6. QED
    BY <2>4, <2>5 DEF high, low, position, enough
<1>6. QED
  BY <1>1, <1>5 DEF count, p, n

(* Axes, of every set of readings: an unknown reading changes nothing but  *)
(* the questions; a good one condemns nobody and a bad one promotes        *)
(* nobody; coverage only adds confidence and a conflict only takes it; and *)
(* the rubric is even-handed.                                              *)
LEMMA AxisHolds ==
  ASSUME NEW C, NEW signals \in AxisSignals(C), NEW extra \in SignalOf(C)
  PROVE  AxisIsFair(signals, extra)
<1> DEFINE more == Append(signals, extra)
<1>0. more \in AxisSignals(C) /\ Len(more) = Len(signals) + 1 /\ more[Len(more)] = extra
  BY MoreIs
<1>1. Range(Levels) = {"low", "medium", "high"}
  <2>1. DOMAIN Levels = 1..3 /\ Levels[1] = "low" /\ Levels[2] = "medium" /\ Levels[3] = "high"
    BY DEF Levels
  <2> HIDE DEF Levels
  <2>2. Range(Levels) = {Levels[i] : i \in 1..3}
    BY <2>1 DEF Range
  <2>3. QED
    BY <2>1, <2>2
<1>2. \A s, level, c : /\ ComputeAxis(s, level, <<>>, c).position = Position(s, level)
                       /\ ComputeAxis(s, level, <<>>, c).confidence = Confidence(s, level, c)
                       /\ ComputeAxis(s, level, <<>>, c).questions = OpenQuestions(s, level, <<>>, c)
  BY DEF ComputeAxis
<1> DEFINE c == Cardinality(Present(signals))
           p == PositiveSum(signals)
           n == NegativeSum(signals)
           mc == Cardinality(Present(more))
           mp == PositiveSum(more)
           mn == NegativeSum(more)
<1>3. /\ extra.reading = NotKnown => Present(more) = Present(signals) /\ mp = p /\ mn = n
      /\ extra.reading # NotKnown => mc = c + 1 /\ mp = p + Plus(extra.reading)
                                     /\ mn = n + Minus(extra.reading)
  BY MoreIs
<1>4. ASSUME extra.reading = NotKnown, NEW level \in {"low", "medium", "high"}
      PROVE  /\ Position(more, level) = Position(signals, level)
             /\ Confidence(more, level, FALSE) = Confidence(signals, level, FALSE)
             /\ <<"assess", Len(more)>> \in OpenQuestions(more, level, <<>>, FALSE)
  <2>1. Present(more) = Present(signals) /\ PositiveSum(more) = PositiveSum(signals)
        /\ NegativeSum(more) = NegativeSum(signals)
    BY <1>3, <1>4
  <2>2. Len(more) \in DOMAIN more /\ more[Len(more)].reading = NotKnown
    <3>1. DOMAIN more = 1..Len(more) /\ Len(signals) \in Nat
      BY <1>0, ReadingsAre
    <3>2. QED
      BY <1>0, <1>4, <3>1
  <2> HIDE DEF more
  <2>3. Position(more, level) = Position(signals, level)
    BY <2>1 DEF Position
  <2>4. Confidence(more, level, FALSE) = Confidence(signals, level, FALSE)
    BY <2>1 DEF Confidence
  <2>5. <<"assess", Len(more)>> \in {<<"assess", i>> : i \in {j \in DOMAIN more : more[j].reading = NotKnown}}
    BY <2>2
  <2>6. QED
    BY <2>3, <2>4, <2>5 DEF OpenQuestions
<1>5. /\ c \in Nat /\ p \in Nat /\ n \in Nat /\ n <= 3 * c
      /\ mc \in Nat /\ mp \in Nat /\ mn \in Nat
  <2>1. "low" \in {"low", "medium", "high"}
    OBVIOUS
  <2>2. QED
    BY <1>0, <2>1, PositionIs
<1>6. ASSUME NEW level \in {"low", "medium", "high"}
      PROVE  /\ (Position(signals, level) = "strong_positive")
                  <=> c >= (IF level = "low" THEN 3 ELSE 2) /\ p - n >= 3 /\ n <= 1
             /\ (Position(signals, level) = "negative") <=> level # "low" /\ c >= 2 /\ p - n <= -3 /\ p <= 1
             /\ (Position(more, level) = "strong_positive")
                  <=> mc >= (IF level = "low" THEN 3 ELSE 2) /\ mp - mn >= 3 /\ mn <= 1
             /\ (Position(more, level) = "negative") <=> level # "low" /\ mc >= 2 /\ mp - mn <= -3 /\ mp <= 1
             /\ Position(signals, level) # "unknown" => c >= (IF level = "low" THEN 3 ELSE 2)
  <2>1. /\ (Position(more, level) = "strong_positive")
                  <=> mc >= (IF level = "low" THEN 3 ELSE 2) /\ mp - mn >= 3 /\ mn <= 1
        /\ (Position(more, level) = "negative") <=> level # "low" /\ mc >= 2 /\ mp - mn <= -3 /\ mp <= 1
    BY <1>0, PositionIs
  <2>2. /\ (Position(signals, level) = "strong_positive")
                  <=> c >= (IF level = "low" THEN 3 ELSE 2) /\ p - n >= 3 /\ n <= 1
        /\ (Position(signals, level) = "negative") <=> level # "low" /\ c >= 2 /\ p - n <= -3 /\ p <= 1
    BY PositionIs
  <2>3. Position(signals, level) # "unknown" => c >= (IF level = "low" THEN 3 ELSE 2)
    BY DEF Position, HasSufficientSignals
  <2>4. QED
    BY <2>1, <2>2, <2>3
<1>7. ASSUME extra.reading \in 1..3, NEW level \in {"low", "medium", "high"},
             Position(more, level) = "negative"
      PROVE  Position(signals, level) = "negative"
  <2>1. extra.reading # NotKnown
    BY <1>7 DEF NotKnown
  <2>2. Plus(extra.reading) = extra.reading /\ Minus(extra.reading) = 0
    BY <1>7 DEF Plus, Minus
  <2>3. mc = c + 1 /\ mp = p + extra.reading /\ mn = n
    BY <1>3, <1>5, <2>1, <2>2
  <2>4. level # "low" /\ mp - mn <= -3 /\ mp <= 1
    BY <1>6, <1>7
  <2> HIDE DEF c, p, n, mc, mp, mn, more
  <2>5. p - n <= -3 /\ p <= 1 /\ n >= 4
    BY <1>5, <1>7, <2>3, <2>4
  <2>6. c >= 2
    BY <1>5, <2>5
  <2>7. QED
    BY <1>6, <2>4, <2>5, <2>6
<1>8. ASSUME extra.reading \in -3..-1, NEW level \in {"low", "medium", "high"},
             Position(signals, level) # "unknown", Position(more, level) = "strong_positive"
      PROVE  Position(signals, level) = "strong_positive"
  <2>1. extra.reading # NotKnown
    BY <1>8 DEF NotKnown
  <2>2. Plus(extra.reading) = 0 /\ Minus(extra.reading) = -extra.reading
    BY <1>8 DEF Plus, Minus
  <2>3. mp = p /\ mn = n - extra.reading
    BY <1>3, <1>5, <1>8, <2>1, <2>2
  <2>4. mp - mn >= 3 /\ mn <= 1 /\ c >= (IF level = "low" THEN 3 ELSE 2)
    BY <1>6, <1>8
  <2> HIDE DEF c, p, n, mc, mp, mn, more
  <2>5. p - n >= 3 /\ n <= 1
    BY <1>5, <1>8, <2>3, <2>4
  <2>6. QED
    BY <1>6, <2>4, <2>5
<1>9. Position(more, "low") # "negative"
  BY <1>6
<1>10. Position(Mirror(more), "high") = Opposite[Position(more, "high")]
  <2> DEFINE other == Mirror(more)
  <2>1. /\ other \in AxisSignals(C) /\ Present(other) = Present(more)
        /\ PositiveSum(other) = mn /\ NegativeSum(other) = mp
    BY <1>0, MirroredIs
  <2> HIDE DEF other
  <2>2. /\ (Position(more, "high") = "strong_positive") <=> mc >= 2 /\ mp - mn >= 3 /\ mn <= 1
        /\ (Position(more, "high") = "negative") <=> mc >= 2 /\ mp - mn <= -3 /\ mp <= 1
        /\ (Position(more, "high") = "mixed")
             <=> mc >= 2 /\ ~(mp - mn >= 3 /\ mn <= 1) /\ ~(mp - mn <= -3 /\ mp <= 1)
        /\ Position(more, "high") \in {"unknown", "negative", "mixed", "strong_positive"}
    BY <1>0, PositionIs
  <2>3. /\ (Position(other, "high") = "strong_positive") <=> mc >= 2 /\ mn - mp >= 3 /\ mp <= 1
        /\ (Position(other, "high") = "negative") <=> mc >= 2 /\ mn - mp <= -3 /\ mn <= 1
        /\ (Position(other, "high") = "mixed")
             <=> mc >= 2 /\ ~(mn - mp >= 3 /\ mp <= 1) /\ ~(mn - mp <= -3 /\ mn <= 1)
        /\ Position(other, "high") \in {"unknown", "negative", "mixed", "strong_positive"}
    BY <2>1, PositionIs
  <2> HIDE DEF mc, mp, mn, more
  <2>4. (mp - mn >= 3) <=> (mn - mp <= -3)
    BY <1>5
  <2>5. (mn - mp >= 3) <=> (mp - mn <= -3)
    BY <1>5
  <2>6. QED
    BY <2>2, <2>3, <2>4, <2>5 DEF Opposite, other
<1>11. /\ Confidence(more, "low", FALSE) <= Confidence(more, "medium", FALSE)
       /\ Confidence(more, "medium", FALSE) <= Confidence(more, "high", FALSE)
       /\ \A level \in {"low", "medium", "high"} : Confidence(more, level, TRUE) <= Confidence(more, level, FALSE)
  BY <1>0, ConfidenceGrows
<1> HIDE DEF more, c, p, n, mc, mp, mn
<1> DEFINE At(given, level) == ComputeAxis(given, level, <<>>, FALSE)
<1>12. ASSUME NEW level \in Range(Levels)
       PROVE  /\ extra.reading = NotKnown =>
                   /\ At(more, level).position = At(signals, level).position
                   /\ At(more, level).confidence = At(signals, level).confidence
                   /\ <<"assess", Len(more)>> \in At(more, level).questions
              /\ extra.reading \in 1..3 =>
                   (At(more, level).position = "negative" => At(signals, level).position = "negative")
              /\ extra.reading \in -3..-1 /\ At(signals, level).position # "unknown" =>
                   (At(more, level).position = "strong_positive"
                      => At(signals, level).position = "strong_positive")
              /\ ComputeAxis(more, level, <<>>, TRUE).confidence <= At(more, level).confidence
  <2>1. level \in {"low", "medium", "high"}
    BY <1>1
  <2>2. extra.reading = NotKnown =>
          /\ At(more, level).position = At(signals, level).position
          /\ At(more, level).confidence = At(signals, level).confidence
          /\ <<"assess", Len(more)>> \in At(more, level).questions
    <3>1. SUFFICES ASSUME extra.reading = NotKnown
                   PROVE  /\ At(more, level).position = At(signals, level).position
                          /\ At(more, level).confidence = At(signals, level).confidence
                          /\ <<"assess", Len(more)>> \in At(more, level).questions
      OBVIOUS
    <3>2. /\ At(more, level).position = Position(more, level)
          /\ At(signals, level).position = Position(signals, level)
          /\ At(more, level).confidence = Confidence(more, level, FALSE)
          /\ At(signals, level).confidence = Confidence(signals, level, FALSE)
          /\ At(more, level).questions = OpenQuestions(more, level, <<>>, FALSE)
      BY <1>2
    <3> HIDE DEF At
    <3>3. QED
      BY <1>4, <2>1, <3>1, <3>2
  <2>3. extra.reading \in 1..3 =>
          (At(more, level).position = "negative" => At(signals, level).position = "negative")
    BY <1>2, <1>7, <2>1
  <2>4. extra.reading \in -3..-1 /\ At(signals, level).position # "unknown" =>
          (At(more, level).position = "strong_positive" => At(signals, level).position = "strong_positive")
    BY <1>2, <1>8, <2>1
  <2>5. ComputeAxis(more, level, <<>>, TRUE).confidence <= At(more, level).confidence
    BY <1>2, <1>11, <2>1
  <2>6. QED
    BY <2>2, <2>3, <2>4, <2>5
<1>13. /\ At(more, "low").position # "negative"
       /\ At(more, "low").confidence <= At(more, "medium").confidence
       /\ At(more, "medium").confidence <= At(more, "high").confidence
       /\ At(Mirror(more), "high").position = Opposite[At(more, "high").position]
  BY <1>2, <1>9, <1>10, <1>11
<1>14. QED
  BY <1>12, <1>13 DEF AxisIsFair, more
-----------------------------------------------------------------------------
(* Verdicts.                                                               *)
Stances == {"negative", "mixed", "unknown", "positive"}
AxisRead == [stance : Stances, confidence : Int]
Confident(reads) == {a \in Names(reads, "positive") : reads[a].confidence >= 35}
Barred(reads) == \A a, b \in Confident(reads) : a = b

LEMMA ConfidentAreFew ==
  ASSUME NEW reads
  PROVE  IsFiniteSet(Confident(reads)) /\ Cardinality(Confident(reads)) \in Nat
<1>1. IsFiniteSet(AxisNames)
  <2>1. IsFiniteSet({} \cup {"founder"})
    BY FS_EmptySet, FS_AddElement
  <2>2. IsFiniteSet(({} \cup {"founder"}) \cup {"market"})
    BY <2>1, FS_AddElement
  <2>3. IsFiniteSet((({} \cup {"founder"}) \cup {"market"}) \cup {"idea_vs_market"})
    BY <2>2, FS_AddElement
  <2>4. (({} \cup {"founder"}) \cup {"market"}) \cup {"idea_vs_market"} = AxisNames
    BY DEF AxisNames
  <2>5. QED
    BY <2>3, <2>4
<1>2. Confident(reads) \subseteq AxisNames
  BY DEF Confident, Names
<1>3. QED
  BY <1>1, <1>2, FS_Subset, FS_CardinalityType

LEMMA BarIs ==
  ASSUME NEW reads
  PROVE  (ConfidentPositiveCount(reads) >= 2) <=> ~Barred(reads)
<1>1. (Cardinality(Confident(reads)) < 2) = (\A a, b \in Confident(reads) : a = b)
  BY ConfidentAreFew, FewerThanTwo
<1>2. ConfidentPositiveCount(reads) = Cardinality(Confident(reads))
  BY DEF ConfidentPositiveCount, Confident
<1>3. (ConfidentPositiveCount(reads) >= 2) <=> ~(Cardinality(Confident(reads)) < 2)
  BY <1>2, ConfidentAreFew
<1>4. QED
  BY <1>1, <1>3 DEF Barred

LEMMA WordsAreRead ==
  ASSUME NEW reads \in [AxisNames -> AxisRead]
  PROVE  AxisReads(Worded(reads)) = reads
<1>1. ASSUME NEW a \in AxisNames
      PROVE  StanceOf[a][CHOOSE r \in DOMAIN StanceOf[a] : StanceOf[a][r] = reads[a].stance] = reads[a].stance
  <2>1. reads[a].stance \in Stances
    BY DEF AxisRead
  <2>2. \A s \in Stances : \E r \in DOMAIN StanceOf[a] : StanceOf[a][r] = s
    BY DEF AxisNames, StanceOf, Stances
  <2> HIDE DEF StanceOf
  <2>3. QED
    BY <2>1, <2>2
<1>2. \A a \in AxisNames : reads[a] = [stance |-> reads[a].stance, confidence |-> reads[a].confidence]
  BY DEF AxisRead
<1>3. AxisReads(Worded(reads))
        = [a \in AxisNames |-> [stance |-> StanceOf[a][CHOOSE r \in DOMAIN StanceOf[a] : StanceOf[a][r] = reads[a].stance],
                                confidence |-> reads[a].confidence]]
  BY DEF AxisReads, Worded
<1>4. reads = [a \in AxisNames |-> [stance |-> reads[a].stance, confidence |-> reads[a].confidence]]
  BY <1>2
<1>5. QED
  BY <1>1, <1>3, <1>4

LEMMA VerdictIs ==
  ASSUME NEW reads, NEW score, NEW level
  PROVE  /\ (ConvictionLevel(reads, score, level) = "pass")
              <=> /\ Names(reads, "negative") # {} /\ Names(reads, "positive") = {}
                  /\ Complete(reads, score, level)
         /\ (ConvictionLevel(reads, score, level) = "pursue")
              <=> Names(reads, "negative") = {} /\ level # "low" /\ ~Barred(reads)
         /\ (ConvictionLevel(reads, score, level) = "hold")
              <=> /\ Names(reads, "negative") # {} /\ Names(reads, "positive") # {}
                  /\ Complete(reads, score, level)
         /\ ConvictionLevel(reads, score, level) \in {"pass", "pursue", "hold", "gather_more"}
<1>1. (ConfidentPositiveCount(reads) >= 2) <=> ~Barred(reads)
  BY BarIs
<1> DEFINE enough == ConfidentPositiveCount(reads) >= 2
           complete == Complete(reads, score, level)
<1>2. ConvictionLevel(reads, score, level)
        = CASE Names(reads, "negative") # {} /\ Names(reads, "positive") = {} /\ complete -> "pass"
            [] Names(reads, "negative") = {} /\ level # "low" /\ enough -> "pursue"
            [] Names(reads, "negative") # {} /\ Names(reads, "positive") # {} /\ complete -> "hold"
            [] OTHER -> "gather_more"
  BY DEF ConvictionLevel
<1>3. enough <=> ~Barred(reads)
  BY <1>1
<1> HIDE DEF enough, complete
<1>4. QED
  BY <1>2, <1>3 DEF complete

(* Verdicts, of every three reads: forgetting a read condemns nobody and   *)
(* an absent confidence lends none, the axes are alike, and what is not    *)
(* known of a founder never makes a pass.                                  *)
LEMMA ConvictionHolds ==
  ASSUME NEW reads \in [AxisNames -> AxisRead], NEW level,
         NEW score, score.known \in BOOLEAN, score.provisional \in BOOLEAN
  PROVE  ConvictionIsCautious(reads, score, level)
<1> DEFINE Decide(r, f, l) == DecideConviction(Worded(r), f, l)
           Verdict(r) == Decide(r, score, level).level
           Forget(a) == [reads EXCEPT ![a] = Unheard]
           decision == Decide(reads, score, level)
           Altered(a, r) == [reads EXCEPT ![a] = r]
<1>1. \A r \in [AxisNames -> AxisRead] : \A f, l :
        /\ Decide(r, f, l).level = ConvictionLevel(r, f, l)
        /\ Decide(r, f, l).clears_bar = (ConvictionLevel(r, f, l) = "pursue")
        /\ Decide(r, f, l).hard_negative = Names(r, "negative")
        /\ Decide(r, f, l).requests = EvidenceRequests(r, f, l)
  BY WordsAreRead DEF DecideConviction
<1>2. ASSUME NEW a \in AxisNames, NEW r \in AxisRead
      PROVE  /\ Altered(a, r) \in [AxisNames -> AxisRead] /\ Altered(a, r)[a] = r
             /\ \A b \in AxisNames : b # a => Altered(a, r)[b] = reads[b]
  OBVIOUS
<1>3. Unheard \in AxisRead /\ Unheard.stance = "unknown" /\ \A r \in Reading : r \in AxisRead /\ (r.stance = "positive" => r \in AxisRead)
  <2>1. Unheard \in AxisRead /\ Unheard.stance = "unknown"
    BY DEF Unheard, AxisRead, Stances
  <2>2. \A r \in Reading : r \in AxisRead
    <3>1. \A r : r \in {[stance |-> st, confidence |-> -1] : st \in {"negative", "mixed", "unknown", "positive"}} => r \in AxisRead
      BY DEF AxisRead, Stances
    <3>2. \A r \in [stance : {"positive"}, confidence : {34, 35}] : r \in AxisRead
      BY DEF AxisRead, Stances
    <3>3. QED
      BY <3>1, <3>2 DEF Reading
  <2>3. QED
    BY <2>1, <2>2
<1> HIDE DEF Decide
(* What a change of one read does to the sets that a verdict is made of.   *)
<1>4. ASSUME NEW a \in AxisNames, reads[a].stance # "negative", Names(reads, "negative") = {},
             NEW r \in AxisRead, r.stance # "negative", reads[a].stance # "positive", ~Barred(reads)
      PROVE  Names(Altered(a, r), "negative") = {} /\ ~Barred(Altered(a, r))
  <2> DEFINE o == Altered(a, r)
  <2>1. /\ o[a] = r /\ \A b \in AxisNames : b # a => o[b] = reads[b]
    BY <1>2
  <2> HIDE DEF o
  <2>2. Names(o, "negative") = {}
    BY <1>4, <2>1 DEF Names
  <2>3. \A b \in Confident(reads) : b \in Confident(o)
    BY <1>4, <2>1 DEF Confident, Names
  <2>4. ~Barred(o)
    BY <1>4, <2>3 DEF Barred
  <2>5. QED
    BY <2>2, <2>4 DEF o
<1>5. ASSUME Verdict(reads) = "pursue", NEW a \in AxisNames
      PROVE  /\ reads[a].stance # "negative"
             /\ reads[a].stance # "positive" => Verdict(Forget(a)) = "pursue"
             /\ reads[a].stance = "unknown" =>
                  \A r \in Reading : r.stance = "positive" => Verdict(Altered(a, r)) = "pursue"
  <2>1. Names(reads, "negative") = {} /\ level # "low" /\ ~Barred(reads)
    BY <1>1, <1>5, VerdictIs
  <2>2. reads[a].stance # "negative"
    BY <2>1 DEF Names
  <2>3. ASSUME NEW r \in AxisRead, r.stance # "negative", reads[a].stance # "positive"
        PROVE  Verdict(Altered(a, r)) = "pursue"
    <3>1. Names(Altered(a, r), "negative") = {} /\ ~Barred(Altered(a, r))
      BY <1>4, <2>1, <2>2, <2>3
    <3>2. Altered(a, r) \in [AxisNames -> AxisRead]
      BY <1>2
    <3> HIDE DEF Altered
    <3>3. QED
      BY <1>1, <2>1, <3>1, <3>2, VerdictIs
  <2>4. reads[a].stance # "positive" => Verdict(Forget(a)) = "pursue"
    BY <1>3, <2>3
  <2>5. reads[a].stance = "unknown" =>
          \A r \in Reading : r.stance = "positive" => Verdict(Altered(a, r)) = "pursue"
    <3> HIDE DEF Altered, Verdict
    <3>1. QED
      BY <1>3, <2>3
  <2>6. QED
    BY <2>2, <2>4, <2>5
<1>6. ASSUME NEW a \in AxisNames
      PROVE  Verdict(Forget(a)) # "pass"
  <2> DEFINE o == Forget(a)
  <2>1. o \in [AxisNames -> AxisRead] /\ o[a] = Unheard
    BY <1>3
  <2> HIDE DEF o
  <2>2. Names(o, "unknown") # {}
    BY <1>3, <2>1 DEF Names
  <2>3. ~Complete(o, score, level)
    BY <2>2 DEF Complete
  <2>4. Verdict(o) # "pass"
    BY <1>1, <2>1, <2>3, VerdictIs
  <2>5. QED
    BY <2>4 DEF o
<1>7. ASSUME NEW a \in AxisNames, reads[a].stance = "positive",
             Verdict([reads EXCEPT ![a].confidence = -1]) = "pursue"
      PROVE  Verdict(Forget(a)) = "pursue"
  <2> DEFINE o == Forget(a)
             u == [reads EXCEPT ![a].confidence = -1]
  <2>1. /\ o \in [AxisNames -> AxisRead] /\ o[a] = Unheard
        /\ \A b \in AxisNames : b # a => o[b] = reads[b]
    BY <1>3
  <2>2. /\ u[a] = [reads[a] EXCEPT !.confidence = -1]
        /\ \A b \in AxisNames : b # a => u[b] = reads[b]
        /\ u = [b \in AxisNames |-> u[b]]
    OBVIOUS
  <2>3. /\ u[a] \in AxisRead /\ u[a].stance = "positive" /\ u[a].confidence = -1
        /\ \A b \in AxisNames : reads[b] \in AxisRead
    <3>1. reads[a] \in AxisRead
      OBVIOUS
    <3>2. [reads[a] EXCEPT !.confidence = -1] \in AxisRead
      BY <3>1 DEF AxisRead
    <3>3. [reads[a] EXCEPT !.confidence = -1].stance = "positive" /\ [reads[a] EXCEPT !.confidence = -1].confidence = -1
      BY <1>7, <3>1 DEF AxisRead
    <3> HIDE DEF u
    <3>4. QED
      BY <2>2, <3>2, <3>3
  <2>4. u \in [AxisNames -> AxisRead]
    <3>1. \A b \in AxisNames : u[b] \in AxisRead
      <4> HIDE DEF u
      <4>1. QED
        BY <2>2, <2>3
    <3> HIDE DEF u
    <3>2. QED
      BY <2>2, <3>1
  <2>5. Verdict(u) = "pursue"
    BY <1>7
  <2> HIDE DEF o, u
  <2>6. Names(u, "negative") = {} /\ level # "low" /\ ~Barred(u)
    BY <1>1, <2>4, <2>5, VerdictIs
  <2>7. Names(o, "negative") = {}
    BY <1>3, <2>1, <2>2, <2>6 DEF Names
  <2>8. \A b \in Confident(u) : b \in Confident(o)
    <3>1. a \notin Confident(u)
      BY <2>3 DEF Confident
    <3>2. \A b \in AxisNames : b # a => o[b] = u[b]
      BY <2>1, <2>2
    <3>3. QED
      BY <3>1, <3>2 DEF Confident, Names
  <2>9. ~Barred(o)
    BY <2>6, <2>8 DEF Barred
  <2>10. Verdict(o) = "pursue"
    BY <1>1, <2>1, <2>6, <2>7, <2>9, VerdictIs
  <2>11. QED
    BY <2>10 DEF o
<1>8. "pass" \notin {Decide(reads, score, "low").level}
                       \cup {Decide(reads, f, level).level : f \in {g \in FounderScores : ~g.known \/ g.provisional}}
  <2>1. Decide(reads, score, "low").level # "pass"
    BY <1>1, VerdictIs DEF Complete
  <2>2. \A f : (~f.known \/ f.provisional) => ~Complete(reads, f, level)
    BY DEF Complete
  <2>3. \A f : (~f.known \/ f.provisional) => Decide(reads, f, level).level # "pass"
    BY <1>1, <2>2, VerdictIs
  <2>4. QED
    BY <2>1, <2>3
<1>9. \A f \in FounderScores : (Decide(reads, f, level).level = "pursue") = decision.clears_bar
  <2>1. \A f : (ConvictionLevel(reads, f, level) = "pursue")
               <=> (Names(reads, "negative") = {} /\ level # "low" /\ ~Barred(reads))
    BY VerdictIs
  <2>2. \A f : (ConvictionLevel(reads, f, level) = "pursue") <=> (ConvictionLevel(reads, score, level) = "pursue")
    BY <2>1
  <2>3. QED
    BY <1>1, <2>2
<1>10. ASSUME NEW a \in AxisNames, NEW b \in AxisNames
       PROVE  Verdict([reads EXCEPT ![a] = reads[b], ![b] = reads[a]]) = decision.level
  <2> DEFINE o == [reads EXCEPT ![a] = reads[b], ![b] = reads[a]]
             At(x) == IF x = a THEN b ELSE IF x = b THEN a ELSE x
  <2>1. /\ o \in [AxisNames -> AxisRead]
        /\ \A x \in AxisNames : At(x) \in AxisNames /\ At(At(x)) = x /\ o[x] = reads[At(x)] /\ reads[x] = o[At(x)]
    OBVIOUS
  <2> HIDE DEF o, At
  <2>2. \A s : (Names(o, s) = {}) <=> (Names(reads, s) = {})
    <3>1. ASSUME NEW s
          PROVE  /\ \A x \in Names(o, s) : At(x) \in Names(reads, s)
                 /\ \A x \in Names(reads, s) : At(x) \in Names(o, s)
      BY <2>1 DEF Names
    <3>2. QED
      BY <3>1
  <2>3. /\ \A x \in Confident(o) : At(x) \in Confident(reads)
        /\ \A x \in Confident(reads) : At(x) \in Confident(o)
        /\ \A x \in Confident(o) \cup Confident(reads) : x \in AxisNames
    BY <2>1 DEF Confident, Names
  <2>4. Barred(o) <=> Barred(reads)
    BY <2>1, <2>3 DEF Barred
  <2>5. Complete(o, score, level) <=> Complete(reads, score, level)
    BY <2>2 DEF Complete
  <2>6. ConvictionLevel(o, score, level) = ConvictionLevel(reads, score, level)
    <3> DEFINE x == ConvictionLevel(o, score, level)
               y == ConvictionLevel(reads, score, level)
    <3>1. (x = "pass") <=> (y = "pass")
      BY <2>2, <2>5, VerdictIs
    <3>2. (x = "pursue") <=> (y = "pursue")
      BY <2>2, <2>4, VerdictIs
    <3>3. (x = "hold") <=> (y = "hold")
      BY <2>2, <2>5, VerdictIs
    <3>4. {x, y} \subseteq {"pass", "pursue", "hold", "gather_more"}
      BY VerdictIs
    <3> HIDE DEF x, y
    <3>5. x = y
      BY <3>1, <3>2, <3>3, <3>4
    <3>6. QED
      BY <3>5 DEF x, y
  <2>7. Verdict(o) = decision.level
    BY <1>1, <2>1, <2>6
  <2>8. QED
    BY <2>7 DEF o
<1>11. decision.level = "gather_more" /\ decision.requests = {} =>
         decision.hard_negative = {} /\ ConfidentPositiveCount(reads) < 2
  <2>1. SUFFICES ASSUME ConvictionLevel(reads, score, level) = "gather_more",
                        EvidenceRequests(reads, score, level) = {}
                 PROVE  Names(reads, "negative") = {} /\ ConfidentPositiveCount(reads) < 2
    BY <1>1
  <2>2. Complete(reads, score, level)
    BY <2>1 DEF EvidenceRequests, Complete
  <2>3. Names(reads, "negative") = {}
    BY <2>1, <2>2, VerdictIs
  <2>4. level # "low"
    BY <2>2 DEF Complete
  <2>5. Barred(reads)
    BY <2>1, <2>3, <2>4, VerdictIs
  <2>6. ~(ConfidentPositiveCount(reads) >= 2)
    BY <2>5, BarIs
  <2>7. ConfidentPositiveCount(reads) \in Nat
    BY ConfidentAreFew DEF ConfidentPositiveCount, Confident
  <2>8. QED
    BY <2>3, <2>6, <2>7
<1> USE DEF Decide
<1>12. decision.level = "pursue" =>
         \A a \in AxisNames : /\ reads[a].stance # "negative"
                              /\ reads[a].stance # "positive" => Verdict(Forget(a)) = "pursue"
                              /\ reads[a].stance = "unknown" =>
                                   \A r \in Reading : r.stance = "positive"
                                     => Verdict([reads EXCEPT ![a] = r]) = "pursue"
  <2> HIDE DEF Decide
  <2>1. QED
    BY <1>5
<1>13. \A a \in AxisNames : /\ Verdict(Forget(a)) # "pass"
                            /\ reads[a].stance = "positive"
                                 /\ Verdict([reads EXCEPT ![a].confidence = -1]) = "pursue"
                                   => Verdict(Forget(a)) = "pursue"
  <2> HIDE DEF Decide
  <2>1. QED
    BY <1>6, <1>7
<1>14. \A a, b \in AxisNames : Verdict([reads EXCEPT ![a] = reads[b], ![b] = reads[a]]) = decision.level
  BY <1>10
<1>15. QED
  BY <1>8, <1>9, <1>11, <1>12, <1>13, <1>14 DEF ConvictionIsCautious
-----------------------------------------------------------------------------
(* The two reads of a founder.                                             *)
GradedObservation ==
  [factor : FounderFactors, tier : Tiers, grade : {"self_asserted", "corroborated", "outcome_backed"},
   known : BOOLEAN, evidenced : BOOLEAN]
Weights == [FounderFactors -> 0..18]

LEMMA WeightsAre ==
  /\ BuilderWeights \in Weights /\ FundabilityWeights \in Weights
  /\ \A f \in Context : BuilderWeights[f] = 0
  /\ \A f \in DOMAIN Positive : BuilderWeights[f] = Positive[f]
<1>1. \A f \in FounderFactors : f \in DOMAIN Positive \/ f \in DOMAIN Negative \/ f \in Context
  BY DEF FounderFactors
<1>2. \A f \in FounderFactors :
        /\ f \in DOMAIN Positive => BuilderWeights[f] = Positive[f]
        /\ f \in DOMAIN Negative => BuilderWeights[f] = Negative[f]
        /\ f \in Context => BuilderWeights[f] = 0
  BY FactorsOfFounders DEF BuilderWeights
<1>3. \A f \in FounderFactors : BuilderWeights[f] \in 0..18
  BY <1>1, <1>2, FactorsOfFounders
<1>4. BuilderWeights \in Weights
  BY <1>3 DEF BuilderWeights, Weights
<1>5. DOMAIN Positive \subseteq FounderFactors /\ Context \subseteq FounderFactors
  BY DEF FounderFactors
<1>6. FounderFactors = DOMAIN FundabilityWeights
  BY FactorsOfFounders DEF FounderFactors, Context, FundabilityWeights
<1>7. \A f \in DOMAIN FundabilityWeights : FundabilityWeights[f] \in 0..18
  BY DEF FundabilityWeights
<1>8. FundabilityWeights = [f \in DOMAIN FundabilityWeights |-> FundabilityWeights[f]]
  BY DEF FundabilityWeights
<1>9. FundabilityWeights \in Weights
  BY <1>6, <1>7, <1>8 DEF Weights
<1>10. QED
  BY <1>2, <1>4, <1>5, <1>9

LEMMA GradedIs ==
  ASSUME NEW o \in GradedObservation, NEW w \in Weights
  PROVE  /\ GradedContribution(o, w) \in Int
         /\ o.factor \notin DOMAIN Negative => GradedContribution(o, w) >= 0
         /\ o.factor \in DOMAIN Negative => GradedContribution(o, w) <= 0
         /\ w[o.factor] = 0 => GradedContribution(o, w) = 0
         /\ ~o.known \/ (o.factor \in DOMAIN Negative /\ ~o.evidenced) => GradedContribution(o, w) = 0
         /\ o.grade = "self_asserted" /\ o.factor \notin DOMAIN Negative
              => GradedContribution(o, w) <= 30 * w[o.factor]
<1> DEFINE weight == w[o.factor]
           halves == Halves[o.tier]
           tenths == Grade[o.grade]
           magnitude == 5 * weight * halves * tenths
           nothing == ~o.known \/ (o.factor \in DOMAIN Negative /\ ~o.evidenced)
<1>1. weight \in 0..18 /\ halves \in {0, 1, 2} /\ tenths \in {3, 6, 10}
      /\ (o.grade = "self_asserted" => tenths = 3)
  <2>1. weight \in 0..18
    BY DEF GradedObservation, Weights
  <2>2. halves \in {0, 1, 2}
    BY DEF GradedObservation, Tiers, Halves
  <2>3. tenths \in {3, 6, 10} /\ (o.grade = "self_asserted" => tenths = 3)
    BY DEF GradedObservation, Grade
  <2>4. QED
    BY <2>1, <2>2, <2>3
<1>2. GradedContribution(o, w) = IF nothing THEN 0
                                 ELSE IF o.factor \in DOMAIN Negative THEN -magnitude ELSE magnitude
  BY DEF GradedContribution
<1>3. magnitude \in Nat /\ (weight = 0 => magnitude = 0) /\ (tenths = 3 => magnitude <= 30 * weight)
  <2> HIDE DEF weight, halves, tenths
  <2>1. \A k \in {0, 1, 2}, t \in {3, 6, 10} : halves = k /\ tenths = t => magnitude = 5 * weight * k * t
    OBVIOUS
  <2>2. ASSUME NEW k \in {0, 1, 2}, NEW t \in {3, 6, 10}
        PROVE  /\ 5 * weight * k * t \in Nat /\ (weight = 0 => 5 * weight * k * t = 0)
               /\ (t = 3 => 5 * weight * k * t <= 30 * weight)
    <3>1. CASE k = 0
      BY <1>1, <3>1
    <3>2. CASE k = 1
      BY <1>1, <3>2
    <3>3. CASE k = 2
      BY <1>1, <3>3
    <3>4. QED
      BY <3>1, <3>2, <3>3
  <2> HIDE DEF magnitude
  <2>3. QED
    BY <1>1, <2>1, <2>2
<1> HIDE DEF weight, halves, tenths, magnitude, nothing
<1>4. QED
  BY <1>1, <1>2, <1>3 DEF weight, nothing

LEMMA GradesAreOrdered ==
  ASSUME NEW o \in GradedObservation, o.factor \notin DOMAIN Negative, NEW w \in Weights,
         NEW g \in 1..3, NEW h \in 1..3, g <= h
  PROVE  /\ [o EXCEPT !.grade = Grades[g]] \in GradedObservation
         /\ GradedContribution([o EXCEPT !.grade = Grades[g]], w)
              <= GradedContribution([o EXCEPT !.grade = Grades[h]], w)
<1> DEFINE As(k) == [o EXCEPT !.grade = Grades[k]]
           base == 5 * w[o.factor] * Halves[o.tier]
<1>0. /\ Grades[1] = "self_asserted" /\ Grades[2] = "corroborated" /\ Grades[3] = "outcome_backed"
      /\ Grade["self_asserted"] = 3 /\ Grade["corroborated"] = 6 /\ Grade["outcome_backed"] = 10
  BY DEF Grades, Grade
<1>1. \A k \in 1..3 : Grades[k] \in {"self_asserted", "corroborated", "outcome_backed"}
                      /\ Grade[Grades[k]] \in {3, 6, 10}
  BY <1>0
<1>2. Grade[Grades[g]] <= Grade[Grades[h]]
  BY <1>0
<1>3. base \in Nat
  <2>1. w[o.factor] \in 0..18 /\ Halves[o.tier] \in {0, 1, 2}
    <3>1. w[o.factor] \in 0..18
      BY DEF GradedObservation, Weights
    <3>2. Halves[o.tier] \in {0, 1, 2}
      BY DEF GradedObservation, Tiers, Halves
    <3>3. QED
      BY <3>1, <3>2
  <2> DEFINE a == w[o.factor]
             b == Halves[o.tier]
  <2> HIDE DEF a, b
  <2>2. 5 * a * b \in Nat
    BY <2>1 DEF a, b
  <2>3. QED
    BY <2>2 DEF a, b
<1> HIDE DEF Grades, Grade
<1>4. ASSUME NEW k \in 1..3
      PROVE  /\ As(k) \in GradedObservation
             /\ GradedContribution(As(k), w) = IF ~o.known THEN 0 ELSE base * Grade[Grades[k]]
  <2>1. /\ As(k) \in GradedObservation /\ As(k).grade = Grades[k] /\ As(k).factor = o.factor
        /\ As(k).tier = o.tier /\ As(k).known = o.known
    BY <1>1 DEF GradedObservation
  <2> HIDE DEF As
  <2>2. QED
    BY <2>1 DEF GradedContribution
<1>5. base * Grade[Grades[g]] <= base * Grade[Grades[h]]
  <2> DEFINE x == Grade[Grades[g]]
             y == Grade[Grades[h]]
  <2>1. x \in Nat /\ y \in Nat /\ x <= y
    BY <1>1, <1>2
  <2> HIDE DEF x, y, base
  <2>2. x * base <= y * base
    BY <1>3, <2>1, ProductsGrow
  <2>3. x * base = base * x /\ y * base = base * y
    BY <1>3, <2>1
  <2>4. QED
    BY <2>2, <2>3 DEF x, y
<1> HIDE DEF As, base
<1>6. GradedContribution(As(g), w) <= GradedContribution(As(h), w) /\ As(g) \in GradedObservation
  BY <1>4, <1>5
<1>7. QED
  BY <1>6 DEF As

Merits(o, w) == [i \in DOMAIN o |-> GradedContribution(o[i], w)]
Merit(o, w) == SumFunctionOnSet(Merits(o, w), DOMAIN o)

LEMMA HundredthsGrow ==
  ASSUME NEW m \in Int, NEW n \in Int, m <= n
  PROVE  /\ Hundredths(m) <= Hundredths(n)
         /\ Hundredths(n) \in Int /\ 0 <= Hundredths(n) /\ Hundredths(n) <= 10000
         /\ 0 <= n /\ n <= 10000 => Hundredths(n) = n
         /\ n >= 5000 => Hundredths(n) >= 5000
<1>1. \A k \in Int : Hundredths(k) = IF k < 0 THEN 0 ELSE IF k > 10000 THEN 10000 ELSE k
  <2>1. SUFFICES ASSUME NEW k \in Int
                 PROVE  Hundredths(k) = IF k < 0 THEN 0 ELSE IF k > 10000 THEN 10000 ELSE k
    OBVIOUS
  <2>2. Min({10000, k}) = IF 10000 <= k THEN 10000 ELSE k
    BY GreaterOfTwo
  <2>3. Max({0, Min({10000, k})}) = IF 0 >= Min({10000, k}) THEN 0 ELSE Min({10000, k})
    BY <2>2, GreaterOfTwo
  <2>4. QED
    BY <2>2, <2>3 DEF Hundredths
<1>2. /\ Hundredths(m) = IF m < 0 THEN 0 ELSE IF m > 10000 THEN 10000 ELSE m
      /\ Hundredths(n) = IF n < 0 THEN 0 ELSE IF n > 10000 THEN 10000 ELSE n
  BY <1>1
<1> DEFINE x == Hundredths(m)
           y == Hundredths(n)
<1>3. /\ x = IF m < 0 THEN 0 ELSE IF m > 10000 THEN 10000 ELSE m
      /\ y = IF n < 0 THEN 0 ELSE IF n > 10000 THEN 10000 ELSE n
  BY <1>2
<1> HIDE DEF x, y
<1>4. /\ x <= y /\ y \in Int /\ 0 <= y /\ y <= 10000
      /\ 0 <= n /\ n <= 10000 => y = n
      /\ n >= 5000 => y >= 5000
  BY <1>3
<1>5. QED
  BY <1>4 DEF x, y

LEMMA MeritIs ==
  ASSUME NEW D, IsFiniteSet(D), NEW o \in [D -> GradedObservation], NEW w \in Weights
  PROVE  /\ DOMAIN Merits(o, w) = D /\ \A i \in D : Merits(o, w)[i] = GradedContribution(o[i], w)
         /\ \A i \in D : Merits(o, w)[i] \in Int
         /\ Merit(o, w) = SumFunctionOnSet(Merits(o, w), D) /\ Merit(o, w) \in Int
<1>1. /\ DOMAIN Merits(o, w) = D /\ \A i \in D : Merits(o, w)[i] = GradedContribution(o[i], w)
  BY DEF Merits
<1>2. \A i \in D : Merits(o, w)[i] \in Int
  BY <1>1, GradedIs
<1>3. Merit(o, w) = SumFunctionOnSet(Merits(o, w), D)
  BY DEF Merit
<1>4. QED
  BY <1>1, <1>2, <1>3, SumTakesOne

LEMMA FounderReadIs ==
  ASSUME NEW D, IsFiniteSet(D), NEW o \in [D -> GradedObservation], NEW w \in Weights, NEW kind
  PROVE  /\ FounderRead(kind, w, o)
              = [kind |-> kind, score |-> Hundredths(5000 + Merit(o, w)),
                 band |-> FounderBand(Hundredths(5000 + Merit(o, w)) \div 100),
                 counted |-> {o[i].factor : i \in {j \in D : GradedContribution(o[j], w) # 0}}]
         /\ FounderRead(kind, w, o).score = Hundredths(5000 + Merit(o, w))
         /\ FounderRead(kind, w, o).band = FounderBand(Hundredths(5000 + Merit(o, w)) \div 100)
<1>1. DOMAIN Merits(o, w) = DOMAIN o /\ DOMAIN o = D
  BY DEF Merits
<1>2. SumFunction([i \in DOMAIN o |-> GradedContribution(o[i], w)]) = Merit(o, w)
  BY <1>1 DEF SumFunction, Merit, Merits
<1> DEFINE S == SumFunction([i \in DOMAIN o |-> GradedContribution(o[i], w)])
           counted == {o[i].factor : i \in {j \in DOMAIN o : GradedContribution(o[j], w) # 0}}
<1>5. FounderRead(kind, w, o)
        = [kind |-> kind, score |-> Hundredths(5000 + S),
           band |-> FounderBand(Hundredths(5000 + S) \div 100), counted |-> counted]
  BY DEF FounderRead
<1>6. S = Merit(o, w)
  BY <1>2
<1>7. counted = {o[i].factor : i \in {j \in D : GradedContribution(o[j], w) # 0}}
  BY <1>1
<1> HIDE DEF S, counted
<1>3. FounderRead(kind, w, o)
        = [kind |-> kind, score |-> Hundredths(5000 + Merit(o, w)),
           band |-> FounderBand(Hundredths(5000 + Merit(o, w)) \div 100),
           counted |-> {o[i].factor : i \in {j \in D : GradedContribution(o[j], w) # 0}}]
  BY <1>5, <1>6, <1>7
<1>4. QED
  BY <1>3

(* Observations that contribute nothing may be left out.                   *)
LEMMA ReadKeeps ==
  ASSUME NEW D, IsFiniteSet(D), NEW o \in [D -> GradedObservation], NEW w \in Weights, NEW kind,
         NEW K \in SUBSET D, \A i \in D \ K : GradedContribution(o[i], w) = 0
  PROVE  FounderRead(kind, w, Restrict(o, K)) = FounderRead(kind, w, o)
<1> DEFINE r == Restrict(o, K)
<1>0. IsFiniteSet(K)
  BY FS_Subset
<1>1. r \in [K -> GradedObservation] /\ \A i \in K : r[i] = o[i]
  BY DEF Restrict
<1> HIDE DEF r
<1>2. Merit(o, w) = Merit(r, w)
  <2>1. \A i \in D \ K : Merits(o, w)[i] = 0
    BY MeritIs
  <2>2. SumFunctionOnSet(Merits(o, w), D) = SumFunctionOnSet(Merits(o, w), K)
    <3>1. \A i \in D : Merits(o, w)[i] \in Int
      BY MeritIs
    <3>2. QED
      BY <2>1, <3>1, SumSkipsZero
  <2>3. \A i \in K : Merits(o, w)[i] \in Int /\ Merits(o, w)[i] = Merits(r, w)[i]
    <3>1. \A i \in K : Merits(o, w)[i] \in Int /\ Merits(o, w)[i] = GradedContribution(o[i], w)
      BY MeritIs
    <3>2. \A i \in K : Merits(r, w)[i] = GradedContribution(r[i], w)
      BY <1>0, <1>1, MeritIs
    <3>3. QED
      BY <1>1, <3>1, <3>2
  <2>4. SumFunctionOnSet(Merits(o, w), K) = SumFunctionOnSet(Merits(r, w), K)
    BY <1>0, <2>3, SumsSame
  <2>5. Merit(o, w) = SumFunctionOnSet(Merits(o, w), D)
    BY MeritIs
  <2>6. Merit(r, w) = SumFunctionOnSet(Merits(r, w), K)
    BY <1>0, <1>1, MeritIs
  <2>7. QED
    BY <2>2, <2>4, <2>5, <2>6
<1>3. {o[i].factor : i \in {j \in D : GradedContribution(o[j], w) # 0}}
        = {r[i].factor : i \in {j \in K : GradedContribution(r[j], w) # 0}}
  <2>1. \A j : (j \in D /\ GradedContribution(o[j], w) # 0) <=> (j \in K /\ GradedContribution(r[j], w) # 0)
    BY <1>1
  <2>2. {j \in D : GradedContribution(o[j], w) # 0} = {j \in K : GradedContribution(r[j], w) # 0}
    BY <2>1
  <2>3. \A j \in {j \in K : GradedContribution(r[j], w) # 0} : r[j].factor = o[j].factor
    BY <1>1
  <2>4. QED
    BY <2>2, <2>3
<1>4. FounderRead(kind, w, r)
        = [kind |-> kind, score |-> Hundredths(5000 + Merit(r, w)),
           band |-> FounderBand(Hundredths(5000 + Merit(r, w)) \div 100),
           counted |-> {r[i].factor : i \in {j \in K : GradedContribution(r[j], w) # 0}}]
  BY <1>0, <1>1, FounderReadIs
<1>5. FounderRead(kind, w, r) = FounderRead(kind, w, o)
  BY <1>2, <1>3, <1>4, FounderReadIs
<1>6. QED
  BY <1>5 DEF r

(* A sum taken at distinct places is at most the sum over all of them.     *)
LEMMA SumsOfDistinct ==
  ASSUME NEW F, IsFiniteSet(F), NEW v, \A x \in F : v[x] \in Nat,
         NEW D, IsFiniteSet(D), NEW at \in [D -> F], \A i, j \in D : at[i] = at[j] => i = j
  PROVE  SumFunctionOnSet([i \in D |-> v[at[i]]], D) <= SumFunctionOnSet(v, F)
<1> DEFINE g == [i \in D |-> v[at[i]]]
           To(s) == {at[i] : i \in s}
           Law(s) == SumFunctionOnSet(g, s) = SumFunctionOnSet(v, To(s))
           T == {s \in SUBSET D : Law(s)}
<1>0. \A i \in D : at[i] \in F /\ g[i] = v[at[i]] /\ g[i] \in Int
  OBVIOUS
<1> HIDE DEF g
<1>1. \A s \in SUBSET D : To(s) \subseteq F /\ IsFiniteSet(To(s))
  BY <1>0, FS_Subset
<1>2. ASSUME NEW s \in SUBSET D, \A x \in s : s \ {x} \in T
      PROVE  s \in T
  <2>0. IsFiniteSet(s)
    BY FS_Subset
  <2>1. CASE s = {}
    <3>1. To(s) = {}
      BY <2>1
    <3>2. QED
      BY <2>1, <3>1, SumOfNone
  <2>2. CASE s # {}
    <3>1. PICK x \in s : TRUE
      BY <2>2
    <3>2. SumFunctionOnSet(g, s) = g[x] + SumFunctionOnSet(g, s \ {x})
      BY <1>0, <2>0, SumTakesOne
    <3>3. at[x] \in To(s) /\ To(s) \ {at[x]} = To(s \ {x})
      OBVIOUS
    <3>4. SumFunctionOnSet(v, To(s)) = v[at[x]] + SumFunctionOnSet(v, To(s) \ {at[x]})
      <4>1. \A y \in To(s) : v[y] \in Int
        BY <1>1
      <4> HIDE DEF To
      <4>2. QED
        BY <1>1, <3>3, <4>1, SumTakesOne
    <3>5. SumFunctionOnSet(g, s \ {x}) = SumFunctionOnSet(v, To(s \ {x}))
      BY <1>2
    <3>6. g[x] = v[at[x]]
      BY <1>0
    <3>7. Law(s)
      <4> HIDE DEF To
      <4>1. QED
        BY <3>2, <3>3, <3>4, <3>5, <3>6
    <3>8. QED
      BY <3>7
  <2>3. QED
    BY <2>1, <2>2
<1>3. D \in T
  <2> HIDE DEF T
  <2>1. \A s \in SUBSET D : (\A x \in s : s \ {x} \in T) => s \in T
    BY <1>2
  <2>2. QED
    BY <2>1, SubsetInduction
<1>4. SumFunctionOnSet(v, To(D)) <= SumFunctionOnSet(v, F)
  <2> DEFINE R == To(D)
             u == [x \in F |-> IF x \in R THEN v[x] ELSE 0]
  <2>1. R \subseteq F /\ IsFiniteSet(R)
    BY <1>1
  <2> HIDE DEF R
  <2>2. /\ \A x \in F : u[x] \in Int /\ v[x] \in Int /\ u[x] <= v[x]
        /\ \A x \in F \ R : u[x] = 0
        /\ \A x \in R : u[x] \in Int /\ u[x] = v[x]
    BY <2>1
  <2> HIDE DEF u
  <2>3. SumFunctionOnSet(u, F) <= SumFunctionOnSet(v, F)
    BY <2>2, SumsCompare
  <2>4. SumFunctionOnSet(u, F) = SumFunctionOnSet(u, R)
    BY <2>1, <2>2, SumSkipsZero
  <2>5. SumFunctionOnSet(u, R) = SumFunctionOnSet(v, R)
    BY <2>1, <2>2, SumsSame
  <2>6. QED
    BY <2>3, <2>4, <2>5 DEF R
<1>5. QED
  BY <1>3, <1>4 DEF g

(* A score in hundredths stays within its bounds, and grows with its total. *)
LEMMA HundredthsInBounds ==
  /\ \A n \in Int : Hundredths(n) \in Int /\ 0 <= Hundredths(n)
  /\ \A m, n \in Int : m <= n => Hundredths(m) <= Hundredths(n)
<1>1. ASSUME NEW n \in Int
      PROVE  Hundredths(n) \in Int /\ 0 <= Hundredths(n)
  <2>1. n \in Int /\ n <= n
    OBVIOUS
  <2>2. QED
    BY <2>1, HundredthsGrow
<1>2. ASSUME NEW m \in Int, NEW n \in Int, m <= n
      PROVE  Hundredths(m) <= Hundredths(n)
  BY <1>2, HundredthsGrow
<1>3. QED
  BY <1>1, <1>2

(* All that one's own word is worth: three tenths of every positive weight. *)
Boasted == [f \in FounderFactors |-> IF f \in DOMAIN Positive THEN 30 * Positive[f] ELSE 0]

LEMMA BoastedIs ==
  /\ \A f \in FounderFactors : Boasted[f] \in Nat
  /\ \A f \in DOMAIN Positive : Boasted[f] = 30 * Positive[f]
  /\ \A f \in FounderFactors \ DOMAIN Positive : Boasted[f] = 0
  /\ SumFunctionOnSet(Boasted, FounderFactors) = 2040
<1>0. \A f \in FounderFactors : Boasted[f] = IF f \in DOMAIN Positive THEN 30 * Positive[f] ELSE 0
  BY DEF Boasted
<1>1. DOMAIN Positive \subseteq FounderFactors
  BY DEF FounderFactors
<1>2. \A f \in DOMAIN Positive : Positive[f] \in Nat
  BY FactorsOfFounders
<1>3. /\ \A f \in FounderFactors : Boasted[f] \in Nat
      /\ \A f \in DOMAIN Positive : Boasted[f] = 30 * Positive[f]
      /\ \A f \in FounderFactors \ DOMAIN Positive : Boasted[f] = 0
  BY <1>0, <1>1, <1>2
<1>4. /\ Positive["shipped_adopted_work"] = 18 /\ Positive["corroborated_domain_experience"] = 12
      /\ Positive["sustained_follow_through"] = 12 /\ Positive["peer_validated_recognition"] = 10
      /\ Positive["work_product_quality"] = 10 /\ Positive["public_writing_depth"] = 6
  BY DEF Positive, CostlyPositive
<1>5. SumFunctionOnSet(Boasted, DOMAIN Positive) = 2040
  <2> DEFINE S1 == DOMAIN Positive
             S2 == S1 \ {"shipped_adopted_work"}
             S3 == S2 \ {"corroborated_domain_experience"}
             S4 == S3 \ {"sustained_follow_through"}
             S5 == S4 \ {"peer_validated_recognition"}
             S6 == S5 \ {"work_product_quality"}
             S7 == S6 \ {"public_writing_depth"}
             Sum(s) == SumFunctionOnSet(Boasted, s)
  <2>1. /\ "shipped_adopted_work" \in S1 /\ "corroborated_domain_experience" \in S2
        /\ "sustained_follow_through" \in S3 /\ "peer_validated_recognition" \in S4
        /\ "work_product_quality" \in S5 /\ "public_writing_depth" \in S6 /\ S7 = {}
    BY FactorsOfFounders
  <2>2. \A s \in SUBSET DOMAIN Positive :
          IsFiniteSet(s) /\ \A x \in s : Boasted[x] \in Int /\ Boasted[x] = 30 * Positive[x]
    <3>1. SUFFICES ASSUME NEW s \in SUBSET DOMAIN Positive
                   PROVE  IsFiniteSet(s) /\ \A x \in s : Boasted[x] \in Int /\ Boasted[x] = 30 * Positive[x]
      OBVIOUS
    <3>2. IsFiniteSet(s)
      BY <1>1, FiniteFactors, FS_Subset
    <3>3. QED
      BY <1>1, <1>3, <3>2
  <2>3. \A s \in SUBSET DOMAIN Positive : /\ Sum(s) \in Int
                                          /\ \A x \in s : Sum(s) = 30 * Positive[x] + Sum(s \ {x})
    <3>1. SUFFICES ASSUME NEW s \in SUBSET DOMAIN Positive
                   PROVE  Sum(s) \in Int /\ \A x \in s : Sum(s) = 30 * Positive[x] + Sum(s \ {x})
      OBVIOUS
    <3>2. Sum(s) \in Int /\ \A x \in s : Sum(s) = Boasted[x] + Sum(s \ {x})
      BY <2>2, SumTakesOne
    <3>3. QED
      BY <2>2, <3>2
  <2>4. Sum(S7) = 0
    BY <2>1, SumOfNone
  <2>5. \A k \in {S1, S2, S3, S4, S5, S6, S7} : k \in SUBSET DOMAIN Positive
    OBVIOUS
  <2> HIDE DEF Sum
  <2>6. /\ Sum(S1) = 30 * 18 + Sum(S2)
        /\ Sum(S2) = 30 * 12 + Sum(S3)
        /\ Sum(S3) = 30 * 12 + Sum(S4)
        /\ Sum(S4) = 30 * 10 + Sum(S5)
        /\ Sum(S5) = 30 * 10 + Sum(S6)
        /\ Sum(S6) = 30 * 6 + Sum(S7)
    BY <1>4, <2>1, <2>3, <2>5
  <2>7. Sum(S1) = 2040
    BY <2>3, <2>4, <2>5, <2>6
  <2>8. QED
    BY <2>7 DEF Sum
<1>6. SumFunctionOnSet(Boasted, FounderFactors) = SumFunctionOnSet(Boasted, DOMAIN Positive)
  BY <1>1, <1>3, FiniteFactors, SumSkipsZero
<1>7. QED
  BY <1>3, <1>5, <1>6

(* Merits that are each at least as large make a score at least as high.   *)
LEMMA ScoresCompare ==
  ASSUME NEW D, IsFiniteSet(D), NEW w \in Weights, NEW kind,
         NEW o \in [D -> GradedObservation], NEW p \in [D -> GradedObservation],
         \A i \in D : GradedContribution(o[i], w) <= GradedContribution(p[i], w)
  PROVE  FounderRead(kind, w, o).score <= FounderRead(kind, w, p).score
<1>1. \A i \in D : /\ Merits(o, w)[i] \in Int /\ Merits(p, w)[i] \in Int
                   /\ Merits(o, w)[i] <= Merits(p, w)[i]
  <2>1. \A i \in D : Merits(o, w)[i] = GradedContribution(o[i], w) /\ Merits(o, w)[i] \in Int
    BY MeritIs
  <2>2. \A i \in D : Merits(p, w)[i] = GradedContribution(p[i], w) /\ Merits(p, w)[i] \in Int
    BY MeritIs
  <2>3. QED
    BY <2>1, <2>2
<1>2. SumFunctionOnSet(Merits(o, w), D) <= SumFunctionOnSet(Merits(p, w), D)
  BY <1>1, SumsCompare
<1>3. /\ Merit(o, w) = SumFunctionOnSet(Merits(o, w), D) /\ Merit(o, w) \in Int
      /\ Merit(p, w) = SumFunctionOnSet(Merits(p, w), D) /\ Merit(p, w) \in Int
  BY MeritIs
<1>4. Hundredths(5000 + Merit(o, w)) <= Hundredths(5000 + Merit(p, w))
  <2> DEFINE a == 5000 + Merit(o, w)
             b == 5000 + Merit(p, w)
  <2>1. a \in Int /\ b \in Int /\ a <= b
    BY <1>2, <1>3
  <2> HIDE DEF a, b
  <2>2. Hundredths(a) <= Hundredths(b)
    BY <2>1, HundredthsInBounds
  <2>3. QED
    BY <2>2 DEF a, b
<1>5. QED
  BY <1>4, FounderReadIs

(* A founder against whom nothing known and evidenced stands is never read *)
(* below the baseline.                                                     *)
LEMMA UnaccusedAreNotLowered ==
  ASSUME NEW D, IsFiniteSet(D), NEW o \in [D -> GradedObservation], NEW w \in Weights, NEW kind,
         \A i \in D : o[i].factor \in DOMAIN Negative => ~o[i].known \/ ~o[i].evidenced
  PROVE  FounderRead(kind, w, o).score >= 5000
<1>1. \A i \in D : GradedContribution(o[i], w) >= 0
  <2>1. SUFFICES ASSUME NEW i \in D
                 PROVE  GradedContribution(o[i], w) >= 0
    OBVIOUS
  <2>2. CASE o[i].factor \in DOMAIN Negative
    <3>1. GradedContribution(o[i], w) = 0
      BY <2>2, GradedIs
    <3>2. QED
      BY <3>1
  <2>3. CASE o[i].factor \notin DOMAIN Negative
    BY <2>3, GradedIs
  <2>4. QED
    BY <2>2, <2>3
<1> DEFINE z == [i \in D |-> 0]
<1>2. SumFunctionOnSet(z, D) <= SumFunctionOnSet(Merits(o, w), D)
  <2>1. \A i \in D : Merits(o, w)[i] = GradedContribution(o[i], w) /\ Merits(o, w)[i] \in Int
    BY MeritIs
  <2>2. \A i \in D : z[i] \in Int /\ Merits(o, w)[i] \in Int /\ z[i] <= Merits(o, w)[i]
    BY <1>1, <2>1
  <2>3. QED
    BY <2>2, SumsCompare
<1>3. SumFunctionOnSet(z, D) = 0
  <2>1. \A i \in D : z[i] = 0
    OBVIOUS
  <2>2. QED
    BY <2>1, SumOfZeros
<1>4. Merit(o, w) \in Int /\ Merit(o, w) >= 0
  BY <1>2, <1>3, MeritIs
<1>5. Hundredths(5000 + Merit(o, w)) >= 5000
  <2>1. 5000 + Merit(o, w) \in Int /\ 5000 + Merit(o, w) >= 5000
    BY <1>4
  <2>2. QED
    BY <2>1, HundredthsGrow
<1>6. QED
  BY <1>5, FounderReadIs

(* One's own word alone never makes a strong builder.                      *)
LEMMA WordsAreNotWork ==
  ASSUME NEW D, IsFiniteSet(D), NEW o \in [D -> GradedObservation],
         \A i, j \in D : o[i].factor = o[j].factor => i = j,
         \A i \in D : o[i].grade = "self_asserted"
  PROVE  BuilderSignalRead(o).band # "strong"
<1> DEFINE w == BuilderWeights
           at == [i \in D |-> o[i].factor]
           u == [i \in D |-> Boasted[at[i]]]
<1>0. w \in Weights
  BY WeightsAre
<1>1. at \in [D -> FounderFactors] /\ \A i, j \in D : at[i] = at[j] => i = j
  BY DEF GradedObservation
<1>2. \A i \in D : at[i] = o[i].factor /\ u[i] = Boasted[at[i]]
  OBVIOUS
<1>3. SumFunctionOnSet(u, D) <= SumFunctionOnSet(Boasted, FounderFactors)
  <2> HIDE DEF at
  <2>1. QED
    BY <1>1, FiniteFactors, BoastedIs, SumsOfDistinct
<1> HIDE DEF at, u, w
<1>4. \A i \in D : GradedContribution(o[i], w) <= u[i] /\ u[i] \in Int
  <2>1. SUFFICES ASSUME NEW i \in D
                 PROVE  GradedContribution(o[i], w) <= u[i] /\ u[i] \in Int
    OBVIOUS
  <2> DEFINE f == o[i].factor
  <2>2. f \in FounderFactors /\ u[i] = Boasted[f] /\ u[i] \in Nat
    BY <1>1, <1>2, BoastedIs
  <2>3. /\ GradedContribution(o[i], w) \in Int
        /\ f \in DOMAIN Negative => GradedContribution(o[i], w) <= 0
        /\ w[f] = 0 => GradedContribution(o[i], w) = 0
        /\ f \notin DOMAIN Negative => GradedContribution(o[i], w) <= 30 * w[f]
    BY <1>0, GradedIs
  <2> HIDE DEF f
  <2>4. CASE f \in DOMAIN Negative
    BY <2>2, <2>3, <2>4
  <2>5. CASE f \in Context
    <3>1. w[f] = 0
      BY <2>5, WeightsAre DEF w
    <3>2. QED
      BY <2>2, <2>3, <3>1
  <2>6. CASE f \in DOMAIN Positive
    <3>1. w[f] = Positive[f] /\ f \notin DOMAIN Negative
      BY <2>6, WeightsAre, FactorsOfFounders DEF w
    <3>2. u[i] = 30 * Positive[f]
      BY <2>2, <2>6, BoastedIs
    <3>3. QED
      BY <2>2, <2>3, <3>1, <3>2
  <2>7. QED
    BY <2>2, <2>4, <2>5, <2>6 DEF FounderFactors
<1>5. SumFunctionOnSet(Merits(o, w), D) <= SumFunctionOnSet(u, D)
  <2>1. \A i \in D : Merits(o, w)[i] = GradedContribution(o[i], w) /\ Merits(o, w)[i] \in Int
    BY <1>0, MeritIs
  <2>2. \A i \in D : Merits(o, w)[i] \in Int /\ u[i] \in Int /\ Merits(o, w)[i] <= u[i]
    BY <1>4, <2>1
  <2>3. QED
    BY <2>2, SumsCompare
<1>6. Merit(o, w) \in Int /\ Merit(o, w) <= 2040
  <2>1. Merit(o, w) = SumFunctionOnSet(Merits(o, w), D) /\ Merit(o, w) \in Int
    BY <1>0, MeritIs
  <2>2. SumFunctionOnSet(u, D) \in Int
    BY <1>4, SumTakesOne
  <2>3. QED
    BY <1>3, <1>5, <2>1, <2>2, BoastedIs
<1> DEFINE s == Hundredths(5000 + Merit(o, w))
<1>7. s \in Int /\ s >= 0 /\ s <= 7040
  <2>1. 5000 + Merit(o, w) \in Int /\ 7040 \in Int /\ 5000 + Merit(o, w) <= 7040
    BY <1>6
  <2>2. s <= Hundredths(7040) /\ Hundredths(7040) = 7040
    BY <2>1, HundredthsGrow
  <2>3. s \in Int /\ 0 <= s
    <3> DEFINE a == 5000 + Merit(o, w)
    <3>1. a \in Int /\ a <= a
      BY <1>6
    <3> HIDE DEF a
    <3>2. Hundredths(a) \in Int /\ 0 <= Hundredths(a)
      BY <3>1, HundredthsInBounds
    <3>3. QED
      BY <3>2 DEF a, s
  <2> HIDE DEF s
  <2>4. QED
    BY <2>2, <2>3
<1>8. FounderBand(s \div 100) # "strong"
  <2> HIDE DEF s
  <2> DEFINE b == s \div 100
  <2>1. b \in 0..70
    BY <1>7
  <2> HIDE DEF b
  <2>2. FounderBand(b) # "strong"
    BY <2>1 DEF FounderBand
  <2>3. QED
    BY <2>2 DEF b
<1>9. BuilderSignalRead(o).band = FounderBand(s \div 100)
  BY <1>0, FounderReadIs DEF BuilderSignalRead, w
<1>10. QED
  BY <1>8, <1>9

LEMMA ReadsHold ==
  ASSUME NEW observations \in Seq(GradedObservation), IndexObservations(observations)
  PROVE  ReadsAreEarned(observations)
<1> DEFINE D == DOMAIN observations
           Builder(o) == BuilderSignalRead(o).score
           Fundable(o) == FundabilityRead(o).score
           accused == \E i \in DOMAIN observations :
                        observations[i].factor \in DOMAIN Negative /\ observations[i].known
                          /\ observations[i].evidenced
           Without(factors) ==
             Restrict(observations, {i \in DOMAIN observations : observations[i].factor \notin factors})
           Regrade(i, g) == Regraded(observations, i, Grades[g])
<1>1. IsFiniteSet(D) /\ observations \in [D -> GradedObservation]
  <2>1. D = 1..Len(observations) /\ Len(observations) \in Nat
    OBVIOUS
  <2>2. IsFiniteSet(D)
    BY <2>1, FS_Interval
  <2>3. QED
    BY <2>1, <2>2
<1>2. BuilderWeights \in Weights /\ FundabilityWeights \in Weights
  BY WeightsAre
<1>3. \A i, j \in D : observations[i].factor = observations[j].factor => i = j
  BY DEF IndexObservations
<1>4. \A i \in D : observations[i] \in GradedObservation
  BY <1>1
<1> HIDE DEF D
<1>5. Builder(observations) = Builder(Without(Context))
  <2> DEFINE K == {i \in D : observations[i].factor \notin Context}
  <2>1. \A i \in D \ K : GradedContribution(observations[i], BuilderWeights) = 0
    <3>1. SUFFICES ASSUME NEW i \in D, observations[i].factor \in Context
                   PROVE  GradedContribution(observations[i], BuilderWeights) = 0
      OBVIOUS
    <3>2. BuilderWeights[observations[i].factor] = 0
      BY <3>1, WeightsAre
    <3>3. QED
      BY <1>2, <1>4, <3>2, GradedIs
  <2>2. K \in SUBSET D
    OBVIOUS
  <2> HIDE DEF K
  <2>3. FounderRead("builder_signal", BuilderWeights, Restrict(observations, K))
          = FounderRead("builder_signal", BuilderWeights, observations)
    BY <1>1, <1>2, <2>1, <2>2, ReadKeeps
  <2>4. Without(Context) = Restrict(observations, K)
    BY DEF K, D
  <2>5. QED
    BY <2>3, <2>4 DEF BuilderSignalRead
<1>6. (\A i \in DOMAIN observations : observations[i].grade = "self_asserted") =>
        BuilderSignalRead(observations).band # "strong"
  <2>1. SUFFICES ASSUME \A i \in D : observations[i].grade = "self_asserted"
                 PROVE  BuilderSignalRead(observations).band # "strong"
    BY DEF D
  <2>2. QED
    BY <1>1, <1>3, <2>1, WordsAreNotWork
<1>7. ASSUME NEW i \in D, NEW g \in 1..3, NEW h \in 1..3, g <= h,
             observations[i].factor \notin DOMAIN Negative, NEW w \in Weights, NEW kind
      PROVE  FounderRead(kind, w, Regrade(i, g)).score <= FounderRead(kind, w, Regrade(i, h)).score
  <2> DEFINE o == observations[i]
             As(k) == [o EXCEPT !.grade = Grades[k]]
  <2>1. \A k \in 1..3 : As(k) \in GradedObservation
    <3>1. SUFFICES ASSUME NEW k \in 1..3
                   PROVE  As(k) \in GradedObservation
      OBVIOUS
    <3>2. k <= k /\ o \in GradedObservation /\ o.factor \notin DOMAIN Negative
      BY <1>4, <1>7
    <3> HIDE DEF o
    <3>3. QED
      BY <1>7, <3>2, GradesAreOrdered
  <2>2. GradedContribution(As(g), w) <= GradedContribution(As(h), w)
    <3>1. o \in GradedObservation /\ o.factor \notin DOMAIN Negative
      BY <1>4, <1>7
    <3> HIDE DEF o
    <3>2. QED
      BY <1>7, <3>1, GradesAreOrdered
  <2>3. \A k \in 1..3 : Regrade(i, k) = [observations EXCEPT ![i] = As(k)]
    BY <1>1 DEF Regraded
  <2> HIDE DEF As, o
  <2>4. ASSUME NEW k \in 1..3
        PROVE  /\ Regrade(i, k) \in [D -> GradedObservation] /\ Regrade(i, k)[i] = As(k)
               /\ \A j \in D \ {i} : Regrade(i, k)[j] = observations[j]
    <3>1. Regrade(i, k) = [observations EXCEPT ![i] = As(k)]
      BY <2>3
    <3> HIDE DEF Regrade
    <3>2. QED
      BY <1>1, <2>1, <3>1
  <2> HIDE DEF Regrade
  <2>5. \A j \in D : GradedContribution(Regrade(i, g)[j], w) <= GradedContribution(Regrade(i, h)[j], w)
    <3>1. SUFFICES ASSUME NEW j \in D
                   PROVE  GradedContribution(Regrade(i, g)[j], w) <= GradedContribution(Regrade(i, h)[j], w)
      OBVIOUS
    <3>2. CASE j = i
      BY <1>7, <2>2, <2>4, <3>2
    <3>3. CASE j # i
      <4>1. Regrade(i, g)[j] = observations[j] /\ Regrade(i, h)[j] = observations[j]
        BY <1>7, <2>4, <3>3
      <4>2. GradedContribution(observations[j], w) \in Int
        BY <1>4, <1>7, GradedIs
      <4>3. QED
        BY <4>1, <4>2
    <3>4. QED
      BY <3>2, <3>3
  <2>6. Regrade(i, g) \in [D -> GradedObservation] /\ Regrade(i, h) \in [D -> GradedObservation]
    BY <1>7, <2>4
  <2>7. QED
    BY <1>1, <1>7, <2>5, <2>6, ScoresCompare
<1>8. \A i \in DOMAIN observations, g, h \in 1..3 :
        g <= h /\ observations[i].factor \notin DOMAIN Negative =>
          /\ Builder(Regrade(i, g)) <= Builder(Regrade(i, h))
          /\ Fundable(Regrade(i, g)) <= Fundable(Regrade(i, h))
  <2> HIDE DEF Regrade
  <2>1. SUFFICES ASSUME NEW i \in D, NEW g \in 1..3, NEW h \in 1..3, g <= h,
                        observations[i].factor \notin DOMAIN Negative
                 PROVE  /\ Builder(Regrade(i, g)) <= Builder(Regrade(i, h))
                        /\ Fundable(Regrade(i, g)) <= Fundable(Regrade(i, h))
    BY DEF D
  <2>2. FounderRead("builder_signal", BuilderWeights, Regrade(i, g)).score
          <= FounderRead("builder_signal", BuilderWeights, Regrade(i, h)).score
    BY <1>2, <1>7, <2>1
  <2>3. FounderRead("fundability", FundabilityWeights, Regrade(i, g)).score
          <= FounderRead("fundability", FundabilityWeights, Regrade(i, h)).score
    BY <1>2, <1>7, <2>1
  <2>4. QED
    BY <2>2, <2>3 DEF BuilderSignalRead, FundabilityRead
<1>9. ~accused => Builder(observations) >= 5000 /\ Fundable(observations) >= 5000
  <2>1. SUFFICES ASSUME ~accused
                 PROVE  Builder(observations) >= 5000 /\ Fundable(observations) >= 5000
    OBVIOUS
  <2>2. \A i \in D : observations[i].factor \in DOMAIN Negative
                       => ~observations[i].known \/ ~observations[i].evidenced
    BY <2>1 DEF D
  <2>3. QED
    BY <1>1, <1>2, <2>2, UnaccusedAreNotLowered DEF BuilderSignalRead, FundabilityRead
<1>10. ~accused => BuilderSignalRead(observations) = BuilderSignalRead(Without(DOMAIN Negative))
  <2>1. SUFFICES ASSUME ~accused
                 PROVE  BuilderSignalRead(observations) = BuilderSignalRead(Without(DOMAIN Negative))
    OBVIOUS
  <2> DEFINE K == {i \in D : observations[i].factor \notin DOMAIN Negative}
  <2>2. \A i \in D \ K : GradedContribution(observations[i], BuilderWeights) = 0
    <3>1. SUFFICES ASSUME NEW i \in D, observations[i].factor \in DOMAIN Negative
                   PROVE  GradedContribution(observations[i], BuilderWeights) = 0
      OBVIOUS
    <3>2. ~observations[i].known \/ ~observations[i].evidenced
      BY <2>1, <3>1 DEF D
    <3>3. QED
      BY <1>2, <1>4, <3>1, <3>2, GradedIs
  <2>3. K \in SUBSET D
    OBVIOUS
  <2> HIDE DEF K
  <2>4. FounderRead("builder_signal", BuilderWeights, Restrict(observations, K))
          = FounderRead("builder_signal", BuilderWeights, observations)
    BY <1>1, <1>2, <2>2, <2>3, ReadKeeps
  <2>5. Without(DOMAIN Negative) = Restrict(observations, K)
    BY DEF K, D
  <2>6. QED
    BY <2>4, <2>5 DEF BuilderSignalRead
<1> HIDE DEF Builder, Fundable, accused, Without, Regrade
<1>11. QED
  BY <1>5, <1>6, <1>8, <1>9, <1>10 DEF ReadsAreEarned, Builder, Fundable, accused, Without, Regrade, D

-----------------------------------------------------------------------------
(* The bridge.                                                             *)
LEMMA NothingReadIsUnknown ==
  ASSUME NEW level, NEW points, NEW conflicted
  PROVE  ComputeAxis(<<>>, level, points, conflicted).position = "unknown"
<1>1. Present(<<>>) = {}
  BY DEF Present
<1>2. Cardinality(Present(<<>>)) = 0
  BY <1>1, FS_EmptySet
<1>3. ~HasSufficientSignals(Cardinality(Present(<<>>)), level)
  BY <1>2 DEF HasSufficientSignals
<1>4. Position(<<>>, level) = "unknown"
  BY <1>3 DEF Position
<1>5. QED
  BY <1>4 DEF ComputeAxis

Rated(axis, a) == [rating |-> RatingOf[a][axis.position], trend |-> axis.trend,
                   confidence |-> axis.confidence]
BothReads(b) ==
  [builder |-> BuilderSignalRead(b.founder), fundability |-> FundabilityRead(b.founder),
   gap |-> BuilderFundabilityGap(BuilderSignalRead(b.founder), FundabilityRead(b.founder))]

LEMMA ProjectIs ==
  ASSUME NEW bundle, NEW one
  PROVE  /\ Project(bundle, one).score = FounderScoreOf(bundle, one)
         /\ \A a \in AxisNames : Project(bundle, one).axes[a] = Rated(Assess(bundle, one, a), a)
         /\ FounderScoreOf(bundle, one).known => Project(bundle, one).reads = BothReads(bundle)
         /\ ~FounderScoreOf(bundle, one).known => Project(bundle, one).reads = NoReads
  BY DEF Project, Rated, BothReads

LEMMA BridgeHolds ==
  ASSUME NEW bundle, bundle.conflicted \in BOOLEAN, NEW resolved \in BOOLEAN
  PROVE  BridgeIsCautious(bundle, resolved)
<1> DEFINE identity == [known |-> resolved, id |-> 1]
           view == Project(bundle, identity)
           evaluated == EvaluatePreliminaryCandidate(identity, view.score, view.axes, bundle.level)
           told == \E i \in DOMAIN bundle.founder : bundle.founder[i].known
<1>2. /\ view.score = FounderScoreOf(bundle, identity)
      /\ \A a \in AxisNames : view.axes[a] = Rated(Assess(bundle, identity, a), a)
  BY ProjectIs
<1>3. identity.known = resolved /\ identity.id = 1
  OBVIOUS
<1>4. (KnownFounderSignals(bundle) # {}) <=> told
  BY DEF KnownFounderSignals
<1>5. /\ resolved /\ told => /\ view.score.known = TRUE /\ view.score.founder = 1
                             /\ view.score.provisional =
                                  ScoreFounder(ObservationsOf(bundle), bundle.level, bundle.conflicted).provisional
      /\ ~(resolved /\ told) => view.score.known = FALSE
  <2> HIDE DEF identity, view, told
  <2>1. CASE resolved /\ told
    <3>1. FounderScoreOf(bundle, identity) =
            [known |-> TRUE, founder |-> identity.id,
             score |-> ScoreFounder(ObservationsOf(bundle), bundle.level, bundle.conflicted).score,
             uncertainty |-> ScoreFounder(ObservationsOf(bundle), bundle.level, bundle.conflicted).uncertainty,
             provisional |-> ScoreFounder(ObservationsOf(bundle), bundle.level, bundle.conflicted).provisional]
      BY <1>3, <1>4, <2>1 DEF FounderScoreOf
    <3>2. QED
      BY <1>2, <1>3, <2>1, <3>1
  <2>2. CASE ~(resolved /\ told)
    <3>1. FounderScoreOf(bundle, identity) = UnknownScore
      BY <1>3, <1>4, <2>2 DEF FounderScoreOf
    <3>2. QED
      BY <1>2, <2>2, <3>1 DEF UnknownScore
  <2>3. QED
    BY <2>1, <2>2
<1>6. (view.reads # NoReads) <=> (resolved /\ told)
  <2>1. CASE resolved /\ told
    <3>1. DOMAIN view.reads = {"builder", "fundability", "gap"}
      <4> HIDE DEF identity, told
      <4>1. FounderScoreOf(bundle, identity).known
        BY <1>2, <1>5, <2>1
      <4>2. view.reads = BothReads(bundle)
        BY <4>1, ProjectIs
      <4>4. DOMAIN BothReads(bundle) = {"builder", "fundability", "gap"}
        BY DEF BothReads
      <4> HIDE DEF view
      <4>3. QED
        BY <4>2, <4>4
    <3>2. DOMAIN NoReads = {}
      BY DEF NoReads
    <3>3. QED
      BY <2>1, <3>1, <3>2
  <2>2. CASE ~(resolved /\ told)
    <3> HIDE DEF identity, told
    <3>1. ~FounderScoreOf(bundle, identity).known
      BY <1>2, <1>5, <2>2
    <3>2. view.reads = NoReads
      BY <3>1, ProjectIs
    <3>3. QED
      BY <2>2, <3>2
  <2>3. QED
    BY <2>1, <2>2
<1>7. \A a \in AxisNames : /\ RatingOf[a]["unknown"] = "unknown"
                           /\ StanceOf[a]["unknown"] = "unknown"
  BY DEF AxisNames, RatingOf, FounderRating, MarketRating, IdeaVsMarketRating, StanceOf
<1>8. evaluated.accepted
  <2> DEFINE envelope == AssemblePreliminaryAssessment(identity, view.score, view.axes, bundle.level)
  <2>1. /\ envelope.mode = "preliminary" /\ envelope.readiness = NoChild /\ envelope.memo = NoChild
        /\ envelope.recommendation = NoChild /\ envelope.founder = identity
        /\ envelope.score = view.score
    BY DEF AssemblePreliminaryAssessment
  <2>2. view.score.known => identity.known /\ view.score.founder = identity.id
    <3> HIDE DEF view, told, identity
    <3>1. QED
      BY <1>3, <1>5
  <2> HIDE DEF view, identity, envelope
  <2>3. EnvelopeHolds(envelope)
    BY <2>1, <2>2 DEF EnvelopeHolds
  <2>4. QED
    BY <2>3 DEF EvaluatePreliminaryCandidate, envelope
<1>9. evaluated.conviction.level = "pass" =>
        /\ view.score.known /\ ~bundle.conflicted
        /\ \A a \in AxisNames : bundle.signals[a] # <<>>
  <2> DEFINE reads == AxisReads(view.axes)
  <2>1. SUFFICES ASSUME evaluated.conviction.level = "pass"
                 PROVE  /\ view.score.known /\ ~bundle.conflicted
                        /\ \A a \in AxisNames : bundle.signals[a] # <<>>
    OBVIOUS
  <2>2. ConvictionLevel(reads, view.score, bundle.level) = "pass"
    <3> HIDE DEF view, identity
    <3>1. evaluated.conviction.level = ConvictionLevel(reads, view.score, bundle.level)
      BY DEF EvaluatePreliminaryCandidate, DecideConviction
    <3>2. QED
      BY <2>1, <3>1
  <2>3. Complete(reads, view.score, bundle.level)
    <3> HIDE DEF reads, view
    <3>1. QED
      BY <2>2, VerdictIs
  <2>4. view.score.known /\ ~view.score.provisional /\ Names(reads, "unknown") = {}
    <3> HIDE DEF reads, view
    <3>1. QED
      BY <2>3 DEF Complete
  <2>5. resolved /\ told
    <3> HIDE DEF view, told, identity
    <3>1. QED
      BY <1>5, <2>4
  <2>6. ~bundle.conflicted
    <3> HIDE DEF view, told, identity
    <3>1. ~ScoreFounder(ObservationsOf(bundle), bundle.level, bundle.conflicted).provisional
      BY <1>5, <2>4, <2>5
    <3>2. QED
      BY <3>1 DEF ScoreFounder
  <2>7. \A a \in AxisNames : bundle.signals[a] # <<>>
    <3>1. SUFFICES ASSUME NEW a \in AxisNames, bundle.signals[a] = <<>>
                   PROVE  FALSE
      OBVIOUS
    <3>2. Assess(bundle, identity, a) = ComputeAxis(<<>>, bundle.level, bundle.points[a], bundle.conflicted)
      BY <1>3, <2>5, <3>1 DEF Assess
    <3>3. Assess(bundle, identity, a).position = "unknown"
      BY <3>2, NothingReadIsUnknown
    <3>4. view.axes[a].rating = "unknown"
      <4> HIDE DEF view, identity
      <4>1. view.axes[a] = Rated(Assess(bundle, identity, a), a)
        BY <1>2
      <4>2. view.axes[a].rating = RatingOf[a][Assess(bundle, identity, a).position]
        BY <4>1 DEF Rated
      <4>3. QED
        BY <1>7, <3>3, <4>2
    <3>5. reads[a].stance = "unknown"
      <4> HIDE DEF view
      <4>1. reads[a].stance = StanceOf[a][view.axes[a].rating]
        BY DEF AxisReads
      <4>2. QED
        BY <1>7, <3>4, <4>1
    <3>6. a \in Names(reads, "unknown")
      <4> HIDE DEF reads
      <4>1. QED
        BY <3>5 DEF Names
    <3>7. QED
      BY <2>4, <3>6
  <2>8. QED
    BY <2>4, <2>6, <2>7
<1>10. ~resolved =>
         /\ view.axes["founder"].rating = "unknown"
         /\ \A a \in AxisNames \ {"founder"} :
              view.axes[a] = Project(bundle, [identity EXCEPT !.known = TRUE]).axes[a]
  <2>1. SUFFICES ASSUME ~resolved
                 PROVE  /\ view.axes["founder"].rating = "unknown"
                        /\ \A a \in AxisNames \ {"founder"} :
                             view.axes[a] = Project(bundle, [identity EXCEPT !.known = TRUE]).axes[a]
    OBVIOUS
  <2>2. view.axes["founder"].rating = "unknown"
    <3>1. "founder" \in AxisNames
      BY DEF AxisNames
    <3>2. Assess(bundle, identity, "founder") = ComputeAxis(<<>>, bundle.level, <<>>, bundle.conflicted)
      BY <1>3, <2>1 DEF Assess
    <3>3. Assess(bundle, identity, "founder").position = "unknown"
      BY <3>2, NothingReadIsUnknown
    <3> HIDE DEF view, identity
    <3>4. view.axes["founder"] = Rated(Assess(bundle, identity, "founder"), "founder")
      BY <1>2, <3>1
    <3>5. view.axes["founder"].rating = RatingOf["founder"][Assess(bundle, identity, "founder").position]
      BY <3>4 DEF Rated
    <3>6. QED
      BY <1>7, <3>1, <3>3, <3>5
  <2>3. ASSUME NEW a \in AxisNames \ {"founder"}
        PROVE  view.axes[a] = Project(bundle, [identity EXCEPT !.known = TRUE]).axes[a]
    <3> DEFINE known == [identity EXCEPT !.known = TRUE]
    <3>1. Assess(bundle, identity, a) = Assess(bundle, known, a)
      <4> HIDE DEF identity, known
      <4>1. QED
        BY DEF Assess
    <3>2. Project(bundle, known).axes[a] = Rated(Assess(bundle, known, a), a)
      BY ProjectIs
    <3> HIDE DEF view, identity, known
    <3>3. QED
      BY <1>2, <3>1, <3>2 DEF known
  <2>4. QED
    BY <2>2, <2>3
<1>11. view.score.known = (resolved /\ told) /\ (view.reads # NoReads) = view.score.known
  <2> HIDE DEF view, identity, told
  <2>1. told \in BOOLEAN
    BY DEF told
  <2>2. CASE resolved /\ told
    <3>1. view.score.known = TRUE /\ (resolved /\ told) = TRUE /\ (view.reads # NoReads) = TRUE
      BY <1>5, <1>6, <2>1, <2>2
    <3>2. QED
      BY <3>1
  <2>3. CASE ~(resolved /\ told)
    <3>1. view.score.known = FALSE /\ (resolved /\ told) = FALSE /\ (view.reads # NoReads) = FALSE
      BY <1>5, <1>6, <2>1, <2>3
    <3>2. QED
      BY <3>1
  <2>4. QED
    BY <2>2, <2>3
<1> HIDE DEF view, identity, evaluated, told
<1>12. QED
  BY <1>8, <1>9, <1>10, <1>11, <1>3 DEF BridgeIsCautious, view, identity, evaluated, told

-----------------------------------------------------------------------------
(* The confidence band, of any number of samples.                          *)
AnySamples == Seq(0..100)

LEMMA SamplesAre ==
  ASSUME NEW samples \in AnySamples
  PROVE  /\ Len(samples) \in Nat /\ DOMAIN samples = 1..Len(samples)
         /\ \A i \in DOMAIN samples : samples[i] \in 0..100
<1> DEFINE S == 0..100
<1>1. samples \in Seq(S)
  BY DEF AnySamples
<1> HIDE DEF S
<1>2. /\ Len(samples) \in Nat /\ DOMAIN samples = 1..Len(samples)
      /\ \A i \in DOMAIN samples : samples[i] \in S
  BY <1>1
<1>3. QED
  BY <1>2 DEF S

LEMMA SortedIs ==
  ASSUME NEW samples \in AnySamples
  PROVE  LET sorted == Sorted(samples) IN
         /\ DOMAIN sorted = 1..Len(samples) /\ Len(samples) \in Nat /\ Len(sorted) = Len(samples)
         /\ \A k \in 1..Len(samples) : sorted[k] \in 0..100
         /\ \A j, k \in 1..Len(samples) : j <= k => sorted[j] <= sorted[k]
<1> DEFINE D == DOMAIN samples
           n == Len(samples)
           V == Range(samples)
           S(k) == {v \in V : k <= AtMost(samples, v)}
           sorted == Sorted(samples)
<1>1. D = 1..n /\ n \in Nat /\ (\A i \in D : samples[i] \in 0..100) /\ V = {samples[i] : i \in D}
  BY SamplesAre DEF Range
<1> HIDE DEF V, S, D, sorted, n
<1>2. IsFiniteSet(D) /\ Cardinality(D) = n
  BY <1>1, FS_Interval
<1>3. V \in SUBSET (0..100)
  BY <1>1
<1>4. sorted = [k \in D |-> Min(S(k))]
  BY DEF Sorted, sorted, D, S, V
<1>5. ASSUME NEW k \in D
      PROVE  S(k) # {}
  <2> DEFINE down == [i \in D |-> -samples[i]]
  <2>1. \A i \in D : down[i] \in Int
    <3>1. ASSUME NEW i \in D
          PROVE  down[i] \in Int
      <4>1. samples[i] \in 0..100 /\ down[i] = -samples[i]
        BY <1>1
      <4> HIDE DEF down
      <4>2. QED
        BY <4>1
    <3>2. QED
      BY <3>1
  <2>2. D # {} /\ \A j \in D : down[j] = -samples[j]
    OBVIOUS
  <2> HIDE DEF down
  <2>3. PICK i \in D : \A j \in D : down[i] <= down[j]
    BY <1>2, <2>1, <2>2, LeastExists
  <2>4. ASSUME NEW j \in D
        PROVE  samples[j] <= samples[i]
    <3>1. samples[i] \in 0..100 /\ samples[j] \in 0..100
      BY <1>1
    <3>2. down[i] <= down[j] /\ down[i] = -samples[i] /\ down[j] = -samples[j]
      BY <2>2, <2>3
    <3> DEFINE x == samples[i]
               y == samples[j]
    <3>3. x \in 0..100 /\ y \in 0..100 /\ -x <= -y
      BY <3>1, <3>2
    <3> HIDE DEF x, y
    <3>4. y <= x
      BY <3>3
    <3>5. QED
      BY <3>4 DEF x, y
  <2>5. AtMost(samples, samples[i]) = n
    <3>1. {j \in DOMAIN samples : samples[j] <= samples[i]} = D
      BY <2>4 DEF D
    <3>2. QED
      BY <1>2, <3>1 DEF AtMost
  <2>6. k <= n /\ samples[i] \in V
    BY <1>1
  <2>7. QED
    BY <2>5, <2>6 DEF S
<1>6. ASSUME NEW k \in D
      PROVE  Min(S(k)) \in S(k) /\ \A v \in S(k) : Min(S(k)) <= v
  <2> DEFINE same == [v \in S(k) |-> v]
  <2>1. S(k) \in SUBSET (0..100)
    BY <1>3 DEF S
  <2>2. IsFiniteSet(S(k))
    <3>1. \A m \in Nat : IsFiniteSet(0..m)
      BY FS_Interval
    <3>2. IsFiniteSet(0..100)
      BY <3>1
    <3>3. QED
      BY <2>1, <3>2, FS_Subset
  <2>3. \A v \in S(k) : same[v] \in Int
    BY <2>1
  <2> DEFINE T == S(k)
  <2>4. T # {} /\ IsFiniteSet(T) /\ \A v \in T : same[v] = v
    BY <1>5, <2>2
  <2> HIDE DEF same, T
  <2>5. PICK x \in T : \A y \in T : same[x] <= same[y]
    <3>1. \A v \in T : same[v] \in Int
      BY <2>3 DEF T
    <3>2. QED
      BY <2>4, <3>1, LeastExists
  <2>6. \E v \in T : \A w \in T : v <= w
    BY <2>4, <2>5
  <2>7. QED
    BY <2>6 DEF Min, T
<1>7. ASSUME NEW k \in D
      PROVE  sorted[k] = Min(S(k)) /\ sorted[k] \in 0..100
  <2>1. sorted[k] = Min(S(k))
    BY <1>4
  <2>2. S(k) \in SUBSET (0..100)
    BY <1>3 DEF S
  <2>3. QED
    BY <1>6, <2>1, <2>2
<1>8. ASSUME NEW j \in D, NEW k \in D, j <= k
      PROVE  sorted[j] <= sorted[k]
  <2>1. \A v \in V : AtMost(samples, v) \in Nat
    <3>1. \A v : {i \in DOMAIN samples : samples[i] <= v} \in SUBSET D
      BY DEF D
    <3>2. QED
      BY <1>2, <3>1, FS_Subset, FS_CardinalityType DEF AtMost
  <2>2. S(k) \subseteq S(j)
    BY <1>1, <1>8, <2>1 DEF S
  <2>3. QED
    BY <1>6, <1>7, <2>2
<1>9. DOMAIN sorted = 1..n /\ Len(sorted) = n
  <2>1. DOMAIN sorted = 1..n
    BY <1>1, <1>4
  <2>2. sorted = [k \in 1..n |-> Min(S(k))]
    BY <1>1, <1>4
  <2>3. QED
    BY <1>1, <2>1, <2>2
<1>10. QED
  BY <1>1, <1>7, <1>8, <1>9 DEF sorted, D, n

(* The order in which the samples came does not matter.                    *)
LEMMA SortedBackwards ==
  ASSUME NEW samples \in AnySamples
  PROVE  Sorted(Reverse(samples)) = Sorted(samples) /\ Len(Reverse(samples)) = Len(samples)
         /\ Reverse(samples) \in AnySamples
<1> DEFINE n == Len(samples)
           other == Reverse(samples)
           Low(s, v) == {i \in 1..n : s[i] <= v}
<1>1. n \in Nat /\ DOMAIN samples = 1..n /\ \A i \in 1..n : samples[i] \in 0..100
  BY SamplesAre
<1>2. other = [i \in 1..n |-> samples[(n - i) + 1]]
  BY DEF Reverse
<1>3. \A i \in 1..n : n + 1 - i \in 1..n /\ (n - i) + 1 = n + 1 - i /\ n + 1 - (n + 1 - i) = i
  BY <1>1
<1>4. DOMAIN other = 1..n /\ \A i \in 1..n : other[i] = samples[n + 1 - i] /\ samples[i] = other[n + 1 - i]
  BY <1>2, <1>3
<1>5. Len(other) = n /\ other \in AnySamples
  <2>1. other \in [1..n -> 0..100]
    BY <1>1, <1>2, <1>3
  <2> HIDE DEF other, n
  <2>2. QED
    BY <1>1, <2>1 DEF AnySamples
<1> HIDE DEF other, n
<1>6. Range(other) = Range(samples)
  <2>1. Range(other) = {other[i] : i \in 1..n} /\ Range(samples) = {samples[i] : i \in 1..n}
    BY <1>1, <1>4 DEF Range
  <2>2. \A x \in Range(other) : x \in Range(samples)
    BY <1>3, <1>4, <2>1
  <2>3. \A x \in Range(samples) : x \in Range(other)
    BY <1>3, <1>4, <2>1
  <2>4. QED
    BY <2>2, <2>3
<1>7. ASSUME NEW v
      PROVE  AtMost(other, v) = AtMost(samples, v)
  <2> DEFINE A == Low(samples, v)
             B == Low(other, v)
             f == [i \in A |-> n + 1 - i]
             g == [i \in B |-> n + 1 - i]
  <2>1. AtMost(samples, v) = Cardinality(A) /\ AtMost(other, v) = Cardinality(B)
    BY <1>1, <1>4 DEF AtMost
  <2>2. IsFiniteSet(A) /\ IsFiniteSet(B)
    BY <1>1, FS_Interval, FS_Subset
  <2>3. /\ \A i \in A : n + 1 - i \in B /\ n + 1 - (n + 1 - i) = i
        /\ \A i \in B : n + 1 - i \in A /\ n + 1 - (n + 1 - i) = i
    BY <1>3, <1>4
  <2> HIDE DEF A, B
  <2>4. f \in Surjection(A, B) /\ g \in Surjection(B, A)
    BY <2>3 DEF Surjection
  <2> HIDE DEF f, g
  <2>5. Cardinality(B) <= Cardinality(A) /\ Cardinality(A) <= Cardinality(B)
    BY <2>2, <2>4, FS_Surjection
  <2>6. Cardinality(A) \in Nat /\ Cardinality(B) \in Nat
    BY <2>2, FS_CardinalityType
  <2>7. QED
    BY <2>1, <2>5, <2>6
<1>8. Sorted(other) = Sorted(samples)
  <2>1. ASSUME NEW k
        PROVE  {v \in Range(other) : k <= AtMost(other, v)} = {v \in Range(samples) : k <= AtMost(samples, v)}
    BY <1>6, <1>7
  <2> DEFINE S(k) == {v \in Range(samples) : k <= AtMost(samples, v)}
  <2>2. Sorted(samples) = [k \in 1..n |-> Min(S(k))]
    BY <1>1 DEF Sorted
  <2>3. Sorted(other) = [k \in 1..n |-> Min({v \in Range(other) : k <= AtMost(other, v)})]
    BY <1>4 DEF Sorted
  <2>4. \A k \in 1..n : Min({v \in Range(other) : k <= AtMost(other, v)}) = Min(S(k))
    BY <2>1
  <2> HIDE DEF S
  <2>5. QED
    BY <2>2, <2>3, <2>4
<1>9. QED
  BY <1>5, <1>8 DEF other, n

(* A percentile lies between its two neighbours, so the wide one is not    *)
(* less than the narrow one.                                               *)
LEMMA SpreadIs ==
  ASSUME NEW samples \in AnySamples, samples # <<>>
  PROVE  /\ SampleSpread(Sorted(samples)) \in Nat
         /\ Median(Sorted(samples)) \in Nat /\ Median(Sorted(samples)) <= 2000
<1> DEFINE n == Len(samples)
           s == Sorted(samples)
<1>1. /\ n \in Nat /\ n >= 1 /\ Len(s) = n
      /\ \A k \in 1..n : s[k] \in 0..100
      /\ \A j, k \in 1..n : j <= k => s[j] <= s[k]
  <2>1. n >= 1 /\ n \in Nat
    BY DEF AnySamples
  <2>2. QED
    BY <2>1, SortedIs
<1> HIDE DEF s, n
<1>2. Median(s) \in Nat /\ Median(s) <= 2000
  <2>1. (n + 1) \div 2 \in 1..n /\ n \div 2 + 1 \in 1..n
    BY <1>1
  <2>2. Unit \div 2 = 10
    BY DEF Unit
  <2>3. s[(n + 1) \div 2] \in 0..100 /\ s[n \div 2 + 1] \in 0..100
    BY <1>1, <2>1
  <2> DEFINE a == s[(n + 1) \div 2]
             b == s[n \div 2 + 1]
  <2>4. Median(s) = 10 * (a + b)
    BY <1>1, <2>2 DEF Median
  <2>5. a \in 0..100 /\ b \in 0..100
    BY <2>3
  <2> HIDE DEF a, b
  <2>6. QED
    BY <2>4, <2>5
<1>3. ASSUME NEW tenths \in 1..9, n >= 2
      PROVE  LET position == tenths * (n - 1)
                 low == position \div 10 + 1
                 high == (position + 9) \div 10 + 1
             IN /\ Percentile(s, tenths) \in Int /\ low \in 1..n /\ high \in 1..n
                /\ 10 * s[low] <= Percentile(s, tenths) /\ Percentile(s, tenths) <= 10 * s[high]
  <2> DEFINE position == tenths * (n - 1)
             low == position \div 10 + 1
             high == (position + 9) \div 10 + 1
  <2>1. position \in Nat /\ position <= 9 * (n - 1) /\ 0 <= position
    BY <1>1, <1>3, tenths \in {1, 2, 3, 4, 5, 6, 7, 8, 9}
  <2> HIDE DEF position
  <2>2. low \in 1..n /\ high \in 1..n /\ low <= high
    BY <1>1, <2>1
  <2>3. s[low] \in 0..100 /\ s[high] \in 0..100 /\ s[low] <= s[high]
    BY <1>1, <2>2
  <2>4. Percentile(s, tenths) = 10 * s[low] + (s[high] - s[low]) * (position % 10)
    BY <1>1 DEF Percentile, position
  <2>5. position % 10 \in {0, 1, 2, 3, 4, 5, 6, 7, 8, 9}
    BY <2>1
  <2> DEFINE a == s[low]
             b == s[high]
             r == position % 10
  <2>6. Percentile(s, tenths) = 10 * a + (b - a) * r
    BY <2>4
  <2>7. a \in 0..100 /\ b \in 0..100 /\ a <= b
    BY <2>3
  <2>8. r \in {0, 1, 2, 3, 4, 5, 6, 7, 8, 9}
    BY <2>5
  <2> DEFINE p == Percentile(s, tenths)
  <2>9. p = 10 * a + (b - a) * r
    BY <2>6
  <2> HIDE DEF a, b, r, p
  <2>10. 0 <= (b - a) * r /\ (b - a) * r <= 10 * (b - a) /\ (b - a) * r \in Int
    BY <2>7, <2>8
  <2>11. p \in Int /\ 10 * a <= p /\ p <= 10 * b
    BY <2>7, <2>9, <2>10
  <2>12. p \in Int /\ low \in 1..n /\ high \in 1..n /\ 10 * s[low] <= p /\ p <= 10 * s[high]
    BY <2>2, <2>11 DEF a, b
  <2>13. QED
    BY <2>12 DEF p, position, low, high
<1>4. SampleSpread(s) \in Nat
  <2>1. CASE n < 2
    BY <1>1, <2>1 DEF SampleSpread
  <2>2. CASE n = 2
    <3>1. 9 * (2 - 1) = 9 /\ 1 * (2 - 1) = 1 /\ 9 \div 10 = 0 /\ (9 + 9) \div 10 = 1
          /\ 1 \div 10 = 0 /\ (1 + 9) \div 10 = 1 /\ 9 % 10 = 9 /\ 1 % 10 = 1
      OBVIOUS
    <3>2. /\ Percentile(s, 9) = 10 * s[1] + (s[2] - s[1]) * 9
          /\ Percentile(s, 1) = 10 * s[1] + (s[2] - s[1]) * 1
      BY <1>1, <2>2, <3>1 DEF Percentile
    <3>3. s[1] \in 0..100 /\ s[2] \in 0..100 /\ s[1] <= s[2]
      BY <1>1, <2>2
    <3>4. SampleSpread(s) = Percentile(s, 9) - Percentile(s, 1)
      BY <1>1, <2>2 DEF SampleSpread
    <3> DEFINE a == s[1]
               b == s[2]
    <3>5. SampleSpread(s) = (10 * a + (b - a) * 9) - (10 * a + (b - a) * 1) /\ a \in 0..100 /\ b \in 0..100 /\ a <= b
      BY <3>2, <3>3, <3>4
    <3> HIDE DEF a, b
    <3>6. QED
      BY <3>5
  <2>3. CASE n > 2
    <3> DEFINE j == (1 * (n - 1) + 9) \div 10 + 1
               k == (9 * (n - 1)) \div 10 + 1
    <3>1. j \in 1..n /\ Percentile(s, 1) \in Int /\ Percentile(s, 1) <= 10 * s[j]
      BY <1>1, <1>3, <2>3
    <3>2. k \in 1..n /\ Percentile(s, 9) \in Int /\ 10 * s[k] <= Percentile(s, 9)
      BY <1>1, <1>3, <2>3
    <3>3. j <= k
      BY <1>1, <2>3
    <3> HIDE DEF j, k
    <3>4. s[j] <= s[k] /\ s[j] \in 0..100 /\ s[k] \in 0..100
      BY <1>1, <3>1, <3>2, <3>3
    <3>5. SampleSpread(s) = Percentile(s, 9) - Percentile(s, 1)
      BY <1>1, <2>3 DEF SampleSpread
    <3> DEFINE p == Percentile(s, 1)
               q == Percentile(s, 9)
               x == s[j]
               y == s[k]
    <3>5a. p \in Int /\ q \in Int /\ p <= 10 * x /\ 10 * y <= q /\ x <= y
      BY <3>1, <3>2, <3>4
    <3>5b. x \in 0..100 /\ y \in 0..100
      BY <3>4
    <3>6. p \in Int /\ q \in Int /\ p <= 10 * x /\ 10 * y <= q /\ x <= y /\ x \in Int /\ y \in Int
      <4> HIDE DEF p, q, x, y
      <4>1. QED
        BY <3>5a, <3>5b
    <3> HIDE DEF p, q, x, y
    <3>7. q - p \in Nat
      BY <3>6
    <3>8. QED
      BY <3>5, <3>7 DEF p, q
  <2>4. QED
    BY <1>1, <2>1, <2>2, <2>3
<1>5. QED
  BY <1>2, <1>4 DEF s

LEMMA WithinIs ==
  ASSUME NEW value \in Int
  PROVE  Within(value, 0, Top) = IF value < 0 THEN 0 ELSE IF value > 2000 THEN 2000 ELSE value
<1>1. Top = 2000
  BY DEF Top, Unit
<1>2. Max({0, value}) = IF 0 >= value THEN 0 ELSE value
  BY GreaterOfTwo
<1>3. Min({2000, Max({0, value})}) = IF 2000 <= Max({0, value}) THEN 2000 ELSE Max({0, value})
  BY <1>2, GreaterOfTwo
<1>4. QED
  BY <1>1, <1>2, <1>3 DEF Within

LowerEnd(center, half) == Min({Within(QuantizeDown(center - half), 0, Top), center})
UpperEnd(center, half) == Max({Within(QuantizeUp(center + half), 0, Top), center})

(* A wider band starts no higher and ends no lower.                        *)
LEMMA WiderIsWider ==
  ASSUME NEW m \in Nat, m <= 2000, NEW h \in Nat, NEW k \in Nat, k <= h
  PROVE  /\ 0 <= LowerEnd(m, h) /\ LowerEnd(m, h) <= m /\ LowerEnd(m, h) <= LowerEnd(m, k)
         /\ UpperEnd(m, h) <= 2000 /\ m <= UpperEnd(m, h) /\ UpperEnd(m, k) <= UpperEnd(m, h)
<1>1. \A v \in Int : QuantizeDown(v) = 20 * (v \div 20) /\ QuantizeUp(v) = -(20 * ((-v) \div 20))
  BY DEF QuantizeDown, QuantizeUp, Unit
<1>2. /\ QuantizeDown(m - h) \in Int /\ QuantizeDown(m - k) \in Int
      /\ QuantizeDown(m - h) <= m - h /\ QuantizeDown(m - h) <= QuantizeDown(m - k)
      /\ QuantizeDown(m - k) <= m - k
  BY <1>1
<1>3. /\ QuantizeUp(m + h) \in Int /\ QuantizeUp(m + k) \in Int
      /\ m + h <= QuantizeUp(m + h) /\ QuantizeUp(m + k) <= QuantizeUp(m + h)
      /\ m + k <= QuantizeUp(m + k)
  BY <1>1
<1> DEFINE a == QuantizeDown(m - h)
           b == QuantizeDown(m - k)
           c == QuantizeUp(m + h)
           d == QuantizeUp(m + k)
<1>4. a \in Int /\ b \in Int /\ c \in Int /\ d \in Int /\ a <= b /\ d <= c
  BY <1>2, <1>3
<1> HIDE DEF a, b, c, d
<1> DEFINE Bounded(v) == IF v < 0 THEN 0 ELSE IF v > 2000 THEN 2000 ELSE v
<1>5. /\ Within(a, 0, Top) = Bounded(a) /\ Within(b, 0, Top) = Bounded(b)
      /\ Within(c, 0, Top) = Bounded(c) /\ Within(d, 0, Top) = Bounded(d)
  BY <1>4, WithinIs
<1>6. \A v \in Int : Bounded(v) \in Nat /\ Bounded(v) <= 2000
  OBVIOUS
<1>7. Bounded(a) <= Bounded(b) /\ Bounded(d) <= Bounded(c)
  BY <1>4
<1> HIDE DEF Bounded
<1> DEFINE x == Bounded(a)
           y == Bounded(b)
<1>8. /\ LowerEnd(m, h) = IF Bounded(a) <= m THEN Bounded(a) ELSE m
      /\ LowerEnd(m, k) = IF Bounded(b) <= m THEN Bounded(b) ELSE m
  <2>1. x \in Int /\ y \in Int /\ m \in Int
    BY <1>4, <1>6
  <2>2. LowerEnd(m, h) = Min({x, m}) /\ LowerEnd(m, k) = Min({y, m})
    BY <1>5 DEF LowerEnd, a, b
  <2> HIDE DEF x, y
  <2>3. Min({x, m}) = IF x <= m THEN x ELSE m
    BY <2>1, GreaterOfTwo
  <2>4. Min({y, m}) = IF y <= m THEN y ELSE m
    BY <2>1, GreaterOfTwo
  <2>5. QED
    BY <2>2, <2>3, <2>4 DEF x, y
<1>9. /\ UpperEnd(m, h) = IF Bounded(c) >= m THEN Bounded(c) ELSE m
      /\ UpperEnd(m, k) = IF Bounded(d) >= m THEN Bounded(d) ELSE m
  BY <1>4, <1>5, <1>6, GreaterOfTwo DEF UpperEnd, c, d
<1>10. QED
  BY <1>4, <1>6, <1>7, <1>8, <1>9

(* Half the width, by coverage.                                            *)
LEMMA HalfWidthIs ==
  ASSUME NEW samples \in AnySamples, samples # <<>>, NEW coverage \in {0, 4, 5, 10}
  PROVE  LET sorted == Sorted(samples) IN
         /\ HalfWidth(sorted, coverage) \in Nat /\ HalfWidth(sorted, 10) \in Nat
         /\ HalfWidth(sorted, 10) <= HalfWidth(sorted, coverage)
<1> DEFINE s == Sorted(samples)
           p == SampleSpread(s)
           few == Max({0, 5 - Len(s)})
<1>1. p \in Nat /\ Len(s) \in Nat
  BY SpreadIs, SortedIs
<1>2. few \in Nat
  BY <1>1, GreaterOfTwo
<1>3. Unit \div 10 = 2 /\ Unit = 20
  BY DEF Unit
<1>4. \A c \in {coverage, 10} : HalfWidth(s, c) = p + 15 * (10 - c) * 2 + 3 * few * 20
  BY <1>3 DEF HalfWidth
<1> HIDE DEF p, few, s
<1>5. QED
  BY <1>1, <1>2, <1>4 DEF s

(* The confidence is a share, grows with coverage and is nothing without.  *)
LEMMA BandConfidenceIs ==
  ASSUME NEW samples \in AnySamples, samples # <<>>, NEW snap \in {NoEstimate} \cup 0..100,
         NEW coverage \in {0, 4, 5, 10}
  PROVE  LET sorted == Sorted(samples) IN
         /\ BandConfidence(sorted, snap, coverage) \in 0..100
         /\ BandConfidence(sorted, snap, coverage) <= BandConfidence(sorted, snap, 10)
         /\ BandConfidence(sorted, snap, coverage) > 0 => coverage > 0
<1> DEFINE s == Sorted(samples)
           p == SampleSpread(s)
           m == Median(s)
           steady == 400 - Min({400, p})
           agreed == IF snap = NoEstimate THEN 800
                     ELSE 800 - Min({800, Distance(snap * Unit, m)})
           count == Min({5, Len(s)})
<1>1. p \in Nat /\ m \in Nat /\ m <= 2000 /\ Len(s) \in Nat /\ Len(s) >= 1
  <2>1. Len(samples) >= 1
    BY DEF AnySamples
  <2>2. QED
    BY <2>1, SpreadIs, SortedIs
<1>2. BandConfidence(s, snap, coverage) = (steady * agreed * coverage * count + 80000) \div 160000
  BY DEF BandConfidence
<1>3. BandConfidence(s, snap, 10) = (steady * agreed * 10 * count + 80000) \div 160000
  BY DEF BandConfidence
<1> HIDE DEF s, p, m
<1>4. steady \in Nat /\ steady <= 400
  <2> DEFINE a == 400
  <2>1. a \in Int /\ p \in Int
    BY <1>1
  <2> HIDE DEF a
  <2>2. Min({a, p}) = IF a <= p THEN a ELSE p
    BY <2>1, GreaterOfTwo
  <2>3. QED
    BY <1>1, <2>2 DEF a
<1>5. agreed \in Nat /\ agreed <= 800
  <2>1. CASE snap = NoEstimate
    BY <2>1
  <2>2. CASE snap # NoEstimate
    <3>1. snap \in 0..100
      BY <2>2
    <3>2. snap * Unit \in Int
      BY <3>1 DEF Unit
    <3> DEFINE there == snap * Unit
               apart == Distance(there, m)
    <3>3. there \in Int
      BY <3>2
    <3> HIDE DEF there
    <3>4. Distance(there, m) = IF there - m >= m - there THEN there - m ELSE m - there
      BY <1>1, <3>3, GreaterOfTwo DEF Distance
    <3>5. apart \in Nat
      BY <1>1, <3>3, <3>4
    <3> HIDE DEF apart
    <3>6. Min({800, apart}) = IF 800 <= apart THEN 800 ELSE apart
      BY <3>5, GreaterOfTwo
    <3>7. 800 - Min({800, apart}) \in Nat /\ 800 - Min({800, apart}) <= 800
      BY <3>5, <3>6
    <3>8. QED
      BY <2>2, <3>7 DEF apart, there
  <2>3. QED
    BY <2>1, <2>2
<1>6. count \in {1, 2, 3, 4, 5}
  <2> DEFINE a == 5
             n == Len(s)
  <2>1. a \in Int /\ n \in Int
    BY <1>1
  <2> HIDE DEF a, n
  <2>2. Min({a, n}) = IF a <= n THEN a ELSE n
    BY <2>1, GreaterOfTwo
  <2>3. QED
    BY <1>1, <2>2 DEF a, n
<1> HIDE DEF steady, agreed, count
<1> DEFINE r == steady * agreed
<1>7. r \in Nat /\ r <= 320000
  <2>1. steady * agreed \in Nat /\ 400 * agreed \in Nat /\ steady * agreed <= 400 * agreed
    BY <1>4, <1>5, ProductsGrow
  <2>2. QED
    BY <1>5, <2>1
<1> HIDE DEF r
<1>8. /\ r * coverage * count \in Nat
      /\ r * coverage * count <= r * 10 * count
      /\ r * 10 * count <= 16000000
      /\ coverage = 0 => r * coverage * count = 0
  BY <1>6, <1>7
<1> DEFINE x == r * coverage * count
           y == r * 10 * count
<1>9. BandConfidence(s, snap, coverage) = (x + 80000) \div 160000
      /\ BandConfidence(s, snap, 10) = (y + 80000) \div 160000
  BY <1>2, <1>3 DEF r
<1>10. x \in Nat /\ y \in Int /\ x <= y /\ y <= 16000000 /\ (coverage = 0 => x = 0)
  BY <1>6, <1>7, <1>8
<1> HIDE DEF x, y
<1>11. /\ (x + 80000) \div 160000 \in 0..100
       /\ (x + 80000) \div 160000 <= (y + 80000) \div 160000
       /\ (x + 80000) \div 160000 > 0 => coverage > 0
  BY <1>10
<1>12. QED
  BY <1>9, <1>11 DEF s

(* Bias is seen from either side.                                          *)
LEMMA BiasIsMutual ==
  ASSUME NEW samples \in AnySamples
  PROVE  BiasCheck(samples, <<50>>).biased = BiasCheck(<<50>>, samples).biased
<1>1. CASE samples = <<>>
  BY <1>1 DEF BiasCheck
<1>2. CASE samples # <<>>
  <2> DEFINE a == Median(Sorted(samples))
             b == Median(Sorted(<<50>>))
  <2>1. <<50>> \in AnySamples /\ <<50>> # <<>>
    BY DEF AnySamples
  <2>2. a \in Nat /\ b \in Nat
    BY <1>2, <2>1, SpreadIs
  <2>3. /\ BiasCheck(samples, <<50>>).biased = (Distance(b - a, 0) > 5 * Unit)
        /\ BiasCheck(<<50>>, samples).biased = (Distance(a - b, 0) > 5 * Unit)
    BY <1>2, <2>1 DEF BiasCheck
  <2> HIDE DEF a, b
  <2>4. /\ Max({(b - a) - 0, 0 - (b - a)}) = IF (b - a) - 0 >= 0 - (b - a) THEN (b - a) - 0 ELSE 0 - (b - a)
        /\ Max({(a - b) - 0, 0 - (a - b)}) = IF (a - b) - 0 >= 0 - (a - b) THEN (a - b) - 0 ELSE 0 - (a - b)
    BY <2>2, GreaterOfTwo
  <2>5. Distance(b - a, 0) = Distance(a - b, 0)
    BY <2>2, <2>4 DEF Distance
  <2>6. QED
    BY <2>3, <2>5
<1>3. QED
  BY <1>1, <1>2

LEMMA BandHolds ==
  ASSUME NEW samples \in AnySamples, NEW snap \in {NoEstimate} \cup 0..100
  PROVE  BandIsHonest(samples, snap)
<1> DEFINE Band(c) == EstimateBand(samples, snap, c)
<1>1. SUFFICES ASSUME NEW coverage \in {0, 4, 5, 10}
               PROVE  /\ Band(coverage) = EstimateBand(Reverse(samples), snap, coverage)
                      /\ Band(coverage).point = Band(10).point
                      /\ /\ Band(coverage).confidence \in 0..100
                         /\ Band(coverage).confidence <= Band(10).confidence
                      /\ samples = <<>> \/ /\ 0 <= Band(coverage).lower /\ Band(coverage).upper <= Top
                                           /\ Band(coverage).lower <= Band(10).lower
                                           /\ Band(10).upper <= Band(coverage).upper
                                           /\ Band(coverage).lower <= Band(coverage).point
                                           /\ Band(coverage).point <= Band(coverage).upper
                      /\ (Band(coverage).abstained = {}) = (Len(samples) >= 3 /\ coverage >= 5)
                      /\ Band(coverage).confidence > 0 => samples # <<>> /\ coverage > 0
  BY BiasIsMutual DEF BandIsHonest
<1>2. Len(samples) \in Nat /\ (samples = <<>> <=> Len(samples) = 0)
  BY DEF AnySamples
<1>3. Band(coverage) = EstimateBand(Reverse(samples), snap, coverage)
  <2>1. Sorted(Reverse(samples)) = Sorted(samples) /\ Len(Reverse(samples)) = Len(samples)
        /\ Reverse(samples) \in AnySamples
    BY SortedBackwards
  <2>2. samples = <<>> <=> Reverse(samples) = <<>>
    BY <1>2, <2>1 DEF AnySamples
  <2> DEFINE other == Reverse(samples)
  <2> HIDE DEF other
  <2>3. Sorted(other) = Sorted(samples) /\ Len(other) = Len(samples) /\ (samples = <<>> <=> other = <<>>)
    BY <2>1, <2>2 DEF other
  <2>4. EstimateBand(other, snap, coverage) = EstimateBand(samples, snap, coverage)
    BY <2>3 DEF EstimateBand
  <2>5. QED
    BY <2>4 DEF other
<1>4. (Band(coverage).abstained = {}) = (Len(samples) >= 3 /\ coverage >= 5)
  <2>1. Band(coverage).abstained = Abstentions(Len(samples), coverage)
    BY DEF EstimateBand
  <2>2. (Abstentions(Len(samples), coverage) = {}) = (Len(samples) >= 3 /\ coverage >= 5)
    <3> DEFINE n == Len(samples)
    <3>1. n \in Nat
      BY <1>2
    <3> HIDE DEF n
    <3>2. (Abstentions(n, coverage) = {}) = (n >= 3 /\ coverage >= 5)
      <4>1. CASE n = 0
        BY <4>1 DEF Abstentions
      <4>2. CASE n \in 1..2
        BY <4>2 DEF Abstentions
      <4>3. CASE n >= 3
        BY <3>1, <4>3 DEF Abstentions
      <4>4. QED
        BY <3>1, <4>1, <4>2, <4>3
    <3>3. QED
      BY <3>2 DEF n
  <2>3. QED
    BY <2>1, <2>2
<1>5. CASE samples = <<>>
  <2>1. /\ Band(coverage).point = Band(10).point
        /\ Band(coverage).confidence = 0 /\ Band(10).confidence = 0
    BY <1>5 DEF EstimateBand
  <2> HIDE DEF Band
  <2>2. QED
    BY <1>3, <1>4, <1>5, <2>1
<1>6. CASE samples # <<>>
  <2> DEFINE s == Sorted(samples)
             m == Median(s)
             h == HalfWidth(s, coverage)
             k == HalfWidth(s, 10)
  <2>1. m \in Nat /\ m <= 2000
    BY <1>6, SpreadIs
  <2>2. h \in Nat /\ k \in Nat /\ k <= h
    BY <1>6, HalfWidthIs
  <2>3. /\ BandConfidence(s, snap, coverage) \in 0..100
        /\ BandConfidence(s, snap, coverage) <= BandConfidence(s, snap, 10)
        /\ BandConfidence(s, snap, coverage) > 0 => coverage > 0
    BY <1>6, BandConfidenceIs
  <2>4. Within(m, 0, Top) = m
    BY <2>1, WithinIs
  <2>5. \A c \in {coverage, 10} :
          /\ Band(c).point = m
          /\ Band(c).lower = LowerEnd(m, HalfWidth(s, c))
          /\ Band(c).upper = UpperEnd(m, HalfWidth(s, c))
          /\ Band(c).confidence = BandConfidence(s, snap, c)
    BY <1>6, <2>4 DEF EstimateBand, LowerEnd, UpperEnd
  <2> HIDE DEF Band, m, h, k
  <2>6. /\ 0 <= LowerEnd(m, h) /\ LowerEnd(m, h) <= m /\ LowerEnd(m, h) <= LowerEnd(m, k)
        /\ UpperEnd(m, h) <= 2000 /\ m <= UpperEnd(m, h) /\ UpperEnd(m, k) <= UpperEnd(m, h)
    BY <2>1, <2>2, WiderIsWider
  <2>7. Top = 2000
    BY DEF Top, Unit
  <2>8. QED
    BY <1>3, <1>4, <1>6, <2>3, <2>5, <2>6, <2>7 DEF h, k
<1>7. QED
  BY <1>5, <1>6

-----------------------------------------------------------------------------
(* Every assessment there can be, of one of eight kinds.                   *)
AnyRating(C) ==
  \/ case.kind = "axis" /\ case.signals \in AxisSignals(C) /\ case.extra \in SignalOf(C)
  \/ case.kind = "trend" /\ case.points \in Seq(DatedPoint) \ {<<>>}
  \/ case.kind = "trust" /\ case.signals \in [TrustKinds -> Signals]
  \/ /\ case.kind = "founder" /\ case.level \in {"low", "medium", "high"}
     /\ \E F \in SUBSET FounderFactors : /\ DOMAIN Negative \subseteq F
                                         /\ case.observations \in [F -> FounderObservation]
  \/ case.kind = "band" /\ case.samples \in AnySamples /\ case.snap \in {NoEstimate} \cup 0..100
AnyVerdict ==
  \/ /\ case.kind = "conviction" /\ case.reads \in [AxisNames -> AxisRead]
     /\ case.score.known \in BOOLEAN /\ case.score.provisional \in BOOLEAN
  \/ /\ case.kind = "reads" /\ case.observations \in Seq(GradedObservation)
     /\ IndexObservations(case.observations)
  \/ case.kind = "bridge" /\ case.bundle.conflicted \in BOOLEAN /\ case.resolved \in BOOLEAN

(* Absence is never held against anyone, thin coverage never condemns, and *)
(* no verdict rests on what is not known: for axes of any number of        *)
(* signals and claims, trends of any length and dates, every claim, every  *)
(* founder, bands around any number of samples, every verdict, reads of    *)
(* any observations and every bundle.                                      *)
THEOREM AssessmentsHold ==
  ASSUME NEW C, AnyRating(C) \/ AnyVerdict
  PROVE  AssessmentsAreFair
<1>1. AnyRating(C) => RatingsAreFair /\ VerdictsAreEarned /\ EvaluationIsExact
  <2>1. CASE case.kind = "axis" /\ case.signals \in AxisSignals(C) /\ case.extra \in SignalOf(C)
    <3>1. AxisIsFair(case.signals, case.extra)
      BY <2>1, AxisHolds
    <3>2. QED
      BY <2>1, <3>1 DEF RatingsAreFair, VerdictsAreEarned, EvaluationIsExact
  <2>2. CASE case.kind = "trend" /\ case.points \in Seq(DatedPoint) \ {<<>>}
    <3>1. TrendIsFair(case.points)
      BY <2>2, TrendHolds
    <3>2. QED
      BY <2>2, <3>1 DEF RatingsAreFair, VerdictsAreEarned, EvaluationIsExact
  <2>3. CASE case.kind = "trust" /\ case.signals \in [TrustKinds -> Signals]
    <3>1. TrustIsFair(case.signals)
      BY <2>3, TrustHolds
    <3>2. QED
      BY <2>3, <3>1 DEF RatingsAreFair, VerdictsAreEarned, EvaluationIsExact
  <2>4. CASE /\ case.kind = "founder" /\ case.level \in {"low", "medium", "high"}
             /\ \E F \in SUBSET FounderFactors : /\ DOMAIN Negative \subseteq F
                                                 /\ case.observations \in [F -> FounderObservation]
    <3>1. FounderIsFair(case.observations, case.level)
      BY <2>4, FounderHolds
    <3>2. QED
      BY <2>4, <3>1 DEF RatingsAreFair, VerdictsAreEarned, EvaluationIsExact
  <2>5. CASE case.kind = "band" /\ case.samples \in AnySamples /\ case.snap \in {NoEstimate} \cup 0..100
    <3>1. BandIsHonest(case.samples, case.snap)
      BY <2>5, BandHolds
    <3>2. QED
      BY <2>5, <3>1 DEF RatingsAreFair, VerdictsAreEarned, EvaluationIsExact
  <2>6. QED
    BY <2>1, <2>2, <2>3, <2>4, <2>5 DEF AnyRating
<1>2. AnyVerdict => RatingsAreFair /\ VerdictsAreEarned /\ EvaluationIsExact
  <2>1. CASE /\ case.kind = "conviction" /\ case.reads \in [AxisNames -> AxisRead]
             /\ case.score.known \in BOOLEAN /\ case.score.provisional \in BOOLEAN
    <3>1. ConvictionIsCautious(case.reads, case.score, case.level)
      BY <2>1, ConvictionHolds
    <3>2. QED
      BY <2>1, <3>1 DEF RatingsAreFair, VerdictsAreEarned, EvaluationIsExact
  <2>2. CASE /\ case.kind = "reads" /\ case.observations \in Seq(GradedObservation)
             /\ IndexObservations(case.observations)
    <3>1. ReadsAreEarned(case.observations)
      BY <2>2, ReadsHold
    <3>2. QED
      BY <2>2, <3>1 DEF RatingsAreFair, VerdictsAreEarned, EvaluationIsExact
  <2>3. CASE case.kind = "bridge" /\ case.bundle.conflicted \in BOOLEAN /\ case.resolved \in BOOLEAN
    <3>1. BridgeIsCautious(case.bundle, case.resolved)
      BY <2>3, BridgeHolds
    <3>2. QED
      BY <2>3, <3>1 DEF RatingsAreFair, VerdictsAreEarned, EvaluationIsExact
  <2>4. QED
    BY <2>1, <2>2, <2>3 DEF AnyVerdict
<1>3. QED
  BY <1>1, <1>2 DEF AssessmentsAreFair

-----------------------------------------------------------------------------
(* The ledger of human links between identities.                           *)

(* The strings; the provers know of no literal that it is one.             *)
AnyString == STRING \cup {"e"}

LinkEvent ==
  [action : {"approved", "reversed"}, pair : SUBSET AnyString, evidence : SUBSET AnyString, reverses : Nat]

(* A reversal is of an earlier approval of the same pair and the only one  *)
(* of it, and a pair is not linked twice.                                  *)
LedgerHolds(ledger) ==
  /\ ledger \in Seq(LinkEvent)
  /\ \A j \in DOMAIN ledger : ledger[j].action = "reversed" =>
       LET i == ledger[j].reverses IN
       /\ i \in 1..(j - 1)
       /\ ledger[i].action = "approved" /\ ledger[i].pair = ledger[j].pair
       /\ \A k \in DOMAIN ledger :
            ledger[k].action = "reversed" /\ ledger[k].reverses = i => k = j
  /\ \A i, j \in ActiveLinks(ledger) : ledger[i].pair = ledger[j].pair => i = j

LEMMA EventAppended ==
  ASSUME NEW ledger \in Seq(LinkEvent), NEW e \in LinkEvent
  PROVE  /\ Append(ledger, e) \in Seq(LinkEvent)
         /\ DOMAIN ledger = 1..Len(ledger) /\ Len(ledger) \in Nat
         /\ DOMAIN Append(ledger, e) = 1..(Len(ledger) + 1)
         /\ Append(ledger, e)[Len(ledger) + 1] = e
         /\ \A i \in 1..Len(ledger) : Append(ledger, e)[i] = ledger[i]
OBVIOUS

(* An approval makes its own link active and no other inactive.            *)
LEMMA ApprovedIsActive ==
  ASSUME NEW ledger, LedgerHolds(ledger), NEW pair \in SUBSET AnyString, NEW evidence \in SUBSET AnyString
  PROVE  ActiveLinks(Approve(ledger, pair, evidence)) = ActiveLinks(ledger) \cup {Len(ledger) + 1}
<1> DEFINE e == [action |-> "approved", pair |-> pair, evidence |-> evidence, reverses |-> 0]
           more == Append(ledger, e)
           n == Len(ledger)
<1>1. ledger \in Seq(LinkEvent) /\ e \in LinkEvent
  BY DEF LedgerHolds, LinkEvent
<1>2. /\ DOMAIN ledger = 1..n /\ n \in Nat /\ DOMAIN more = 1..(n + 1)
      /\ more[n + 1] = e /\ \A i \in 1..n : more[i] = ledger[i]
  BY <1>1, EventAppended
<1>3. \A j \in 1..n : ledger[j].action = "reversed" => ledger[j].reverses # n + 1
  BY <1>2 DEF LedgerHolds
<1> HIDE DEF more
<1>4. e.action = "approved"
  OBVIOUS
<1> HIDE DEF e
<1>5. ActiveLinks(more) = ActiveLinks(ledger) \cup {n + 1}
  BY <1>2, <1>3, <1>4 DEF ActiveLinks
<1>6. QED
  BY <1>5 DEF Approve, more, e

(* A reversal makes the one link it names inactive.                        *)
LEMMA ReversedIsInactive ==
  ASSUME NEW ledger, LedgerHolds(ledger), NEW link \in ActiveLinks(ledger)
  PROVE  ActiveLinks(ReverseLink(ledger, link)) = ActiveLinks(ledger) \ {link}
<1> DEFINE e == [action |-> "reversed", pair |-> ledger[link].pair, evidence |-> {}, reverses |-> link]
           more == Append(ledger, e)
           n == Len(ledger)
<1>1. ledger \in Seq(LinkEvent) /\ link \in 1..n /\ n \in Nat
  BY DEF LedgerHolds, ActiveLinks
<1>2. ledger[link] \in LinkEvent
  BY <1>1
<1>3. e \in LinkEvent
  BY <1>1, <1>2 DEF LinkEvent
<1>4. /\ DOMAIN ledger = 1..n /\ DOMAIN more = 1..(n + 1)
      /\ more[n + 1] = e /\ \A i \in 1..n : more[i] = ledger[i]
  BY <1>1, <1>3, EventAppended
<1> HIDE DEF more
<1>5. e.action = "reversed" /\ e.reverses = link
  OBVIOUS
<1> HIDE DEF e
<1>6. ActiveLinks(more) = ActiveLinks(ledger) \ {link}
  <2>1. ASSUME NEW i, i \in ActiveLinks(more)
        PROVE  i \in ActiveLinks(ledger) /\ i # link
    BY <1>1, <1>4, <1>5, <2>1 DEF ActiveLinks
  <2>2. ASSUME NEW i, i \in ActiveLinks(ledger), i # link
        PROVE  i \in ActiveLinks(more)
    BY <1>1, <1>4, <1>5, <2>2 DEF ActiveLinks
  <2>3. QED
    BY <2>1, <2>2
<1>7. QED
  BY <1>6 DEF ReverseLink, more, e

(* From an empty ledger on, whatever is approved and reversed: an approval *)
(* adds one link and a reversal takes away the one it names, so that a     *)
(* pair is linked once at most and may be linked again.                    *)
THEOREM LedgerIsExact ==
  /\ LedgerHolds(<<>>)
  /\ \A ledger : \A pair \in SUBSET AnyString, evidence \in SUBSET AnyString :
       LedgerHolds(ledger) /\ CanApprove(ledger, pair, evidence) =>
         /\ LedgerHolds(Approve(ledger, pair, evidence))
         /\ ActiveLinks(Approve(ledger, pair, evidence)) = ActiveLinks(ledger) \cup {Len(ledger) + 1}
  /\ \A ledger, link :
       LedgerHolds(ledger) /\ CanReverse(ledger, link) =>
         /\ LedgerHolds(ReverseLink(ledger, link))
         /\ ActiveLinks(ReverseLink(ledger, link)) = ActiveLinks(ledger) \ {link}
         /\ \A i \in ActiveLinks(ReverseLink(ledger, link)) :
              ReverseLink(ledger, link)[i].pair # ledger[link].pair
<1>1. LedgerHolds(<<>>)
  BY DEF LedgerHolds, ActiveLinks
<1>2. ASSUME NEW ledger, NEW pair \in SUBSET AnyString, NEW evidence \in SUBSET AnyString,
             LedgerHolds(ledger), CanApprove(ledger, pair, evidence)
      PROVE  LedgerHolds(Approve(ledger, pair, evidence))
  <2> DEFINE e == [action |-> "approved", pair |-> pair, evidence |-> evidence, reverses |-> 0]
             more == Append(ledger, e)
             n == Len(ledger)
  <2>1. ledger \in Seq(LinkEvent) /\ e \in LinkEvent
    BY <1>2 DEF LedgerHolds, LinkEvent
  <2>2. /\ more \in Seq(LinkEvent) /\ DOMAIN ledger = 1..n /\ n \in Nat /\ DOMAIN more = 1..(n + 1)
        /\ more[n + 1] = e /\ \A i \in 1..n : more[i] = ledger[i]
    BY <2>1, EventAppended
  <2>3. ActiveLinks(more) = ActiveLinks(ledger) \cup {n + 1}
    BY <1>2, ApprovedIsActive DEF Approve
  <2>4. \A i \in ActiveLinks(ledger) : i \in 1..n /\ ledger[i].pair # pair
    BY <1>2, <2>2 DEF CanApprove, ActiveLinks
  <2> HIDE DEF more
  <2>5. e.action # "reversed" /\ e.pair = pair
    OBVIOUS
  <2> HIDE DEF e
  <2>6. \A i, j \in ActiveLinks(more) : more[i].pair = more[j].pair => i = j
    BY <1>2, <2>2, <2>3, <2>4, <2>5 DEF LedgerHolds
  <2>7. \A j \in DOMAIN more : more[j].action = "reversed" =>
          LET i == more[j].reverses IN
          /\ i \in 1..(j - 1)
          /\ more[i].action = "approved" /\ more[i].pair = more[j].pair
          /\ \A k \in DOMAIN more :
               more[k].action = "reversed" /\ more[k].reverses = i => k = j
    BY <1>2, <2>2, <2>5 DEF LedgerHolds
  <2>8. QED
    BY <2>2, <2>6, <2>7 DEF LedgerHolds, Approve, more, e
<1>3. ASSUME NEW ledger, NEW link, LedgerHolds(ledger), CanReverse(ledger, link)
      PROVE  /\ LedgerHolds(ReverseLink(ledger, link))
             /\ \A i \in ActiveLinks(ReverseLink(ledger, link)) :
                  ReverseLink(ledger, link)[i].pair # ledger[link].pair
  <2> DEFINE e == [action |-> "reversed", pair |-> ledger[link].pair, evidence |-> {}, reverses |-> link]
             more == Append(ledger, e)
             n == Len(ledger)
  <2>1. link \in ActiveLinks(ledger) /\ ledger \in Seq(LinkEvent) /\ link \in 1..n /\ n \in Nat
    BY <1>3 DEF LedgerHolds, CanReverse, ActiveLinks
  <2>2. e \in LinkEvent
    <3>1. ledger[link] \in LinkEvent
      BY <2>1
    <3>2. QED
      BY <2>1, <3>1 DEF LinkEvent
  <2>3. /\ more \in Seq(LinkEvent) /\ DOMAIN ledger = 1..n /\ DOMAIN more = 1..(n + 1)
        /\ more[n + 1] = e /\ \A i \in 1..n : more[i] = ledger[i]
    BY <2>1, <2>2, EventAppended
  <2>4. ActiveLinks(more) = ActiveLinks(ledger) \ {link}
    BY <1>3, <2>1, ReversedIsInactive DEF ReverseLink
  <2>5. ActiveLinks(ledger) \subseteq 1..n
    BY <2>3 DEF ActiveLinks
  <2>6. /\ ledger[link].action = "approved"
        /\ \A k \in 1..n : ledger[k].action = "reversed" => ledger[k].reverses # link
    BY <2>1, <2>3 DEF ActiveLinks
  <2> HIDE DEF more
  <2>7. e.reverses = link /\ e.pair = ledger[link].pair
    OBVIOUS
  <2> HIDE DEF e
  <2>8. \A i, j \in ActiveLinks(more) : more[i].pair = more[j].pair => i = j
    BY <1>3, <2>3, <2>4, <2>5 DEF LedgerHolds
  <2>9. ASSUME NEW j \in DOMAIN more, more[j].action = "reversed"
        PROVE  LET i == more[j].reverses IN
               /\ i \in 1..(j - 1)
               /\ more[i].action = "approved" /\ more[i].pair = more[j].pair
               /\ \A k \in DOMAIN more :
                    more[k].action = "reversed" /\ more[k].reverses = i => k = j
    <3>1. CASE j \in 1..n
      BY <1>3, <2>3, <2>6, <2>7, <2>9, <3>1 DEF LedgerHolds
    <3>2. CASE j = n + 1
      BY <2>1, <2>3, <2>6, <2>7, <2>9, <3>2
    <3>3. QED
      BY <2>1, <2>3, <3>1, <3>2
  <2>10. LedgerHolds(more)
    BY <2>3, <2>8, <2>9 DEF LedgerHolds
  <2>11. \A i \in ActiveLinks(more) : more[i].pair # ledger[link].pair
    BY <1>3, <2>1, <2>3, <2>4, <2>5 DEF LedgerHolds
  <2>12. QED
    BY <2>10, <2>11 DEF ReverseLink, more, e
<1>4. QED
  BY <1>1, <1>2, <1>3, ApprovedIsActive, ReversedIsInactive DEF CanReverse

-----------------------------------------------------------------------------
(* What the executor may hold against an opportunity.                      *)

(* One record is known to hold what the other holds, or nothing.           *)
KnownLess(less, record, criteria) ==
  \A i \in DOMAIN criteria :
    Knowledge(less, criteria[i].field) \in {Unknown, Knowledge(record, criteria[i].field)}

(* A query that nowhere asks that something be known rules out nobody for  *)
(* what is not known of them: forgetting only ever makes more eligible.    *)
THEOREM IgnoranceExcludesNobody ==
  ASSUME NEW criteria, NEW record, NEW less, KnownLess(less, record, criteria),
         \A i \in DOMAIN criteria : criteria[i].operator # "is_known"
  PROVE  Excluded(criteria, less) => Excluded(criteria, record)
<1>1. SUFFICES ASSUME Excluded(criteria, less)
               PROVE  Excluded(criteria, record)
  OBVIOUS
<1>2. PICK i \in DOMAIN criteria :
        /\ criteria[i].strength = "hard_constraint"
        /\ Verdicts(criteria, less)[i] = "mismatch"
  BY <1>1 DEF Excluded
<1> DEFINE c == criteria[i]
<1>3. EvaluateCriterion(c, Knowledge(less, c.field)) = "mismatch"
  BY <1>2 DEF Verdicts
<1>4. c.operator # "is_known"
  OBVIOUS
<1>5. EvaluateCriterion(c, Unknown) # "mismatch"
  BY <1>4 DEF EvaluateCriterion, Unknown
<1>6. Knowledge(less, c.field) = Knowledge(record, c.field)
  BY <1>3, <1>5 DEF KnownLess
<1>7. Verdicts(criteria, record)[i] = "mismatch"
  BY <1>3, <1>6 DEF Verdicts
<1>8. QED
  BY <1>2, <1>7 DEF Excluded

(* Whatever order a query puts its criteria in and however often it        *)
(* repeats one, more criteria never make a record eligible, and more       *)
(* preferences never rule one out.                                         *)
THEOREM ConstraintsOnlyNarrow ==
  ASSUME NEW criteria, NEW more, NEW record, Range(criteria) \subseteq Range(more)
  PROVE  /\ Excluded(criteria, record) => Excluded(more, record)
         /\ (\A c \in Range(more) \ Range(criteria) : c.strength = "scored_preference") =>
              (Excluded(more, record) => Excluded(criteria, record))
<1> DEFINE Rules(c) == /\ c.strength = "hard_constraint"
                       /\ EvaluateCriterion(c, Knowledge(record, c.field)) = "mismatch"
<1>1. \A s \in {criteria, more} : Excluded(s, record) <=> \E c \in Range(s) : Rules(c)
  <2>1. ASSUME NEW s \in {criteria, more}
        PROVE  Excluded(s, record) <=> \E i \in DOMAIN s : Rules(s[i])
    BY DEF Excluded, Verdicts
  <2>2. QED
    BY <2>1 DEF Range
<1>2. \A c : Rules(c) => c.strength # "scored_preference"
  OBVIOUS
<1> HIDE DEF Rules
<1>3. QED
  BY <1>1, <1>2

-----------------------------------------------------------------------------
(* The preliminary verdict on a candidate.                                 *)

ReadSet == [AxisNames -> [stance : Stances, confidence : -1..100]]
NothingRead == [stance |-> "unknown", confidence |-> -1]
FounderSet == [known : BOOLEAN, provisional : BOOLEAN]

(* The reads with one axis forgotten.                                      *)
Forgetting(reads, axis) == [reads EXCEPT ![axis] = NothingRead]

LEMMA Forgotten ==
  ASSUME NEW reads \in ReadSet, NEW axis \in AxisNames
  PROVE  /\ Forgetting(reads, axis) \in ReadSet
         /\ Forgetting(reads, axis)[axis] = NothingRead
         /\ \A a \in AxisNames \ {axis} : Forgetting(reads, axis)[a] = reads[a]
  BY DEF Forgetting, ReadSet, NothingRead, Stances

LEMMA NamesForgotten ==
  ASSUME NEW reads \in ReadSet, NEW axis \in AxisNames
  PROVE  /\ axis \in Names(Forgetting(reads, axis), "unknown")
         /\ \A stance \in {"positive", "negative"} :
              Names(Forgetting(reads, axis), stance) = Names(reads, stance) \ {axis}
  BY Forgotten DEF Names, NothingRead

(* A verdict that closes a case, whichever way, needs everything to be     *)
(* known, and then nothing is left to be asked for.                        *)
LEMMA ClosingIsComplete ==
  ASSUME NEW reads \in ReadSet, NEW founder \in FounderSet, NEW level
  PROVE  /\ ConvictionLevel(reads, founder, level) \in {"pass", "hold"} =>
              Complete(reads, founder, level)
         /\ Complete(reads, founder, level) <=> EvidenceRequests(reads, founder, level) = {}
<1>1. ConvictionLevel(reads, founder, level) \in {"pass", "hold"} =>
        Complete(reads, founder, level)
  BY DEF ConvictionLevel
<1>2. Complete(reads, founder, level) => EvidenceRequests(reads, founder, level) = {}
  BY DEF Complete, EvidenceRequests
<1>3. EvidenceRequests(reads, founder, level) = {} => Complete(reads, founder, level)
  BY DEF Complete, EvidenceRequests
<1>4. QED
  BY <1>1, <1>2, <1>3

(* Nobody is passed over or put on hold while an axis, the coverage or the *)
(* founder's record is not known; nobody is pursued over a negative axis   *)
(* or on thin coverage; and a pursuit stands when an axis that was not     *)
(* positive, or whose confidence is not known, is forgotten.               *)
THEOREM VerdictsAreCautious ==
  ASSUME NEW reads \in ReadSet, NEW founder \in FounderSet, NEW level \in {"low", "medium", "high"}
  PROVE  LET verdict == ConvictionLevel(reads, founder, level)
             After(axis) == ConvictionLevel(Forgetting(reads, axis), founder, level) IN
         /\ verdict \in {"pass", "hold"} => EvidenceRequests(reads, founder, level) = {}
         /\ verdict = "pursue" => level # "low" /\ \A a \in AxisNames : reads[a].stance # "negative"
         /\ \A a \in AxisNames :
              /\ After(a) \notin {"pass", "hold"}
              /\ verdict = "pursue" /\ (reads[a].stance # "positive" \/ reads[a].confidence < 35) =>
                   After(a) = "pursue"
<1> DEFINE verdict == ConvictionLevel(reads, founder, level)
           After(axis) == ConvictionLevel(Forgetting(reads, axis), founder, level)
<1>1. verdict \in {"pass", "hold"} => EvidenceRequests(reads, founder, level) = {}
  BY ClosingIsComplete
<1>2. verdict = "pursue" => /\ Names(reads, "negative") = {} /\ level # "low"
                           /\ ConfidentPositiveCount(reads) >= 2
  BY DEF ConvictionLevel
<1>3. Names(reads, "negative") = {} => \A a \in AxisNames : reads[a].stance # "negative"
  BY DEF Names
<1>4. ASSUME NEW a \in AxisNames
      PROVE  After(a) \notin {"pass", "hold"}
  <2>1. Names(Forgetting(reads, a), "unknown") # {}
    BY NamesForgotten
  <2>2. ~Complete(Forgetting(reads, a), founder, level)
    BY <2>1 DEF Complete
  <2>3. Forgetting(reads, a) \in ReadSet
    BY Forgotten
  <2>4. QED
    BY <2>2, <2>3, ClosingIsComplete
<1>5. ASSUME NEW a \in AxisNames, verdict = "pursue",
             reads[a].stance # "positive" \/ reads[a].confidence < 35
      PROVE  After(a) = "pursue"
  <2> DEFINE less == Forgetting(reads, a)
  <2>1. /\ Names(less, "negative") = {}
        /\ Names(less, "positive") = Names(reads, "positive") \ {a}
        /\ a \in Names(less, "unknown")
    BY <1>2, <1>5, NamesForgotten
  <2>2. \A x \in AxisNames : x # a => less[x] = reads[x]
    BY Forgotten
  <2> HIDE DEF less
  <2>3. {x \in Names(less, "positive") : less[x].confidence >= 35} =
          {x \in Names(reads, "positive") : reads[x].confidence >= 35}
    <3>1. ~(reads[a].stance = "positive" /\ reads[a].confidence >= 35)
      BY <1>5 DEF ReadSet
    <3>2. QED
      BY <2>1, <2>2, <3>1 DEF Names
  <2>4. ConfidentPositiveCount(less) >= 2
    BY <1>2, <1>5, <2>3 DEF ConfidentPositiveCount
  <2>5. ConvictionLevel(less, founder, level) = "pursue"
    BY <1>2, <1>5, <2>1, <2>4 DEF ConvictionLevel
  <2>6. QED
    BY <2>5 DEF less
<1>6. QED
  BY <1>1, <1>2, <1>3, <1>4, <1>5

-----------------------------------------------------------------------------
(* What a model's answer may be made into.                                 *)
CitedObservation(E) ==
  [factor : FounderFactors, tier : Tiers, grade : {"self_asserted", "corroborated", "outcome_backed"},
   known : BOOLEAN, evidenced : BOOLEAN, cited : SUBSET E]

(* Claims taken from a closed snapshot bring the evidence that closes them. *)
LEMMA SelectionIsClosed ==
  ASSUME NEW s, SnapshotHolds(s), NEW ids
  PROVE  /\ CitationsClosed(Selected(s, ids), EvidenceOf(s, Selected(s, ids)))
         /\ ids \subseteq Ids(s.claims) => Ids(Selected(s, ids)) = ids
<1> DEFINE claims == Selected(s, ids)
           evidence == EvidenceOf(s, claims)
<1>1. /\ UniqueIds(s.claims) /\ UniqueIds(s.evidence)
      /\ \A c \in s.claims : /\ Cites(c, c.supports, "supports", s.evidence)
                             /\ Cites(c, c.counters, "refutes", s.evidence)
  BY DEF SnapshotHolds, CitationsClosed
<1>2. claims \subseteq s.claims /\ evidence \subseteq s.evidence
  BY DEF Selected, EvidenceOf
<1>3. UniqueIds(claims) /\ UniqueIds(evidence)
  BY <1>1, <1>2 DEF UniqueIds
<1>4. \A e \in s.evidence : e \in evidence <=> \E c \in claims : e.id \in c.supports \cup c.counters
  BY DEF EvidenceOf
<1> HIDE DEF claims, evidence
<1>5. ASSUME NEW c \in claims, NEW stance, NEW cited, Cites(c, cited, stance, s.evidence),
             cited \subseteq c.supports \cup c.counters
      PROVE  Cites(c, cited, stance, evidence)
  BY <1>4, <1>5 DEF Cites
<1>6. \A c \in claims : /\ Cites(c, c.supports, "supports", evidence)
                        /\ Cites(c, c.counters, "refutes", evidence)
  <2>1. SUFFICES ASSUME NEW c \in claims
                 PROVE  /\ Cites(c, c.supports, "supports", evidence)
                        /\ Cites(c, c.counters, "refutes", evidence)
    OBVIOUS
  <2>2. Cites(c, c.supports, "supports", s.evidence) /\ Cites(c, c.counters, "refutes", s.evidence)
    BY <1>1, <1>2
  <2>3. c.supports \subseteq c.supports \cup c.counters /\ c.counters \subseteq c.supports \cup c.counters
    OBVIOUS
  <2>4. QED
    BY <1>5, <2>2, <2>3
<1>7. \A e \in evidence : e.claim \in Ids(claims)
  <2>1. SUFFICES ASSUME NEW e \in evidence
                 PROVE  e.claim \in Ids(claims)
    OBVIOUS
  <2>2. e \in s.evidence
    BY <1>2
  <2>3. PICK c \in claims : e.id \in c.supports \cup c.counters
    BY <1>4, <2>2
  <2>4. c \in s.claims
    BY <1>2
  <2>5. \E f \in s.evidence : f.id = e.id /\ f.claim = c.id
    BY <1>1, <2>3, <2>4 DEF Cites
  <2>6. e.claim = c.id
    BY <1>1, <2>2, <2>5 DEF UniqueIds
  <2>7. QED
    BY <2>6 DEF Ids
<1>8. CitationsClosed(claims, evidence)
  BY <1>3, <1>6, <1>7 DEF CitationsClosed
<1>9. ids \subseteq Ids(s.claims) => Ids(claims) = ids
  BY DEF Ids, claims, Selected
<1>10. QED
  BY <1>8, <1>9 DEF claims, evidence

LEMMA AxisAnswerHolds ==
  ASSUME NEW E, NEW s, SnapshotHolds(s), s.observations \in Seq(CitedObservation(E)), NEW p
  PROVE  AxisAnswerIsGrounded(s, p)
<1> DEFINE ids == p.supporting \cup p.counter
           claims == Selected(s, ids)
           result == AxisResult(s, p)
           grounds == {c \in result.claims : c.id \in p.supporting}
           builder == BuilderSignalRead(s.observations)
<1>1. \A q : /\ AxisResult(s, q).rating = q.rating
             /\ AxisResult(s, q).claims = Selected(s, q.supporting \cup q.counter)
             /\ AxisResult(s, q).evidence = EvidenceOf(s, Selected(s, q.supporting \cup q.counter))
             /\ AxisResult(s, q).supporting = q.supporting /\ AxisResult(s, q).counter = q.counter
  BY DEF AxisResult
<1>2. ASSUME NEW q, AxisChecks(s, q)
      PROVE  /\ AxisResultHolds(AxisResult(s, q)) /\ ~Contested(AxisResult(s, q).claims)
             /\ Ids(Selected(s, q.supporting \cup q.counter)) = q.supporting \cup q.counter
  <2> DEFINE cited == q.supporting \cup q.counter
             r == AxisResult(s, q)
  <2>1. /\ q.supporting \cap q.counter = {} /\ cited \subseteq Ids(s.claims)
        /\ \A c \in Selected(s, cited) : c.status = "supported"
    BY <1>2 DEF AxisChecks, Selectable
  <2>2. CitationsClosed(Selected(s, cited), EvidenceOf(s, Selected(s, cited)))
        /\ Ids(Selected(s, cited)) = cited
    BY <2>1, SelectionIsClosed
  <2>3. /\ r.claims = Selected(s, cited) /\ r.evidence = EvidenceOf(s, Selected(s, cited))
        /\ r.supporting = q.supporting /\ r.counter = q.counter
    BY <1>1
  <2>4. r.supporting \cup r.counter \subseteq Ids(r.claims) /\ r.supporting \cap r.counter = {}
    BY <2>1, <2>2, <2>3
  <2> HIDE DEF r, cited
  <2>5. AxisResultHolds(r) /\ ~Contested(r.claims)
    BY <2>1, <2>2, <2>3, <2>4 DEF AxisResultHolds, Contested
  <2>6. QED
    BY <2>2, <2>5 DEF r, cited
<1>3. AxisChecks(s, p) =>
        /\ AxisResultHolds(result) /\ ~Contested(result.claims)
        /\ p.rating # "unknown" => \E c \in grounds, e \in s.evidence :
                                     e.id \in c.supports /\ e.stance = "supports"
  <2>1. SUFFICES ASSUME AxisChecks(s, p)
                 PROVE  /\ AxisResultHolds(result) /\ ~Contested(result.claims)
                        /\ p.rating # "unknown" => \E c \in grounds, e \in s.evidence :
                                                     e.id \in c.supports /\ e.stance = "supports"
    OBVIOUS
  <2>2. AxisResultHolds(result) /\ ~Contested(result.claims) /\ Ids(claims) = ids
    BY <1>2, <2>1
  <2>3. ASSUME p.rating # "unknown"
        PROVE  \E c \in grounds, e \in s.evidence : e.id \in c.supports /\ e.stance = "supports"
    <3>1. PICK id \in p.supporting : TRUE
      BY <2>1, <2>3 DEF AxisChecks, DirectionIsSupported
    <3>2. PICK c \in claims : c.id = id
      BY <2>2, <3>1 DEF Ids
    <3>3. c.supports # {} /\ c \in s.claims
      BY <2>1, <3>2 DEF AxisChecks, Selectable, Selected
    <3>4. PICK x \in c.supports : TRUE
      BY <3>3
    <3>5. Cites(c, c.supports, "supports", s.evidence)
      BY <3>3 DEF SnapshotHolds, CitationsClosed
    <3>6. PICK e \in s.evidence : e.id = x /\ e.stance = "supports"
      BY <3>4, <3>5 DEF Cites
    <3>7. c \in grounds
      BY <1>1, <3>1, <3>2
    <3>8. QED
      BY <3>4, <3>6, <3>7
  <2>4. QED
    BY <2>2, <2>3
<1>4. \A q : /\ FounderResult(s, q).rating = q.rating
             /\ FounderResult(s, q).claims = AxisResult(s, q).claims
             /\ FounderResult(s, q).evidence = AxisResult(s, q).evidence
             /\ FounderResult(s, q).supporting = AxisResult(s, q).supporting
             /\ FounderResult(s, q).counter = AxisResult(s, q).counter
             /\ FounderResult(s, q).builder = builder
             /\ FounderResult(s, q).gap.builder = FounderResult(s, q).builder.score
             /\ FounderResult(s, q).gap.fundability = FounderResult(s, q).fundability.score
  BY <1>1 DEF FounderResult, BuilderFundabilityGap
<1>5. builder.band = FounderBand(builder.score \div 100)
  BY DEF BuilderSignalRead, FounderRead
<1>6. ASSUME NEW q, FounderChecks(s, q), q.rating # "strong" \/ builder.band = "strong"
      PROVE  FounderAccepted(s, q)
  <2> DEFINE r == FounderResult(s, q)
  <2>1. AxisResultHolds(AxisResult(s, q))
    BY <1>2, <1>6 DEF FounderChecks
  <2>2. AxisResultHolds(r)
    <3>1. /\ r.claims = AxisResult(s, q).claims /\ r.evidence = AxisResult(s, q).evidence
          /\ r.supporting = AxisResult(s, q).supporting /\ r.counter = AxisResult(s, q).counter
      BY <1>4
    <3> HIDE DEF r
    <3>2. QED
      BY <2>1, <3>1 DEF AxisResultHolds
  <2>3. /\ r.rating = q.rating /\ r.builder = builder /\ r.gap.builder = r.builder.score
        /\ r.gap.fundability = r.fundability.score
    BY <1>4
  <2> HIDE DEF r, builder
  <2>4. FounderResultHolds(r)
    BY <1>5, <1>6, <2>2, <2>3 DEF FounderResultHolds
  <2>5. QED
    BY <1>6, <2>4 DEF FounderAccepted, r
<1>7. FounderChecks(s, p) /\ ~FounderAccepted(s, p) => p.rating = "strong" /\ builder.band # "strong"
  BY <1>6
<1>8. FounderAccepted(s, p) /\ p.rating = "strong" =>
        /\ \E i \in DOMAIN s.observations : s.observations[i].factor \notin Context
        /\ \A c \in grounds : ~c.proxy
  <2>1. SUFFICES ASSUME FounderAccepted(s, p), p.rating = "strong"
                 PROVE  /\ \E i \in DOMAIN s.observations : s.observations[i].factor \notin Context
                        /\ \A c \in grounds : ~c.proxy
    OBVIOUS
  <2>2. \A c \in grounds : ~c.proxy
    <3>1. \A c \in Selected(s, p.supporting) : ~c.proxy
      BY <2>1 DEF FounderAccepted, FounderChecks
    <3>2. \A c \in grounds : c \in Selected(s, p.supporting)
      BY <1>1 DEF Selected
    <3>3. QED
      BY <3>1, <3>2
  <2>3. \E i \in DOMAIN s.observations : s.observations[i].factor \notin Context
    <3>1. SUFFICES ASSUME \A i \in DOMAIN s.observations : s.observations[i].factor \in Context
                   PROVE  FALSE
      OBVIOUS
    <3> DEFINE o == s.observations
               D == DOMAIN o
               f == [i \in D |-> GradedContribution(o[i], BuilderWeights)]
    <3>2. IsFiniteSet(D)
      <4>1. D = 1..Len(o) /\ Len(o) \in Nat
        OBVIOUS
      <4>2. QED
        BY <4>1, FS_Interval
    <3>3. \A i \in D : f[i] = 0
      <4>1. SUFFICES ASSUME NEW i \in D
                     PROVE  GradedContribution(o[i], BuilderWeights) = 0
        OBVIOUS
      <4>2. o[i] \in CitedObservation(E) /\ o[i].factor \in Context
        BY <3>1
      <4>3. BuilderWeights[o[i].factor] = 0
        BY <4>2, WeightsAre
      <4> DEFINE x == o[i]
                 halves == Halves[x.tier]
                 tenths == Grade[x.grade]
      <4>4. halves \in Nat /\ tenths \in Nat
        <5>1. x.tier \in Tiers /\ x.grade \in {"self_asserted", "corroborated", "outcome_backed"}
          BY <4>2 DEF CitedObservation
        <5> HIDE DEF x
        <5>2. QED
          BY <5>1 DEF Halves, Grade, Tiers
      <4>5. 5 * 0 * halves * tenths = 0
        <5> HIDE DEF halves, tenths
        <5>1. QED
          BY <4>4
      <4>6. 5 * BuilderWeights[x.factor] * halves * tenths = 0
        BY <4>3, <4>5
      <4> HIDE DEF x
      <4>7. GradedContribution(x, BuilderWeights) = 0
        BY <4>6 DEF GradedContribution
      <4>8. QED
        BY <4>7 DEF x
    <3>4. SumFunctionOnSet(f, D) = 0
      <4> HIDE DEF f, D
      <4>1. QED
        BY <3>2, <3>3, SumOfZeros
    <3>5. SumFunction(f) = 0
      BY <3>4 DEF SumFunction
    <3>6. builder.score = Hundredths(5000) /\ builder.band = FounderBand(Hundredths(5000) \div 100)
      <4>1. builder.score = Hundredths(5000 + SumFunction(f))
            /\ builder.band = FounderBand(Hundredths(5000 + SumFunction(f)) \div 100)
        BY DEF BuilderSignalRead, FounderRead
      <4> HIDE DEF f, builder
      <4>2. 5000 + SumFunction(f) = 5000
        BY <3>5
      <4>3. QED
        BY <4>1, <4>2
    <3>7. Hundredths(5000) = 5000
      <4>1. 5000 \in Int /\ 5000 <= 5000 /\ 0 <= 5000 /\ 5000 <= 10000
        OBVIOUS
      <4>2. QED
        BY <4>1, HundredthsGrow
    <3>8. builder.band = FounderBand(50)
      <4>1. 5000 \div 100 = 50
        OBVIOUS
      <4> HIDE DEF builder
      <4>2. QED
        BY <3>6, <3>7, <4>1
    <3>9. FounderBand(50) = "baseline"
      BY DEF FounderBand
    <3>10. FounderResultHolds(FounderResult(s, p)) /\ FounderResult(s, p).rating = "strong"
      BY <1>4, <2>1 DEF FounderAccepted
    <3>11. FounderBand(FounderResult(s, p).builder.score \div 100) = "strong"
      BY <3>10 DEF FounderResultHolds
    <3>12. FounderBand(builder.score \div 100) = "strong"
      <4>1. FounderResult(s, p).builder = builder
        BY <1>4
      <4> HIDE DEF builder
      <4>2. QED
        BY <3>11, <4>1
    <3> HIDE DEF builder
    <3>13. QED
      BY <1>5, <3>8, <3>9, <3>12
  <2>4. QED
    BY <2>2, <2>3
<1>9. FounderAccepted(s, FallbackAxis)
  <2>1. /\ FallbackAxis.rating = "unknown" /\ FallbackAxis.supporting = {}
        /\ FallbackAxis.counter = {} /\ ~FallbackAxis.proxy_language
    BY DEF FallbackAxis
  <2>2. Selected(s, {}) = {} /\ {} \cup {} = {}
    BY DEF Selected
  <2>3. FounderChecks(s, FallbackAxis)
    BY <2>1, <2>2 DEF FounderChecks, AxisChecks, DirectionIsSupported, Selectable
  <2>4. FallbackAxis.rating # "strong"
    BY <2>1
  <2>5. QED
    BY <1>6, <2>3, <2>4
<1> HIDE DEF result, builder
<1>10. QED
  BY <1>3, <1>7, <1>8, <1>9 DEF AxisAnswerIsGrounded, result, builder

LEMMA MemoAnswerHolds ==
  ASSUME NEW s, SnapshotHolds(s), NEW p
  PROVE  MemoAnswerIsGrounded(s, p)
<1>1. \A q : /\ MemoResult(s, q).sections = q.sections /\ MemoResult(s, q).reasons = q.reasons
             /\ MemoResult(s, q).material = Selected(s, CitedClaims(q))
             /\ MemoResult(s, q).evidence = EvidenceOf(s, Selected(s, CitedClaims(q)))
  BY DEF MemoResult
<1>2. ASSUME NEW q, Selectable(s, CitedClaims(q), {})
      PROVE  /\ MemoResultHolds(MemoResult(s, q)) /\ ~Contested(MemoResult(s, q).material)
             /\ CitedClaims(q) \subseteq Ids(s.claims)
             /\ \A c \in Selected(s, CitedClaims(q)) : c.supports # {}
  <2> DEFINE r == MemoResult(s, q)
             ids == CitedClaims(q)
  <2>1. ids \cup {} = ids
    OBVIOUS
  <2>2. ids \subseteq Ids(s.claims)
        /\ \A c \in Selected(s, ids) : c.status = "supported" /\ c.supports # {}
    BY <1>2, <2>1 DEF Selectable
  <2>3. CitationsClosed(Selected(s, ids), EvidenceOf(s, Selected(s, ids)))
        /\ Ids(Selected(s, ids)) = ids
    BY <2>2, SelectionIsClosed
  <2>4. /\ r.material = Selected(s, ids) /\ r.evidence = EvidenceOf(s, Selected(s, ids))
        /\ r.sections = q.sections /\ r.reasons = q.reasons
    BY <1>1
  <2>5. CitedClaims(r) = ids
    BY <2>4 DEF CitedClaims, SectionClaims
  <2> HIDE DEF r, ids
  <2>6. MemoResultHolds(r) /\ ~Contested(r.material)
    BY <2>2, <2>3, <2>4, <2>5 DEF MemoResultHolds, Contested
  <2>7. QED
    BY <2>2, <2>6 DEF r, ids
<1>3. MemoChecks(s, p) =>
        /\ MemoResultHolds(MemoResult(s, p))
        /\ ~Contested(MemoResult(s, p).material)
        /\ p.action = "advance" => \A reason \in p.reasons : \E c \in s.claims :
                                     c.id \in reason /\ c.supports # {}
  <2>1. SUFFICES ASSUME MemoChecks(s, p)
                 PROVE  /\ MemoResultHolds(MemoResult(s, p))
                        /\ ~Contested(MemoResult(s, p).material)
                        /\ p.action = "advance" => \A reason \in p.reasons : \E c \in s.claims :
                                                     c.id \in reason /\ c.supports # {}
    OBVIOUS
  <2>2. Selectable(s, CitedClaims(p), {})
    BY <2>1 DEF MemoChecks
  <2>3. /\ MemoResultHolds(MemoResult(s, p)) /\ ~Contested(MemoResult(s, p).material)
        /\ CitedClaims(p) \subseteq Ids(s.claims) /\ \A c \in Selected(s, CitedClaims(p)) : c.supports # {}
    BY <1>2, <2>2
  <2>4. ASSUME p.action = "advance", NEW reason \in p.reasons
        PROVE  \E c \in s.claims : c.id \in reason /\ c.supports # {}
    <3>1. reason # {}
      BY <2>1, <2>4 DEF MemoChecks
    <3>2. PICK id \in reason : TRUE
      BY <3>1
    <3>3. id \in CitedClaims(p)
      <4>1. reason \in p.reasons /\ id \in reason
        BY <2>4, <3>2
      <4>2. id \in UNION p.reasons
        BY <4>1
      <4>3. QED
        BY <4>2 DEF CitedClaims
    <3>4. PICK c \in s.claims : c.id = id
      BY <2>3, <3>3 DEF Ids
    <3>5. c.supports # {}
      BY <2>3, <3>3, <3>4 DEF Selected
    <3>6. QED
      BY <3>2, <3>4, <3>5
  <2>5. QED
    BY <2>3, <2>4
<1> DEFINE memo == FallbackMemo
<1>4. /\ memo.sections = [i \in 1..5 |-> [kind |-> SortedSections[i], known |-> FALSE, claims |-> {}]]
      /\ memo.reasons = {{}} /\ memo.action = "needs_information" /\ memo.contradictions = {}
  BY DEF FallbackMemo
<1> HIDE DEF memo
<1>5. /\ DOMAIN memo.sections = 1..5 /\ Len(memo.sections) = 5
      /\ \A i \in 1..5 : /\ memo.sections[i].kind = SortedSections[i]
                          /\ memo.sections[i].known = FALSE /\ memo.sections[i].claims = {}
  BY <1>4
<1>6. {memo.sections[i].kind : i \in 1..5} = RequiredSections
  <2>1. /\ SortedSections[1] = "company_snapshot" /\ SortedSections[2] = "investment_hypotheses"
        /\ SortedSections[3] = "problem_and_product" /\ SortedSections[4] = "swot"
        /\ SortedSections[5] = "traction_and_kpis"
    BY DEF SortedSections
  <2>2. 1..5 = {1, 2, 3, 4, 5}
    OBVIOUS
  <2>3. \A x : x \in {memo.sections[i].kind : i \in 1..5} <=> \E i \in 1..5 : x = SortedSections[i]
    BY <1>5
  <2>4. \A x : (\E i \in 1..5 : x = SortedSections[i]) <=> x \in RequiredSections
    BY <2>1, <2>2 DEF RequiredSections
  <2>5. QED
    BY <2>3, <2>4
<1>7. CitedClaims(memo) = {}
  <2>1. \A x \in Range(memo.sections) : x.claims = {}
    BY <1>5 DEF Range
  <2>2. UNION {x.claims : x \in Range(memo.sections)} = {}
    BY <2>1
  <2>3. UNION memo.reasons = {}
    BY <1>4
  <2>4. QED
    BY <2>2, <2>3 DEF CitedClaims, SectionClaims
<1>8. Selected(s, {}) = {} /\ Selectable(s, {}, {})
  BY DEF Selected, Selectable
<1>9. MemoChecks(s, memo)
  <2>1. \A i \in DOMAIN memo.sections : SectionHolds(memo.sections[i])
    BY <1>5 DEF SectionHolds
  <2>2. Selectable(s, CitedClaims(memo), {})
    BY <1>7, <1>8
  <2>3. memo.contradictions \subseteq Ids(s.contradictions)
    BY <1>4
  <2>4. memo.action \notin {"needs_information", "manual_review"} => {} \notin memo.reasons
    BY <1>4
  <2>5. QED
    BY <1>5, <1>6, <2>1, <2>2, <2>3, <2>4 DEF MemoChecks
<1>10. MemoResultHolds(MemoResult(s, memo)) /\ MemoResult(s, memo).material = {}
  <2>1. Selectable(s, CitedClaims(memo), {})
    BY <1>7, <1>8
  <2>2. MemoResult(s, memo).material = Selected(s, CitedClaims(memo))
    BY <1>1
  <2>3. QED
    BY <1>2, <1>7, <1>8, <2>1, <2>2
<1>11. AdversarialChecks(s, p) => AdversarialResultHolds(AdversarialResult(s))
  <2>1. /\ AdversarialResult(s).claims = s.claims /\ AdversarialResult(s).evidence = s.evidence
        /\ AdversarialResult(s).contradictions = s.contradictions
    BY DEF AdversarialResult
  <2>2. QED
    BY <2>1 DEF AdversarialResultHolds, SnapshotHolds
<1>12. QED
  BY <1>3, <1>9, <1>10, <1>11 DEF MemoAnswerIsGrounded, memo

(* Whatever a model answers about whatever closed snapshot: what passes    *)
(* the checks makes a well-formed result that leans on supported claims,   *)
(* the only answer refused later is a strong founder without substance,    *)
(* and the fallback is always accepted.                                    *)
THEOREM AnswersAreGrounded ==
  ASSUME NEW E, SnapshotHolds(case.snapshot),
         \/ case.kind = "axis_answer" /\ case.snapshot.observations \in Seq(CitedObservation(E))
         \/ case.kind = "memo_answer"
  PROVE  EvidenceIsGrounded
<1>1. CASE case.kind = "axis_answer" /\ case.snapshot.observations \in Seq(CitedObservation(E))
  <2>1. AxisAnswerIsGrounded(case.snapshot, case.proposal)
    BY <1>1, AxisAnswerHolds
  <2>2. QED
    BY <1>1, <2>1 DEF EvidenceIsGrounded
<1>2. CASE case.kind = "memo_answer"
  <2>1. MemoAnswerIsGrounded(case.snapshot, case.proposal)
    BY MemoAnswerHolds
  <2>2. QED
    BY <1>2, <2>1 DEF EvidenceIsGrounded
<1>3. QED
  BY <1>1, <1>2
-----------------------------------------------------------------------------
(* The process's boundary: documents sent to the provider, and the ledger. *)

AnyModelName == [name : STRING, ocr4 : BOOLEAN, numbered : BOOLEAN]
AnyOcrSettings ==
  {s \in [enabled : BOOLEAN, public_approved : BOOLEAN, policy : Policies, model : AnyModelName,
          max_input : Nat, max_response : Nat, max_pages : Nat] : SettingsHold(s)}
AnyDocument == [classification : Classifications, is_pdf : BOOLEAN, size : Nat]
AnyOcrAnswer ==
  [reached : BOOLEAN, size : Nat, success : BOOLEAN, parsed : BOOLEAN, model : AnyModelName,
   pages : Seq(Int), processed : Int, document : Int]
AnyModelCard ==
  [reached : BOOLEAN, size : Nat, success : BOOLEAN, parsed : BOOLEAN, id : AnyModelName,
   aliases : Seq(AnyModelName)]

(* Whether the document leaves the process.                                *)
Leaves(settings, request) ==
  Authorize(settings, request.classification) = "granted" /\ InputHolds(settings, request)

(* What an extraction sends, asks and answers, case by case.               *)
LEMMA ExtractionCases ==
  ASSUME NEW settings, NEW request, NEW answer, NEW card
  PROVE  LET result == Extract(settings, request, answer, card)
             resolved == ResolveConcreteModel(settings, answer.model, card)
             asked == IF answer.model = Latest /\ ModelMatchesRequest(settings, Latest) THEN 1 ELSE 0
             named == [answer EXCEPT !.model = resolved.model]
         IN /\ ~Leaves(settings, request) => result.sent = 0 /\ result.asked = 0 /\ result.code # "ok"
            /\ Leaves(settings, request) => result.sent = 1
            /\ result.asked \in {0, asked}
            /\ Leaves(settings, request) /\ Received(answer, settings) = "ok"
                 /\ resolved.code = "ok" /\ ResponseHolds(settings, request, named)
                 => result = [code |-> "ok", sent |-> 1, asked |-> asked, model |-> resolved.model,
                              pages |-> answer.pages]
            /\ result.code = "ok" =>
                 /\ Leaves(settings, request) /\ Received(answer, settings) = "ok"
                 /\ resolved.code = "ok" /\ ResponseHolds(settings, request, named)
<1> DEFINE authorized == Authorize(settings, request.classification)
           resolved == ResolveConcreteModel(settings, answer.model, card)
           asked == IF answer.model = Latest /\ ModelMatchesRequest(settings, Latest) THEN 1 ELSE 0
           named == [answer EXCEPT !.model = resolved.model]
           result == Extract(settings, request, answer, card)
           received == IF Received(answer, settings) # "ok" THEN Refusal(Received(answer, settings), 1)
             ELSE IF resolved.code # "ok" THEN [code |-> resolved.code, sent |-> 1, asked |-> asked]
             ELSE IF ~ResponseHolds(settings, request, named)
               THEN [code |-> "response_invalid", sent |-> 1, asked |-> asked]
             ELSE [code |-> "ok", sent |-> 1, asked |-> asked, model |-> resolved.model,
                   pages |-> answer.pages]
<1>1. authorized \in {"disabled", "granted", "policy_denied"}
  BY DEF Authorize
<1>2. result = IF authorized # "granted" THEN Refusal(authorized, 0)
               ELSE IF ~InputHolds(settings, request) THEN Refusal("input_invalid", 0) ELSE received
  BY DEF Extract
<1> HIDE DEF resolved, asked, named, result, authorized
<1>3. asked \in {0, 1}
  BY DEF asked
<1>4. ~Leaves(settings, request) => result.sent = 0 /\ result.asked = 0 /\ result.code # "ok"
  BY <1>1, <1>2 DEF Leaves, Refusal, authorized
<1>5. ASSUME Leaves(settings, request)
      PROVE  /\ result.sent = 1 /\ result.asked \in {0, asked}
             /\ Received(answer, settings) = "ok"
                  /\ resolved.code = "ok" /\ ResponseHolds(settings, request, named)
                  => result = [code |-> "ok", sent |-> 1, asked |-> asked, model |-> resolved.model,
                               pages |-> answer.pages]
             /\ result.code = "ok" =>
                  /\ Received(answer, settings) = "ok"
                  /\ resolved.code = "ok" /\ ResponseHolds(settings, request, named)
  <2>1. result = received
    BY <1>2, <1>5 DEF Leaves, authorized
  <2>2. QED
    BY <1>3, <2>1 DEF Refusal
<1>6. QED
  BY <1>4, <1>5 DEF resolved, asked, named, result

(* A model resolved is the one reported, or the only version on the card.  *)
LEMMA ModelIsResolved ==
  ASSUME NEW settings \in AnyOcrSettings, NEW reported, NEW card \in AnyModelCard,
         ResolveConcreteModel(settings, reported, card).code = "ok"
  PROVE  LET model == ResolveConcreteModel(settings, reported, card).model
             asked == IF reported = Latest /\ ModelMatchesRequest(settings, Latest) THEN 1 ELSE 0
         IN /\ model # Latest /\ model.ocr4 /\ settings.model \in {Latest, model}
            /\ asked = 0 => model = reported
            /\ asked = 1 =>
                 /\ settings.model = Latest
                 /\ \E i \in DOMAIN card.aliases :
                      \A j \in DOMAIN card.aliases :
                        IF j = i THEN card.aliases[j] = model /\ model.numbered
                        ELSE ~card.aliases[j].numbered
<1> DEFINE resolved == ResolveConcreteModel(settings, reported, card)
           model == resolved.model
           asked == IF reported = Latest /\ ModelMatchesRequest(settings, Latest) THEN 1 ELSE 0
           listed == ConcreteAliases(card)
           place == CHOOSE i \in listed : TRUE
<1>1. /\ settings.model = Latest \/ settings.model.ocr4
      /\ Latest.ocr4 = FALSE
  BY DEF AnyOcrSettings, SettingsHold, Latest, ModelName
<1>2. \A r : ModelMatchesRequest(settings, r) =>
        /\ r # Latest => r.ocr4 /\ settings.model \in {Latest, r}
        /\ r = Latest => settings.model = Latest
  BY <1>1 DEF ModelMatchesRequest
<1>3. ModelMatchesRequest(settings, reported)
  BY DEF ResolveConcreteModel, NotResolved
<1>4. CASE reported # Latest
  <2>1. resolved = Resolved(reported)
    BY <1>3, <1>4 DEF ResolveConcreteModel
  <2>2. model = reported /\ asked = 0
    BY <1>4, <2>1 DEF Resolved
  <2> HIDE DEF model, asked
  <2>3. QED
    BY <1>2, <1>3, <1>4, <2>2 DEF model, asked, resolved
<1>5. CASE reported = Latest
  <2>1. resolved = IF Received(card, settings) # "ok" THEN NotResolved(Received(card, settings))
                   ELSE IF card.id = reported /\ Cardinality(listed) = 1 /\ card.aliases[place].ocr4
                     THEN Resolved(card.aliases[place]) ELSE NotResolved("response_invalid")
    BY <1>3, <1>5 DEF ResolveConcreteModel
  <2>2. Cardinality(listed) = 1 /\ card.aliases[place].ocr4 /\ model = card.aliases[place]
    <3> HIDE DEF listed, place
    <3>1. resolved.code = "ok"
      OBVIOUS
    <3> HIDE DEF resolved
    <3>2. QED
      BY <2>1, <3>1 DEF Resolved, NotResolved
  <2>3. IsFiniteSet(listed)
    <3>1. DOMAIN card.aliases = 1..Len(card.aliases) /\ Len(card.aliases) \in Nat
      BY DEF AnyModelCard
    <3>2. IsFiniteSet(1..Len(card.aliases))
      <4> HIDE DEF listed, place, model, resolved, asked
      <4>1. \A n \in Nat : IsFiniteSet(1..n)
        BY FS_Interval
      <4>2. QED
        BY <3>1, <4>1
    <3>3. listed \subseteq 1..Len(card.aliases)
      BY <3>1 DEF ConcreteAliases
    <3> HIDE DEF listed
    <3>4. QED
      BY <3>2, <3>3, FS_Subset
  <2> HIDE DEF listed, model, resolved
  <2>4. PICK i : listed = {i}
    BY <2>2, <2>3, FS_Singleton
  <2>5. place = i
    BY <2>4
  <2>6. i \in DOMAIN card.aliases /\ card.aliases[i].numbered
        /\ \A j \in DOMAIN card.aliases : j # i => ~card.aliases[j].numbered
    BY <2>4 DEF ConcreteAliases, listed
  <2> HIDE DEF place
  <2>7. model = card.aliases[i] /\ model.ocr4 /\ model.numbered /\ model # Latest
    BY <1>1, <2>2, <2>5, <2>6
  <2>8. settings.model = Latest /\ asked = 1
    BY <1>2, <1>3, <1>5
  <2>9. \A j \in DOMAIN card.aliases :
          IF j = i THEN card.aliases[j] = model /\ model.numbered ELSE ~card.aliases[j].numbered
    BY <2>6, <2>7
  <2> HIDE DEF asked
  <2>10. QED
    BY <2>6, <2>7, <2>8, <2>9 DEF model, resolved, asked
<1>6. QED
  BY <1>4, <1>5

(* An alias that is no version makes no difference to what a card settles. *)
LEMMA AliasIsPassedOver ==
  ASSUME NEW settings, NEW reported, NEW card \in AnyModelCard,
         NEW alias, ~alias.numbered
  PROVE  ResolveConcreteModel(settings, reported, [card EXCEPT !.aliases = Append(@, alias)])
           = ResolveConcreteModel(settings, reported, card)
<1> DEFINE n == Len(card.aliases)
           longer == [card EXCEPT !.aliases = Append(@, alias)]
           listed == ConcreteAliases(card)
<1>1. card.aliases \in Seq(AnyModelName \cup {alias}) /\ n \in Nat
  BY DEF AnyModelCard
<1>2. /\ longer.aliases = Append(card.aliases, alias) /\ longer.id = card.id
      /\ longer.reached = card.reached /\ longer.size = card.size
      /\ longer.success = card.success /\ longer.parsed = card.parsed
  BY DEF AnyModelCard
<1> HIDE DEF longer
<1>3. /\ DOMAIN card.aliases = 1..n
      /\ DOMAIN longer.aliases = 1..(n + 1)
      /\ \A i \in 1..n : longer.aliases[i] = card.aliases[i]
      /\ longer.aliases[n + 1] = alias
  BY <1>1, <1>2
<1>4. ConcreteAliases(longer) = listed
  BY <1>1, <1>3 DEF ConcreteAliases
<1>5. listed \subseteq 1..n
  BY <1>3 DEF ConcreteAliases
<1>6. Received(longer, settings) = Received(card, settings)
  BY <1>2 DEF Received
<1> DEFINE place == CHOOSE i \in listed : TRUE
<1> HIDE DEF n
<1>7. Cardinality(listed) = 1 => listed # {}
  BY FS_EmptySet
<1>8. Cardinality(listed) = 1 => longer.aliases[place] = card.aliases[place]
  <2> HIDE DEF listed
  <2>1. listed # {} => place \in listed
    OBVIOUS
  <2> HIDE DEF place
  <2>2. QED
    BY <1>3, <1>5, <1>7, <2>1
<1>9. QED
  <2> DEFINE Settled(c) == c.aliases[CHOOSE i \in ConcreteAliases(c) : TRUE]
  <2>1. \A c : ResolveConcreteModel(settings, reported, c)
          = IF ~ModelMatchesRequest(settings, reported) THEN NotResolved("response_invalid")
            ELSE IF reported # Latest THEN Resolved(reported)
            ELSE IF Received(c, settings) # "ok" THEN NotResolved(Received(c, settings))
            ELSE IF c.id = reported /\ Cardinality(ConcreteAliases(c)) = 1 /\ Settled(c).ocr4
              THEN Resolved(Settled(c)) ELSE NotResolved("response_invalid")
    BY DEF ResolveConcreteModel
  <2>2. Settled(longer) = longer.aliases[place] /\ Settled(card) = card.aliases[place]
    BY <1>4
  <2> HIDE DEF Settled, place, listed
  <2>3. ResolveConcreteModel(settings, reported, longer) = ResolveConcreteModel(settings, reported, card)
    BY <1>2, <1>4, <1>6, <1>8, <2>1, <2>2 DEF listed
  <2>4. QED
    BY <2>3 DEF longer

(* Withdrawing a confirmation never lets a document out.                   *)
LEMMA WithdrawnStaysClosed ==
  ASSUME NEW settings \in AnyOcrSettings, NEW request \in AnyDocument, NEW c \in DOMAIN NoPolicy
  PROVE  LET withdrawn == [settings EXCEPT !.policy[c] = FALSE] IN
         /\ Leaves(withdrawn, request) => Leaves(settings, request)
         /\ request.classification # "public" /\ c \in {"allow_private", "purpose_confirmed"}
              => ~Leaves(withdrawn, request)
<1> DEFINE w == [settings EXCEPT !.policy[c] = FALSE]
           D == {"allow_private", "purpose_confirmed", "training_opt_out", "retention_confirmed",
                 "region_confirmed", "risk_accepted"}
<1>1. DOMAIN NoPolicy = D
  BY DEF NoPolicy
<1>2. settings.policy \in [D -> BOOLEAN]
  BY <1>1 DEF AnyOcrSettings, Policies
<1>3. /\ w.enabled = settings.enabled /\ w.public_approved = settings.public_approved
      /\ w.max_input = settings.max_input
      /\ w.policy = [settings.policy EXCEPT ![c] = FALSE]
  BY DEF AnyOcrSettings
<1> HIDE DEF w
<1>4. w.policy[c] = FALSE /\ \A d \in D : w.policy[d] => settings.policy[d]
  BY <1>1, <1>2, <1>3
<1>5. PermitsPrivateTransfer(w.policy) => PermitsPrivateTransfer(settings.policy)
  BY <1>4 DEF PermitsPrivateTransfer
<1>6. c \in {"allow_private", "purpose_confirmed"} => ~PermitsPrivateTransfer(w.policy)
  BY <1>4 DEF PermitsPrivateTransfer
<1>7. QED
  BY <1>3, <1>5, <1>6 DEF Leaves, Authorize, InputHolds, w

LEMMA OcrHolds ==
  ASSUME NEW settings \in AnyOcrSettings, NEW request \in AnyDocument, NEW answer \in AnyOcrAnswer,
         NEW card \in AnyModelCard
  PROVE  OcrIsBounded(settings, request, answer, card)
<1> DEFINE Try(s, r) == Extract(s, r, answer, card)
           result == Try(settings, request)
           Withdrawn(c) == [settings EXCEPT !.policy[c] = FALSE]
           resolved == ResolveConcreteModel(settings, answer.model, card)
           model == resolved.model
           asked == IF answer.model = Latest /\ ModelMatchesRequest(settings, Latest) THEN 1 ELSE 0
           named == [answer EXCEPT !.model = model]
           classified == [request EXCEPT !.classification = "restricted"]
           approved == [settings EXCEPT !.public_approved = ~@]
           ListedOnce(m) == \E i \in DOMAIN card.aliases :
               \A j \in DOMAIN card.aliases :
                 IF j = i THEN card.aliases[j] = m /\ m.numbered ELSE ~card.aliases[j].numbered
<1>1. \A s, r : /\ ~Leaves(s, r) => Try(s, r).sent = 0 /\ Try(s, r).asked = 0
                /\ Leaves(s, r) => Try(s, r).sent = 1
  BY ExtractionCases
<1>2. \A c \in DOMAIN NoPolicy :
        /\ Leaves(Withdrawn(c), request) => Leaves(settings, request)
        /\ request.classification # "public" /\ c \in {"allow_private", "purpose_confirmed"}
             => ~Leaves(Withdrawn(c), request)
  BY WithdrawnStaysClosed
<1>3. {"allow_private", "purpose_confirmed"} \subseteq DOMAIN NoPolicy
  BY DEF NoPolicy
<1>4. \A r : r.classification = "restricted" => ~Leaves(settings, r)
  BY DEF Leaves, Authorize
<1>5. classified.classification = "restricted"
  BY DEF AnyDocument
<1>6. request.classification # "public" => Try(approved, request) = result
  <2>1. /\ approved.enabled = settings.enabled /\ approved.policy = settings.policy
        /\ approved.max_input = settings.max_input /\ approved.max_response = settings.max_response
        /\ approved.max_pages = settings.max_pages /\ approved.model = settings.model
    BY DEF AnyOcrSettings
  <2> HIDE DEF approved
  <2>2. /\ InputHolds(approved, request) = InputHolds(settings, request)
        /\ \A a : Received(a, approved) = Received(a, settings)
        /\ \A m : ModelMatchesRequest(approved, m) = ModelMatchesRequest(settings, m)
        /\ \A a : ResponseHolds(approved, request, a) = ResponseHolds(settings, request, a)
    BY <2>1 DEF InputHolds, Received, ModelMatchesRequest, ResponseHolds
  <2>3. ResolveConcreteModel(approved, answer.model, card) = ResolveConcreteModel(settings, answer.model, card)
    BY <2>2 DEF ResolveConcreteModel
  <2>4. ASSUME request.classification # "public"
        PROVE  Authorize(approved, request.classification) = Authorize(settings, request.classification)
    BY <2>1, <2>4 DEF Authorize
  <2>5. QED
    BY <2>2, <2>3, <2>4 DEF Extract
<1>7. resolved.code = "ok" =>
        /\ model # Latest /\ model.ocr4 /\ settings.model \in {Latest, model}
        /\ asked = 0 => model = answer.model
        /\ asked = 1 => settings.model = Latest /\ ListedOnce(model)
  BY ModelIsResolved
<1>8. ASSUME result.code = "ok"
      PROVE  /\ Leaves(settings, request) /\ Received(answer, settings) = "ok" /\ resolved.code = "ok"
             /\ ResponseHolds(settings, request, named)
             /\ result = [code |-> "ok", sent |-> 1, asked |-> asked, model |-> model,
                          pages |-> answer.pages]
  <2>1. /\ Leaves(settings, request) /\ Received(answer, settings) = "ok"
        /\ resolved.code = "ok" /\ ResponseHolds(settings, request, named)
    BY <1>8, ExtractionCases
  <2>2. QED
    BY <2>1, ExtractionCases
<1>9. /\ named.reached = answer.reached /\ named.size = answer.size /\ named.success = answer.success
      /\ named.parsed = answer.parsed /\ named.model = model /\ named.pages = answer.pages
      /\ named.processed = answer.processed /\ named.document = answer.document
  BY DEF AnyOcrAnswer
<1>10. ASSUME result.code = "ok"
       PROVE  /\ result.model.ocr4 /\ result.model # Latest /\ settings.model \in {Latest, result.model}
              /\ result.asked = 0 => result.model = answer.model
              /\ result.asked = 1 => ListedOnce(result.model)
              /\ ExtractionResultHolds(result) /\ Len(result.pages) <= settings.max_pages
  <2>1. result.model = model /\ result.pages = answer.pages /\ result.asked = asked
    BY <1>8, <1>10
  <2>2. Len(answer.pages) \in Nat /\ DOMAIN answer.pages = 1..Len(answer.pages)
    BY DEF AnyOcrAnswer
  <2> HIDE DEF named, result, ListedOnce
  <2>3. /\ answer.pages # <<>> /\ Len(answer.pages) <= settings.max_pages
        /\ answer.pages = [i \in 1..Len(answer.pages) |-> i - 1]
    BY <1>8, <1>9, <1>10 DEF ResponseHolds
  <2>4. \A i \in 1..Len(answer.pages) : answer.pages[i] = i - 1
    BY <2>3
  <2> HIDE DEF model, asked, resolved
  <2>5. ExtractionResultHolds(result)
    BY <2>1, <2>2, <2>3, <2>4 DEF ExtractionResultHolds
  <2>6. QED
    BY <1>7, <1>8, <1>10, <2>1, <2>3, <2>5
<1>11. result.code = "ok" /\ result.asked = 1 =>
         [result EXCEPT !.asked = 0] = Extract(settings, request, [answer EXCEPT !.model = result.model], card)
  <2>1. SUFFICES ASSUME result.code = "ok", result.asked = 1
                 PROVE  [result EXCEPT !.asked = 0] = Extract(settings, request, named, card)
    BY <1>8
  <2> DEFINE again == ResolveConcreteModel(settings, named.model, card)
  <2>2. asked = 1 /\ settings.model = Latest /\ model # Latest /\ model.ocr4
    BY <1>7, <1>8, <2>1
  <2>3. again = Resolved(model)
    <3> HIDE DEF named, model, asked
    <3>1. QED
      BY <1>9, <2>2 DEF ResolveConcreteModel, ModelMatchesRequest
  <2>4. again.code = "ok" /\ again.model = model
    BY <2>3 DEF Resolved
  <2> HIDE DEF again
  <2>5. [named EXCEPT !.model = again.model] = named
    BY <2>4 DEF AnyOcrAnswer
  <2>6. Received(named, settings) = "ok" /\ ResponseHolds(settings, request, named)
    <3> HIDE DEF named, model
    <3>1. QED
      BY <1>8, <1>9, <2>1 DEF Received
  <2>7. (IF named.model = Latest /\ ModelMatchesRequest(settings, Latest) THEN 1 ELSE 0) = 0
    BY <1>9, <2>2
  <2>8. Extract(settings, request, named, card)
          = [code |-> "ok", sent |-> 1, asked |-> 0, model |-> model, pages |-> answer.pages]
    <3> HIDE DEF named, model, result, resolved, asked
    <3>1. QED
      BY <1>8, <1>9, <2>1, <2>4, <2>5, <2>6, <2>7, ExtractionCases DEF again
  <2> HIDE DEF named, model, asked, resolved, result
  <2>9. QED
    BY <1>8, <2>1, <2>2, <2>8
<1>12. result.asked <= result.sent
  <2>1. result.asked \in {0, asked}
    BY ExtractionCases
  <2> HIDE DEF result
  <2>2. QED
    BY <1>1, <2>1 DEF result
<1>13. (result.sent = 1 => Leaves(settings, request)) /\ (result.sent = 0 => ~Leaves(settings, request))
  BY <1>1
<1>14. \A c \in DOMAIN NoPolicy : ~Leaves(Withdrawn(c), request) => Try(Withdrawn(c), request).sent = 0
  BY <1>1
<1>15. Try(settings, classified).sent = 0
  BY <1>1, <1>4, <1>5
<1>16. ASSUME NEW alias \in {Latest, Alias, Stranger}
       PROVE  Extract(settings, request, answer, [card EXCEPT !.aliases = Append(@, alias)]) = result
  <2>1. ~alias.numbered
    BY DEF Latest, Alias, Stranger, ModelName
  <2> DEFINE longer == [card EXCEPT !.aliases = Append(@, alias)]
  <2>2. ResolveConcreteModel(settings, answer.model, longer) = resolved
    BY <2>1, AliasIsPassedOver
  <2> DEFINE authorized == Authorize(settings, request.classification)
             Given(r) ==
               CASE authorized # "granted" -> Refusal(authorized, 0)
                 [] authorized = "granted" /\ ~InputHolds(settings, request) -> Refusal("input_invalid", 0)
                 [] OTHER ->
                      IF Received(answer, settings) # "ok" THEN Refusal(Received(answer, settings), 1)
                      ELSE IF r.code # "ok" THEN [code |-> r.code, sent |-> 1, asked |-> asked]
                      ELSE IF ~ResponseHolds(settings, request, [answer EXCEPT !.model = r.model])
                        THEN [code |-> "response_invalid", sent |-> 1, asked |-> asked]
                      ELSE [code |-> "ok", sent |-> 1, asked |-> asked, model |-> r.model,
                            pages |-> answer.pages]
  <2>3. \A c : Extract(settings, request, answer, c) = Given(ResolveConcreteModel(settings, answer.model, c))
    BY DEF Extract
  <2> HIDE DEF Given
  <2>4. QED
    BY <2>2, <2>3
<1> HIDE DEF result, Try, Withdrawn, classified, approved
<1>17. result.sent = 1 =>
         /\ request.classification # "restricted"
         /\ request.classification # "public" =>
              \A c \in {"allow_private", "purpose_confirmed"} : Try(Withdrawn(c), request).sent = 0
  BY <1>2, <1>3, <1>4, <1>13, <1>14
<1>18. result.sent = 0 => \A c \in DOMAIN NoPolicy : Try(Withdrawn(c), request).sent = 0
  BY <1>2, <1>13, <1>14
<1>19. QED
  BY <1>6, <1>10, <1>11, <1>12, <1>15, <1>16, <1>17, <1>18
  DEF OcrIsBounded, result, Try, Withdrawn, classified, approved

TwoNames == {p \in SUBSET AnyString : Cardinality(p) = 2}
AnyLinkCommand ==
  [do : {"approve"}, pair : TwoNames, link : Int] \cup [do : {"reverse"}, pair : SUBSET AnyString, link : Int]

(* What one command does to a ledger that holds.                           *)
LEMMA CommandObeyed ==
  ASSUME NEW ledger, LedgerHolds(ledger), NEW command \in AnyLinkCommand
  PROVE  LET after == Obey(ledger, command) IN
         /\ LedgerHolds(after)
         /\ IsPrefix(ledger, after)
         /\ command.do = "approve" => LinkedPairs(after) = LinkedPairs(ledger) \cup {command.pair}
         /\ command.do = "reverse" =>
              \/ LinkedPairs(after) = LinkedPairs(ledger) /\ command.link \notin ActiveLinks(ledger)
              \/ LinkedPairs(after) = LinkedPairs(ledger) \ {ledger[command.link].pair}
<1> DEFINE after == Obey(ledger, command)
           n == Len(ledger)
<1>1. ledger \in Seq(LinkEvent) /\ DOMAIN ledger = 1..n /\ n \in Nat
  BY DEF LedgerHolds
<1>2. \A i \in ActiveLinks(ledger) : i \in 1..n
  BY <1>1 DEF ActiveLinks
<1>3. \A e \in LinkEvent : IsPrefix(ledger, Append(ledger, e)) /\ IsPrefix(ledger, ledger)
  BY <1>1 DEF IsPrefix
<1>4. LinkEvent # {}
  <2>1. [action |-> "approved", pair |-> {}, evidence |-> {}, reverses |-> 0] \in LinkEvent
    BY DEF LinkEvent
  <2>2. QED
    BY <2>1
<1>5. IsPrefix(ledger, ledger)
  BY <1>3, <1>4
<1>6. CASE command.do = "approve"
  <2>1. command.pair \in SUBSET AnyString /\ Cardinality(command.pair) = 2
    BY <1>6 DEF AnyLinkCommand, TwoNames
  <2>2. CASE CanApprove(ledger, command.pair, {"e"})
    <3> DEFINE e == [action |-> "approved", pair |-> command.pair, evidence |-> {"e"}, reverses |-> 0]
    <3>1. after = Approve(ledger, command.pair, {"e"})
      BY <1>6, <2>2 DEF Obey
    <3>2. LedgerHolds(after) /\ ActiveLinks(after) = ActiveLinks(ledger) \cup {n + 1}
      <4>1. {"e"} \in SUBSET AnyString
        BY DEF AnyString
      <4> DEFINE evidence == {"e"}
      <4>2. CanApprove(ledger, command.pair, evidence) /\ evidence \in SUBSET AnyString
        BY <2>2, <4>1
      <4>3. after = Approve(ledger, command.pair, evidence)
        BY <3>1
      <4> HIDE DEF evidence, after
      <4>4. QED
        <5>1. ASSUME NEW pair \in SUBSET AnyString, CanApprove(ledger, pair, evidence)
              PROVE  /\ LedgerHolds(Approve(ledger, pair, evidence))
                     /\ ActiveLinks(Approve(ledger, pair, evidence)) = ActiveLinks(ledger) \cup {n + 1}
          BY <4>2, <5>1, LedgerIsExact
        <5>2. QED
          BY <2>1, <4>2, <4>3, <5>1
    <3>3. e \in LinkEvent /\ after = Append(ledger, e)
      <4>1. {"e"} \in SUBSET AnyString
        BY DEF AnyString
      <4>2. QED
        BY <2>1, <3>1, <4>1 DEF LinkEvent, Approve
    <3>4. after[n + 1] = e /\ \A i \in 1..n : after[i] = ledger[i]
      BY <1>1, <3>3, EventAppended
    <3>5. IsPrefix(ledger, after)
      BY <1>3, <3>3
    <3>6. e.pair = command.pair
      OBVIOUS
    <3> HIDE DEF e, after
    <3>7. LinkedPairs(after) = LinkedPairs(ledger) \cup {command.pair}
      BY <1>2, <3>2, <3>4, <3>6 DEF LinkedPairs
    <3>8. QED
      BY <1>6, <3>2, <3>5, <3>7 DEF after
  <2>3. CASE ~CanApprove(ledger, command.pair, {"e"})
    <3>1. after = ledger
      BY <1>6, <2>3 DEF Obey
    <3>2. PICK i \in ActiveLinks(ledger) : ledger[i].pair = command.pair
      BY <2>1, <2>3 DEF CanApprove
    <3>3. LinkedPairs(ledger) = LinkedPairs(ledger) \cup {command.pair}
      BY <3>2 DEF LinkedPairs
    <3>4. QED
      BY <1>5, <1>6, <3>1, <3>3
  <2>4. QED
    BY <2>2, <2>3
<1>7. CASE command.do = "reverse"
  <2>1. CASE CanReverse(ledger, command.link)
    <3> DEFINE link == command.link
               e == [action |-> "reversed", pair |-> ledger[link].pair, evidence |-> {}, reverses |-> link]
    <3>1. after = ReverseLink(ledger, link)
      BY <1>7, <2>1 DEF Obey
    <3>2. link \in ActiveLinks(ledger) /\ link \in 1..n
      BY <1>2, <2>1 DEF CanReverse
    <3>3. LedgerHolds(after) /\ ActiveLinks(after) = ActiveLinks(ledger) \ {link}
      BY <2>1, <3>1, LedgerIsExact
    <3>4. e \in LinkEvent /\ after = Append(ledger, e)
      <4>1. ledger[link] \in LinkEvent
        BY <1>1, <3>2
      <4>2. QED
        BY <3>1, <3>2, <4>1 DEF LinkEvent, ReverseLink
    <3>5. \A i \in 1..n : after[i] = ledger[i]
      BY <1>1, <3>4, EventAppended
    <3>6. IsPrefix(ledger, after)
      BY <1>3, <3>4
    <3>7. \A i \in ActiveLinks(ledger) : ledger[i].pair = ledger[link].pair => i = link
      BY <3>2 DEF LedgerHolds
    <3> HIDE DEF e, after
    <3>8. LinkedPairs(after) = LinkedPairs(ledger) \ {ledger[link].pair}
      BY <1>2, <3>2, <3>3, <3>5, <3>7 DEF LinkedPairs
    <3>9. QED
      BY <1>7, <3>3, <3>6, <3>8 DEF after
  <2>2. CASE ~CanReverse(ledger, command.link)
    <3>1. after = ledger
      BY <1>7, <2>2 DEF Obey
    <3>2. QED
      BY <1>5, <1>7, <2>2, <3>1 DEF CanReverse
  <2>3. QED
    BY <2>1, <2>2
<1>8. QED
  BY <1>6, <1>7 DEF AnyLinkCommand

(* As many links are active as pairs are linked.                           *)
LEMMA LinksAreCounted ==
  ASSUME NEW ledger, LedgerHolds(ledger)
  PROVE  Cardinality(ActiveLinks(ledger)) = Cardinality(LinkedPairs(ledger))
<1> DEFINE A == ActiveLinks(ledger)
           P == LinkedPairs(ledger)
           f == [i \in A |-> ledger[i].pair]
<1>1. DOMAIN ledger = 1..Len(ledger) /\ Len(ledger) \in Nat
  BY DEF LedgerHolds
<1>2. IsFiniteSet(A)
  <2>1. A \subseteq 1..Len(ledger)
    BY <1>1 DEF ActiveLinks
  <2>2. QED
    <3>1. IsFiniteSet(1..Len(ledger))
      BY <1>1, FS_Interval
    <3> HIDE DEF A
    <3>2. QED
      BY <2>1, <3>1, FS_Subset
<1>3. f \in Bijection(A, P)
  <2>1. \A i, j \in A : ledger[i].pair = ledger[j].pair => i = j
    BY DEF LedgerHolds
  <2>2. f \in [A -> P] /\ \A t \in P : \E i \in A : f[i] = t
    BY DEF LinkedPairs
  <2>3. \A i, j \in A : f[i] = f[j] => i = j
    BY <2>1
  <2> HIDE DEF A, P, f
  <2>4. QED
    BY <2>2, <2>3 DEF Bijection, Injection, Surjection, IsInjective
<1>4. QED
  BY <1>2, <1>3, FS_Bijection DEF ExistsBijection

IsReplay(l, commands, N) == l = [n \in 0..N |-> Replayed(l, commands, n)]
Replay(commands, N) == CHOOSE l : IsReplay(l, commands, N)

LEMMA ReplayExists ==
  ASSUME NEW commands, NEW N \in Nat
  PROVE  \E l : IsReplay(l, commands, N)
<1> DEFINE T == {m \in Nat : \E l : IsReplay(l, commands, m)}
<1>1. 0 \in T
  <2> DEFINE l == [n \in 0..0 |-> <<>>]
  <2>1. \A n \in 0..0 : Replayed(l, commands, n) = <<>>
    BY DEF Replayed
  <2>2. l = [n \in 0..0 |-> Replayed(l, commands, n)]
    BY <2>1
  <2>3. QED
    BY <2>2 DEF IsReplay
<1>2. ASSUME NEW m \in Nat, m \in T
      PROVE  m + 1 \in T
  <2>1. PICK g : g = [n \in 0..m |-> Replayed(g, commands, n)]
    BY <1>2 DEF IsReplay
  <2> DEFINE h == [n \in 0..(m + 1) |-> Replayed(g, commands, n)]
  <2>2. \A n \in 0..m : h[n] = g[n]
    <3>1. \A n \in 0..m : g[n] = Replayed(g, commands, n)
      BY <2>1
    <3>2. QED
      BY <3>1
  <2>3. \A n \in 0..(m + 1) : Replayed(g, commands, n) = Replayed(h, commands, n)
    <3>1. ASSUME NEW n \in 0..(m + 1), n # 0
          PROVE  h[n - 1] = g[n - 1]
      BY <2>2, <3>1
    <3> HIDE DEF h
    <3>2. QED
      BY <3>1 DEF Replayed
  <2>4. h = [n \in 0..(m + 1) |-> Replayed(h, commands, n)]
    BY <2>3
  <2> HIDE DEF h
  <2>5. IsReplay(h, commands, m + 1)
    BY <2>4 DEF IsReplay
  <2>6. QED
    BY <2>5
<1>3. QED
  <2> HIDE DEF T
  <2>1. \A m \in Nat : m \in T
    BY <1>1, <1>2, NumberInduction
  <2>2. QED
    BY <2>1 DEF T

LEMMA LedgersUnfold ==
  ASSUME NEW commands \in Seq(AnyLinkCommand)
  PROVE  \A n \in 0..Len(commands) :
           Ledgers(commands)[n] = IF n = 0 THEN <<>> ELSE Obey(Ledgers(commands)[n - 1], commands[n])
<1> DEFINE N == Len(commands)
           l == Replay(commands, N)
<1>1. Ledgers(commands) = l
  BY DEF Ledgers, Replay, IsReplay
<1>2. l = [n \in 0..N |-> Replayed(l, commands, n)]
  BY ReplayExists DEF Replay, IsReplay
<1> HIDE DEF l
<1>3. \A n \in 0..N : l[n] = Replayed(l, commands, n)
  BY <1>2
<1>4. QED
  BY <1>1, <1>3 DEF Replayed

LEMMA LedgerReverses ==
  ASSUME NEW commands \in Seq(AnyLinkCommand)
  PROVE  LedgerIsReversible(commands)
<1> DEFINE N == Len(commands)
           After(n) == Ledgers(commands)[n]
           T == {n \in Nat : n <= N => LedgerHolds(After(n))}
<1>0. N \in Nat /\ \A n \in 1..N : commands[n] \in AnyLinkCommand
  OBVIOUS
<1>1. After(0) = <<>> /\ \A n \in 1..N : After(n) = Obey(After(n - 1), commands[n])
  BY <1>0, LedgersUnfold
<1> HIDE DEF After
<1>2. \A n \in Nat : n \in T
  <2>1. 0 \in T
    BY <1>1, LedgerIsExact
  <2>2. ASSUME NEW n \in Nat, n \in T
        PROVE  n + 1 \in T
    <3>1. ASSUME n + 1 <= N
          PROVE  LedgerHolds(After(n + 1))
      <4>1. n + 1 \in 1..N /\ (n + 1) - 1 = n /\ LedgerHolds(After(n))
        BY <1>0, <2>2, <3>1
      <4>2. After(n + 1) = Obey(After(n), commands[n + 1]) /\ commands[n + 1] \in AnyLinkCommand
        BY <1>0, <1>1, <4>1
      <4>3. QED
        BY <4>1, <4>2, CommandObeyed
    <3>2. QED
      BY <3>1
  <2> HIDE DEF T
  <2>3. QED
    BY <2>1, <2>2, NumberInduction
<1>3. ASSUME NEW n \in 1..N
      PROVE  /\ IsPrefix(After(n - 1), After(n))
             /\ Cardinality(ActiveLinks(After(n))) = Cardinality(LinkedPairs(After(n)))
             /\ commands[n].do = "approve" =>
                  LinkedPairs(After(n)) = LinkedPairs(After(n - 1)) \cup {commands[n].pair}
             /\ commands[n].do = "reverse" =>
                  \/ /\ LinkedPairs(After(n)) = LinkedPairs(After(n - 1))
                     /\ commands[n].link \notin ActiveLinks(After(n - 1))
                  \/ LinkedPairs(After(n))
                       = LinkedPairs(After(n - 1)) \ {After(n - 1)[commands[n].link].pair}
  <2>1. LedgerHolds(After(n)) /\ LedgerHolds(After(n - 1)) /\ commands[n] \in AnyLinkCommand
    <3>1. n \in Nat /\ n - 1 \in Nat /\ n <= N /\ n - 1 <= N
      BY <1>0
    <3>2. QED
      BY <1>0, <1>2, <3>1
  <2>2. After(n) = Obey(After(n - 1), commands[n])
    BY <1>1
  <2>3. QED
    BY <2>1, <2>2, CommandObeyed, LinksAreCounted
<1>4. QED
  BY <1>3 DEF LedgerIsReversible, After

(* The executor's order: a set of records with distinct identifiers is     *)
(* ranked without gap or repetition, and as the order of two says.         *)
LEMMA RankingIsExact ==
  ASSUME NEW S, IsFiniteSet(S), NEW score \in [S -> Nat], \A r \in S : r.id \in Int,
         \A r, s \in S : r.id = s.id => r = s
  PROVE  LET N == Cardinality(S) IN
         /\ N \in Nat
         /\ \A n \in 1..N : Ranked(S, score)[n] \in S
         /\ \A r \in S : \E n \in 1..N : Ranked(S, score)[n] = r
         /\ \A m, n \in 1..N : m < n =>
              /\ Ranked(S, score)[m] # Ranked(S, score)[n]
              /\ score[Ranked(S, score)[n]] <= score[Ranked(S, score)[m]]
<1> DEFINE N == Cardinality(S)
           q == Ranked(S, score)
           first(r) == {s \in S : RanksBefore(score, s, r)}
           rank == [r \in S |-> Cardinality(first(r))]
<1>1. N \in Nat
  BY FS_CardinalityType
<1>2. \A r, s \in S : score[r] \in Nat /\ score[s] \in Nat /\ r.id \in Int /\ s.id \in Int
  OBVIOUS
<1>3. /\ \A r \in S : ~RanksBefore(score, r, r)
      /\ \A r, s \in S : RanksBefore(score, r, s) \/ RanksBefore(score, s, r) \/ r = s
      /\ \A r, s \in S : RanksBefore(score, r, s) => score[s] <= score[r]
  BY <1>2 DEF RanksBefore
<1>4. \A r, s, t \in S : RanksBefore(score, r, s) /\ RanksBefore(score, s, t) => RanksBefore(score, r, t)
  <2>1. SUFFICES ASSUME NEW r \in S, NEW s \in S, NEW t \in S,
                        RanksBefore(score, r, s), RanksBefore(score, s, t)
                 PROVE  RanksBefore(score, r, t)
    OBVIOUS
  <2>2. /\ score[r] \in Nat /\ score[s] \in Nat /\ score[t] \in Nat
        /\ r.id \in Int /\ s.id \in Int /\ t.id \in Int
    OBVIOUS
  <2>3. QED
    BY <2>1, <2>2 DEF RanksBefore
<1>5. ASSUME NEW r \in S
      PROVE  IsFiniteSet(first(r)) /\ Cardinality(first(r)) \in Nat /\ Cardinality(first(r)) < N
  <2>1. first(r) \subseteq S /\ r \notin first(r)
    BY <1>3
  <2> HIDE DEF first
  <2>2. /\ IsFiniteSet(first(r)) /\ Cardinality(first(r)) <= N
        /\ Cardinality(first(r)) = N => first(r) = S
    BY <2>1, FS_Subset
  <2>3. QED
    BY <1>1, <2>1, <2>2, FS_CardinalityType
<1>6. ASSUME NEW r \in S, NEW s \in S, RanksBefore(score, r, s)
      PROVE  Cardinality(first(r)) < Cardinality(first(s))
  <2>1. first(r) \subseteq first(s) /\ r \in first(s) /\ r \notin first(r)
    BY <1>3, <1>4, <1>6
  <2>2. /\ IsFiniteSet(first(s)) /\ Cardinality(first(s)) \in Nat /\ Cardinality(first(r)) \in Nat
    BY <1>5
  <2> HIDE DEF first
  <2>3. /\ Cardinality(first(r)) <= Cardinality(first(s))
        /\ Cardinality(first(s)) = Cardinality(first(r)) => first(s) = first(r)
    BY <2>1, <2>2, FS_Subset
  <2>4. QED
    BY <2>1, <2>2, <2>3
<1> HIDE DEF first
<1>7. rank \in [S -> 0..(N - 1)]
  <2>1. \A r \in S : Cardinality(first(r)) \in 0..(N - 1)
    BY <1>1, <1>5
  <2>2. QED
    BY <2>1
<1>8. \A r, s \in S : /\ rank[r] = rank[s] => r = s
                      /\ rank[r] < rank[s] => RanksBefore(score, r, s)
  <2>1. \A r, s \in S : RanksBefore(score, r, s) => rank[r] < rank[s]
    BY <1>6
  <2>2. \A r \in S : rank[r] \in Nat
    BY <1>5
  <2> HIDE DEF rank
  <2>3. QED
    BY <1>3, <2>1, <2>2
<1>9. \A n \in 1..N : \E r \in S : rank[r] = n - 1
  <2> HIDE DEF rank
  <2>1. rank \in Injection(S, 0..(N - 1))
    BY <1>7, <1>8 DEF Injection, IsInjective
  <2>2. IsFiniteSet(0..(N - 1)) /\ Cardinality(0..(N - 1)) = N
    BY <1>1, FS_Interval
  <2>3. rank \in Surjection(S, 0..(N - 1))
    BY <2>1, <2>2, FS_Injection
  <2>4. \A n \in 1..N : n - 1 \in 0..(N - 1)
    BY <1>1
  <2>5. QED
    BY <2>3, <2>4 DEF Surjection
<1>10. \A n \in 1..N : q[n] \in S /\ rank[q[n]] = n - 1
  <2>1. SUFFICES ASSUME NEW n \in 1..N
                 PROVE  q[n] \in S /\ rank[q[n]] = n - 1
    OBVIOUS
  <2>2. \E r \in S : Cardinality(first(r)) = n - 1
    BY <1>9
  <2>3. q[n] = CHOOSE r \in S : Cardinality(first(r)) = n - 1
    BY DEF Ranked, first
  <2> HIDE DEF q
  <2>4. q[n] \in S /\ Cardinality(first(q[n])) = n - 1
    BY <2>2, <2>3
  <2>5. QED
    BY <2>4
<1> HIDE DEF rank, q
<1>11. \A r \in S : \E n \in 1..N : q[n] = r
  <2>1. SUFFICES ASSUME NEW r \in S
                 PROVE  \E n \in 1..N : q[n] = r
    OBVIOUS
  <2>2. rank[r] \in 0..(N - 1)
    BY <1>7
  <2>3. rank[r] + 1 \in 1..N /\ (rank[r] + 1) - 1 = rank[r]
    BY <1>1, <2>2
  <2>4. q[rank[r] + 1] = r
    BY <1>8, <1>10, <2>3
  <2>5. QED
    BY <2>3, <2>4
<1>12. \A m, n \in 1..N : m < n => q[m] # q[n] /\ score[q[n]] <= score[q[m]]
  <2>1. SUFFICES ASSUME NEW m \in 1..N, NEW n \in 1..N, m < n
                 PROVE  q[m] # q[n] /\ score[q[n]] <= score[q[m]]
    OBVIOUS
  <2>2. rank[q[m]] < rank[q[n]] /\ q[m] \in S /\ q[n] \in S
    BY <1>1, <1>10, <2>1
  <2>3. RanksBefore(score, q[m], q[n])
    BY <1>8, <2>2
  <2>4. QED
    BY <1>3, <2>2, <2>3
<1>13. QED
  BY <1>1, <1>10, <1>11, <1>12 DEF q

RecordHolds(r) ==
  /\ r.id \in Int
  /\ \A f : Knowledge(r, f)[1] = "known" => ShapeHolds(f, Knowledge(r, f)[2])

CriterionHolds(c) ==
  /\ c.strength \in {"hard_constraint", "scored_preference"}
  /\ c.operator \in FieldPolicy(c.field).operators
  /\ \/ c.operator \in KnowledgeOperators
     \/ \A o \in Range(c.operands) : o[1] = FieldPolicy(c.field).kind

(* The records a memory can hold: as many as one likes, each of its own    *)
(* identifier.                                                             *)
RecordsHold(records) ==
  /\ records \in Seq(Range(records))
  /\ \A r \in Range(records) : RecordHolds(r)
  /\ \A i, j \in DOMAIN records : records[i].id = records[j].id => i = j

Eligible(criteria, records) == {r \in Range(records) : ~Excluded(criteria, r)}
Preferences(criteria, records) ==
  [r \in Eligible(criteria, records) |-> MatchedPreferences(criteria, r)]

LEMMA EligibleAreFinite ==
  ASSUME NEW criteria, NEW records, RecordsHold(records)
  PROVE  /\ IsFiniteSet(Eligible(criteria, records))
         /\ Cardinality(Eligible(criteria, records)) \in Nat
         /\ Cardinality(Eligible(criteria, records)) <= Len(records)
         /\ \A r, s \in Range(records) : r.id = s.id => r = s
         /\ \A r \in Range(records) : r.id \in Int
<1> DEFINE n == Len(records)
           f == [i \in 1..n |-> records[i]]
<1>1. n \in Nat /\ DOMAIN records = 1..n
  BY DEF RecordsHold
<1>2. f \in Surjection(1..n, Range(records))
  BY <1>1 DEF Surjection, Range
<1>3. IsFiniteSet(1..n) /\ Cardinality(1..n) = n
  <2> HIDE DEF n
  <2>1. QED
    BY <1>1, FS_Interval
<1> HIDE DEF f
<1>4. IsFiniteSet(Range(records)) /\ Cardinality(Range(records)) <= n
  BY <1>2, <1>3, FS_Surjection
<1>5. Cardinality(Range(records)) \in Nat
  BY <1>4, FS_CardinalityType
<1>6. Eligible(criteria, records) \in SUBSET Range(records)
  BY DEF Eligible
<1>7. /\ IsFiniteSet(Eligible(criteria, records))
      /\ Cardinality(Eligible(criteria, records)) <= Cardinality(Range(records))
  BY <1>4, <1>6, FS_Subset
<1>8. Cardinality(Eligible(criteria, records)) \in Nat
  BY <1>7, FS_CardinalityType
<1>9. \A r, s \in Range(records) : r.id = s.id => r = s
  BY DEF RecordsHold, Range
<1>10. \A r \in Range(records) : r.id \in Int
  BY DEF RecordsHold, RecordHolds
<1>11. QED
  BY <1>1, <1>4, <1>5, <1>7, <1>8, <1>9, <1>10

(* What is matched of two criteria.                                        *)
LEMMA PreferencesCount ==
  ASSUME NEW criteria, NEW n \in Nat, DOMAIN criteria = 1..n, NEW record
  PROVE  MatchedPreferences(criteria, record) \in Nat
<1> DEFINE matched == {i \in DOMAIN criteria : /\ criteria[i].strength = "scored_preference"
                                               /\ Verdicts(criteria, record)[i] = "match"}
<1>1. matched \in SUBSET (1..n)
  OBVIOUS
<1>2. IsFiniteSet(1..n)
  BY FS_Interval
<1> HIDE DEF matched
<1>3. IsFiniteSet(matched)
  BY <1>1, <1>2, FS_Subset
<1>4. Cardinality(matched) \in Nat
  BY <1>3, FS_CardinalityType
<1>5. QED
  BY <1>4 DEF MatchedPreferences, matched

(* A plan of criteria that hold is accepted, and no record refuses it.     *)
LEMMA ExecutionIsSafe ==
  ASSUME NEW criteria, \A c \in Range(criteria) : CriterionHolds(c),
         NEW records, RecordsHold(records), NEW limit \in 1..Len(records)
  PROVE  LET answer == Execute([state |-> "validated", criteria |-> criteria, max_results |-> limit],
                               records, Len(records))
             eligible == Eligible(criteria, records)
             N == Cardinality(eligible)
             ranked == Ranked(eligible, Preferences(criteria, records))
         IN /\ answer.items = [i \in 1..(IF limit <= N THEN limit ELSE N) |-> ranked[i].id]
            /\ answer.truncated = (N > limit)
<1> DEFINE plan == [state |-> "validated", criteria |-> criteria, max_results |-> limit]
           all == Len(records)
           eligible == Eligible(criteria, records)
           N == Cardinality(eligible)
           ranked == Ranked(eligible, Preferences(criteria, records))
           ids == [i \in DOMAIN records |-> records[i].id]
           answer == Execute(plan, records, all)
<1>1. all \in Nat /\ DOMAIN records = 1..all /\ limit \in Nat /\ limit <= all
  BY DEF RecordsHold
<1>2. plan.state = "validated" /\ plan.criteria = criteria /\ plan.max_results = limit
  OBVIOUS
<1> HIDE DEF plan
<1>3. ValidPlan(plan, all)
  BY <1>1, <1>2 DEF ValidPlan, CriterionHolds
<1>4. IsInjective(ids)
  BY DEF IsInjective, RecordsHold
<1>5. \A r \in Range(records) : ~Raises(plan.criteria, r)
  <2>1. SUFFICES ASSUME NEW r \in Range(records), Raises(plan.criteria, r)
                 PROVE  FALSE
    OBVIOUS
  <2>2. \A f : Knowledge(r, f)[1] = "known" => ShapeHolds(f, Knowledge(r, f)[2])
    BY DEF RecordsHold, RecordHolds
  <2>3. QED
    BY <2>1, <2>2 DEF Raises
<1>6. Min({limit, all}) = limit
  BY <1>1, GreaterOfTwo
<1>7. N \in Nat
  BY EligibleAreFinite
<1>8. Min({limit, N}) = IF limit <= N THEN limit ELSE N
  <2>1. limit \in Int /\ N \in Int
    BY <1>1, <1>7
  <2> HIDE DEF N
  <2>2. QED
    BY <2>1, GreaterOfTwo
<1>9. answer = [safe |-> TRUE,
                items |-> [i \in 1..Min({limit, N}) |-> ranked[i].id],
                eligible |-> N,
                truncated |-> N > limit]
  BY <1>2, <1>3, <1>4, <1>5, <1>6 DEF Execute, Eligible, Preferences
<1> HIDE DEF answer, ranked, N
<1>10. answer.items = [i \in 1..Min({limit, N}) |-> ranked[i].id] /\ answer.truncated = (N > limit)
  BY <1>9
<1>11. QED
  BY <1>8, <1>10 DEF answer, ranked, N, plan

(* Who is told of: all who are eligible if nothing cuts, and otherwise     *)
(* those with no fewer matched preferences than anybody left out.          *)
LEMMA AnswerIsExact ==
  ASSUME NEW criteria, NEW n \in Nat, DOMAIN criteria = 1..n,
         \A c \in Range(criteria) : CriterionHolds(c),
         NEW records, RecordsHold(records), NEW limit \in 1..Len(records)
  PROVE  LET answer == Execute([state |-> "validated", criteria |-> criteria, max_results |-> limit],
                               records, Len(records))
             eligible == Eligible(criteria, records)
             told == Range(answer.items)
             ids == {r.id : r \in eligible}
         IN /\ told \subseteq ids
            /\ limit = Len(records) => told = ids
            /\ answer.truncated = (ids # told)
            /\ \A r, s \in eligible : r.id \in told /\ s.id \notin told =>
                 MatchedPreferences(criteria, s) <= MatchedPreferences(criteria, r)
<1> DEFINE answer == Execute([state |-> "validated", criteria |-> criteria, max_results |-> limit],
                             records, Len(records))
           S == Eligible(criteria, records)
           N == Cardinality(S)
           score == Preferences(criteria, records)
           q == Ranked(S, score)
           M == IF limit <= N THEN limit ELSE N
           told == Range(answer.items)
           ids == {r.id : r \in S}
<1>1. /\ IsFiniteSet(S) /\ N \in Nat /\ N <= Len(records)
      /\ \A r, s \in S : r.id = s.id => r = s
      /\ \A r \in S : r.id \in Int
  BY EligibleAreFinite DEF Eligible
<1>2. answer.items = [i \in 1..M |-> q[i].id] /\ answer.truncated = (N > limit)
  BY ExecutionIsSafe
<1>3. score \in [S -> Nat] /\ \A r \in S : score[r] = MatchedPreferences(criteria, r)
  <2>1. \A r : MatchedPreferences(criteria, r) \in Nat
    BY PreferencesCount
  <2>2. QED
    BY <2>1 DEF Preferences
<1>4. Len(records) \in Nat /\ limit \in Nat
  BY DEF RecordsHold
<1> HIDE DEF answer, S, score
<1>5. /\ \A i \in 1..N : q[i] \in S
      /\ \A r \in S : \E i \in 1..N : q[i] = r
      /\ \A i, j \in 1..N : i < j => q[i] # q[j] /\ score[q[j]] <= score[q[i]]
  BY <1>1, <1>3, RankingIsExact
<1> HIDE DEF q, N
<1>6. M \in Nat /\ M <= N /\ M <= limit /\ (N <= limit => M = N) /\ (N > limit => M < N)
  BY <1>1, <1>4
<1>7. told = {q[i].id : i \in 1..M}
  BY <1>2 DEF Range
<1> HIDE DEF M, told
<1>8. \A i \in 1..M : i \in 1..N
  BY <1>1, <1>6
<1>9. \A r \in S : r.id \in told <=> \E i \in 1..M : q[i] = r
  BY <1>1, <1>5, <1>7, <1>8
<1>10. told \subseteq ids
  BY <1>5, <1>7, <1>8
<1>11. N <= limit => told = ids
  <2>1. SUFFICES ASSUME N <= limit, NEW r \in S
                 PROVE  r.id \in told
    BY <1>10
  <2>2. M = N
    BY <1>6, <2>1
  <2>3. QED
    BY <1>5, <1>9, <2>2
<1>12. N > limit => told # ids
  <2>1. SUFFICES ASSUME N > limit
                 PROVE  \E r \in S : r.id \notin told
    OBVIOUS
  <2>2. N \in 1..N /\ M < N
    BY <1>1, <1>4, <1>6, <2>1
  <2>3. q[N] \in S /\ \A i \in 1..M : q[i] # q[N]
    BY <1>1, <1>5, <1>6, <1>8, <2>2
  <2>4. QED
    BY <1>9, <2>3
<1>13. ASSUME NEW r \in S, NEW s \in S, r.id \in told, s.id \notin told
       PROVE  score[s] <= score[r]
  <2>1. PICK i \in 1..M : q[i] = r
    BY <1>9, <1>13
  <2>2. PICK j \in 1..N : q[j] = s
    BY <1>5
  <2>3. j \notin 1..M
    BY <1>9, <1>13, <2>2
  <2>4. i < j /\ i \in 1..N
    BY <1>1, <1>6, <1>8, <2>1, <2>3
  <2>5. QED
    BY <1>5, <2>1, <2>2, <2>4
<1>14. answer.truncated = (ids # told)
  <2>1. CASE N > limit
    BY <1>2, <1>12, <2>1
  <2>2. CASE ~(N > limit)
    <3>1. N <= limit
      BY <1>1, <1>4, <2>2
    <3>2. QED
      BY <1>2, <1>11, <2>2, <3>1
  <2>3. QED
    BY <2>1, <2>2
<1>15. limit = Len(records) => told = ids
  BY <1>1, <1>11
<1>16. QED
  BY <1>3, <1>10, <1>13, <1>14, <1>15 DEF answer, S, told

LEMMA CountOfTwo ==
  ASSUME NEW x, NEW y, x # y, NEW T, T \subseteq {x, y}
  PROVE  Cardinality(T) = (IF x \in T THEN 1 ELSE 0) + (IF y \in T THEN 1 ELSE 0)
<1>1. /\ Cardinality({}) = 0 /\ Cardinality({x}) = 1 /\ Cardinality({y}) = 1
      /\ Cardinality({x} \cup {y}) = 2
  <2>1. IsFiniteSet({x}) /\ Cardinality({x}) = 1 /\ Cardinality({y}) = 1 /\ Cardinality({}) = 0
    BY FS_EmptySet, FS_Singleton
  <2>2. Cardinality({x} \cup {y}) = IF y \in {x} THEN 1 ELSE 1 + 1
    BY <2>1, FS_AddElement
  <2>3. QED
    BY <2>1, <2>2
<1>2. CASE x \in T /\ y \in T
  <2>1. T = {x} \cup {y}
    BY <1>2
  <2>2. QED
    BY <1>1, <1>2, <2>1
<1>3. CASE x \in T /\ y \notin T
  <2>1. T = {x}
    BY <1>3
  <2>2. QED
    BY <1>1, <1>3, <2>1
<1>4. CASE x \notin T /\ y \in T
  <2>1. T = {y}
    BY <1>4
  <2>2. QED
    BY <1>1, <1>4, <2>1
<1>5. CASE x \notin T /\ y \notin T
  <2>1. T = {}
    BY <1>5
  <2>2. QED
    BY <1>1, <1>5, <2>1
<1>6. QED
  BY <1>2, <1>3, <1>4, <1>5

(* Counting a repeated preference twice changes no order.                  *)
LEMMA PreferencesOfTwo ==
  ASSUME NEW first, NEW extra, NEW r, NEW s,
         MatchedPreferences(<<first, extra>>, s) <= MatchedPreferences(<<first, extra>>, r)
  PROVE  Cardinality({c \in {first, extra} : /\ c.strength = "scored_preference"
                                             /\ EvaluateCriterion(c, Knowledge(s, c.field)) = "match"})
           <= Cardinality({c \in {first, extra} : /\ c.strength = "scored_preference"
                                                  /\ EvaluateCriterion(c, Knowledge(r, c.field)) = "match"})
<1> DEFINE criteria == <<first, extra>>
           P(c, x) == /\ c.strength = "scored_preference"
                      /\ EvaluateCriterion(c, Knowledge(x, c.field)) = "match"
           One(c, x) == IF P(c, x) THEN 1 ELSE 0
           places(x) == {i \in DOMAIN criteria : /\ criteria[i].strength = "scored_preference"
                                                 /\ Verdicts(criteria, x)[i] = "match"}
           liked(x) == {c \in {first, extra} : P(c, x)}
<1>1. DOMAIN criteria = {1, 2} /\ criteria[1] = first /\ criteria[2] = extra
  OBVIOUS
<1> HIDE DEF criteria
<1>2. \A x : places(x) \subseteq {1, 2} /\ (1 \in places(x) <=> P(first, x)) /\ (2 \in places(x) <=> P(extra, x))
  BY <1>1 DEF Verdicts
<1> HIDE DEF P
<1>3. ASSUME NEW x
      PROVE  MatchedPreferences(criteria, x) = One(first, x) + One(extra, x)
  <2>1. MatchedPreferences(criteria, x) = Cardinality(places(x))
    BY DEF MatchedPreferences
  <2> HIDE DEF places
  <2>2. Cardinality(places(x)) = (IF 1 \in places(x) THEN 1 ELSE 0) + (IF 2 \in places(x) THEN 1 ELSE 0)
    BY <1>2, CountOfTwo
  <2>3. QED
    BY <1>2, <2>1, <2>2
<1>4. ASSUME NEW x
      PROVE  Cardinality(liked(x)) = IF first = extra THEN One(first, x) ELSE One(first, x) + One(extra, x)
  <2>1. /\ liked(x) \subseteq {first, extra} /\ (first \in liked(x) <=> P(first, x))
        /\ (extra \in liked(x) <=> P(extra, x))
    OBVIOUS
  <2> HIDE DEF liked
  <2>2. CASE first = extra
    <3>1. CASE P(first, x)
      <4>1. liked(x) = {first}
        BY <2>1, <2>2, <3>1
      <4>2. QED
        BY <2>2, <3>1, <4>1, FS_Singleton
    <3>2. CASE ~P(first, x)
      <4>1. liked(x) = {}
        BY <2>1, <2>2, <3>2
      <4>2. QED
        BY <2>2, <3>2, <4>1, FS_EmptySet
    <3>3. QED
      BY <3>1, <3>2
  <2>3. CASE first # extra
    <3>1. Cardinality(liked(x)) = (IF first \in liked(x) THEN 1 ELSE 0) + (IF extra \in liked(x) THEN 1 ELSE 0)
      BY <2>1, <2>3, CountOfTwo
    <3>2. QED
      BY <2>1, <2>3, <3>1
  <2>4. QED
    BY <2>2, <2>3
<1>5. One(first, s) + One(extra, s) <= One(first, r) + One(extra, r)
  BY <1>3 DEF criteria
<1>6. Cardinality(liked(s)) <= Cardinality(liked(r))
  BY <1>4, <1>5
<1>7. QED
  BY <1>6 DEF P

(* For records of whatever knowledge and two criteria that hold: a hard    *)
(* constraint only narrows the answer and a preference only reorders it,   *)
(* nobody is ruled out for what is not known of them unless the query asks *)
(* that it be known, and a limit cuts whoever matches fewest preferences.  *)
THEOREM AnswersToQueriesAreFair ==
  ASSUME case.kind = "execution", RecordsHold(case.records), case.few \in 1..Len(case.records),
         CriterionHolds(case.first), CriterionHolds(case.extra)
  PROVE  QueriesAreFair
<1> DEFINE records == case.records
           first == case.first
           extra == case.extra
           few == case.few
           all == Len(records)
           AnswerTo(criteria, limit) ==
             Execute([state |-> "validated", criteria |-> criteria, max_results |-> limit], records, all)
           one == Range(AnswerTo(<<first>>, all).items)
           both == Range(AnswerTo(<<first, extra>>, all).items)
           short == AnswerTo(<<first, extra>>, few)
           E1 == Eligible(<<first>>, records)
           E2 == Eligible(<<first, extra>>, records)
           Score(r) ==
             Cardinality({c \in {first, extra} : /\ c.strength = "scored_preference"
                                                /\ EvaluateCriterion(c, Knowledge(r, c.field)) = "match"})
<1>0. all \in 1..all /\ few \in 1..all
  BY DEF RecordsHold
<1>1. /\ DOMAIN <<first>> = 1..1 /\ DOMAIN <<first, extra>> = 1..2
      /\ Range(<<first>>) = {first} /\ Range(<<first, extra>>) = {first, extra}
  BY DEF Range
<1>2. one = {r.id : r \in E1}
  <2> DEFINE alone == <<first>>
  <2>1. DOMAIN alone = 1..1 /\ \A c \in Range(alone) : CriterionHolds(c)
    BY <1>1
  <2> HIDE DEF alone
  <2>2. Range(AnswerTo(alone, all).items) = {r.id : r \in Eligible(alone, records)}
    BY <1>0, <2>1, AnswerIsExact
  <2>3. QED
    BY <2>2 DEF alone
<1>2a. ASSUME NEW limit \in 1..all
      PROVE  LET told == Range(AnswerTo(<<first, extra>>, limit).items)
                 ids == {r.id : r \in E2}
             IN /\ told \subseteq ids
                /\ limit = all => told = ids
                /\ AnswerTo(<<first, extra>>, limit).truncated = (ids # told)
                /\ \A r, s \in E2 : r.id \in told /\ s.id \notin told =>
                     MatchedPreferences(<<first, extra>>, s) <= MatchedPreferences(<<first, extra>>, r)
  <2> DEFINE pair == <<first, extra>>
  <2>1. DOMAIN pair = 1..2 /\ \A c \in Range(pair) : CriterionHolds(c)
    BY <1>1
  <2> HIDE DEF pair
  <2>2. LET told == Range(AnswerTo(pair, limit).items)
            ids == {r.id : r \in Eligible(pair, records)}
        IN /\ told \subseteq ids
           /\ limit = all => told = ids
           /\ AnswerTo(pair, limit).truncated = (ids # told)
           /\ \A r, s \in Eligible(pair, records) : r.id \in told /\ s.id \notin told =>
                MatchedPreferences(pair, s) <= MatchedPreferences(pair, r)
    BY <2>1, AnswerIsExact
  <2>3. QED
    BY <2>2 DEF pair
<1>3. both = {r.id : r \in E2}
  BY <1>0, <1>2a
<1>4. /\ Range(short.items) \subseteq both
      /\ short.truncated = (both # Range(short.items))
      /\ \A r, s \in E2 : r.id \in Range(short.items) /\ s.id \notin Range(short.items) =>
           MatchedPreferences(<<first, extra>>, s) <= MatchedPreferences(<<first, extra>>, r)
  BY <1>0, <1>3, <1>2a
<1>5. \A r, s \in Range(records) : r.id = s.id => r = s
  BY EligibleAreFinite
<1> HIDE DEF one, both, short
<1>6. E2 \subseteq E1
  BY <1>1, ConstraintsOnlyNarrow DEF Eligible
<1>7. extra.strength = "scored_preference" => E1 = E2
  BY <1>1, ConstraintsOnlyNarrow DEF Eligible
<1>8. \A r \in Range(records) : r.id \in both <=> r \in E2
  BY <1>3, <1>5 DEF Eligible
<1>9. ASSUME NEW r \in Range(records), NEW s \in Range(records), s.id \in both, KnowsLess(r, s),
             "is_known" \notin {first.operator, extra.operator}
      PROVE  r.id \in both
  <2>1. KnownLess(r, s, <<first, extra>>)
    <3>1. \A f : Knowledge(r, f) \in {Unknown, Knowledge(s, f)}
      BY <1>9 DEF KnowsLess, Knowledge
    <3>2. QED
      BY <3>1 DEF KnownLess
  <2>2. \A i \in DOMAIN <<first, extra>> : <<first, extra>>[i].operator # "is_known"
    BY <1>9
  <2>3. ~Excluded(<<first, extra>>, s)
    BY <1>8, <1>9 DEF Eligible
  <2>4. ~Excluded(<<first, extra>>, r)
    BY <2>1, <2>2, <2>3, IgnoranceExcludesNobody
  <2>5. r \in E2
    BY <2>4 DEF Eligible
  <2>6. QED
    BY <1>8, <2>5
<1>10. ASSUME NEW r \in Range(records), NEW s \in Range(records),
              r.id \in Range(short.items), s.id \in both \ Range(short.items)
       PROVE  Score(s) <= Score(r)
  <2>1. r \in E2 /\ s \in E2 /\ s.id \notin Range(short.items)
    BY <1>4, <1>8, <1>10
  <2>2. MatchedPreferences(<<first, extra>>, s) <= MatchedPreferences(<<first, extra>>, r)
    BY <1>4, <1>10, <2>1
  <2>3. QED
    BY <2>2, PreferencesOfTwo
<1>11. both \subseteq one /\ (extra.strength = "scored_preference" => both = one)
  BY <1>2, <1>3, <1>6, <1>7
<1>12. AnswersAreFair(records, few, first, extra)
  BY <1>4, <1>9, <1>10, <1>11 DEF AnswersAreFair, one, both, short
<1>13. ExecutionIsFair
  BY <1>12 DEF ExecutionIsFair
<1>14. QED
  BY <1>13 DEF QueriesAreFair, QueryIsAccountedFor, SourcingRequestIsAccountedFor

-----------------------------------------------------------------------------
(* What is projected of a deck's assertions, however they were parsed.     *)

AnyDeck(Corroborations) ==
  [available : BOOLEAN, age : Int, corroboration : SUBSET Corroborations]

(* A line asserts one thing.                                               *)
AssertionsHold(assertions) ==
  \A a, b \in Range(assertions) :
    a.page = b.page /\ a.line = b.line => a.field = b.field /\ a.value = b.value

KeyOf(a) == <<a.field, a.value>>
PlaceOf(a) == <<a.page, a.line>>

LEMMA FactorsAreSignals ==
  ASSUME NEW group, NEW Corroborations, NEW deck \in AnyDeck(Corroborations),
         NEW corroborated \in BOOLEAN, NEW conflicted \in BOOLEAN
  PROVE  /\ TrustFactors(group, deck, corroborated, conflicted) \in [TrustKinds -> Signals]
         /\ ~AllUnknown(TrustFactors(group, deck, corroborated, conflicted))
<1> DEFINE factors == TrustFactors(group, deck, corroborated, conflicted)
<1>1. Signals = {"strengthens", "neutral", "weakens", "unknown"}
  BY DEF Signals
<1>2. RecencySignal(deck.age) \in Signals
  BY <1>1 DEF RecencySignal, AnyDeck, Unread
<1>3. ExtractionCertaintySignal({a.ocr : a \in group}) \in Signals
  BY <1>1 DEF ExtractionCertaintySignal
<1>4. /\ factors.recency \in Signals /\ factors.extraction_certainty \in Signals
      /\ factors.provenance \in {"strengthens", "weakens"}
      /\ factors.independence \in Signals /\ factors.corroboration \in Signals
      /\ factors.contradiction \in Signals
      /\ factors = [k \in {"provenance", "independence", "recency", "extraction_certainty",
                           "corroboration", "contradiction"} |-> factors[k]]
  BY <1>1, <1>2, <1>3 DEF TrustFactors
<1> HIDE DEF factors
<1>5. factors \in [TrustKinds -> Signals]
  BY <1>1, <1>4, KindsOfTrust
<1>6. "provenance" \in TrustKinds /\ factors["provenance"] # "unknown"
  BY <1>4, KindsOfTrust
<1>7. QED
  BY <1>5, <1>6 DEF factors, AllUnknown

(* Corroboration raises a claim's trust or leaves it.                      *)
LEMMA CorroborationRaises ==
  ASSUME NEW group, group # {}, NEW Corroborations, NEW deck \in AnyDeck(Corroborations),
         NEW corroborated \in BOOLEAN, NEW conflicted \in BOOLEAN
  PROVE  /\ conflicted =>
              ScoreClaimTrust(TrustFactors(group, deck, corroborated, conflicted), TRUE, conflicted) = NoScore
         /\ ScoreClaimTrust(TrustFactors(group, deck, FALSE, conflicted), TRUE, conflicted)
              <= ScoreClaimTrust(TrustFactors(group, deck, corroborated, conflicted), TRUE, conflicted)
<1> DEFINE with == TrustFactors(group, deck, corroborated, conflicted)
           none == TrustFactors(group, deck, FALSE, conflicted)
<1>1. with \in [TrustKinds -> Signals] /\ ~AllUnknown(with)
  BY FactorsAreSignals
<1>2. none \in [TrustKinds -> Signals] /\ ~AllUnknown(none)
  BY FactorsAreSignals
<1>3. /\ \A k \in TrustKinds \ {"independence", "corroboration"} : with[k] = none[k]
      /\ with["independence"] = none["independence"] \/ with["independence"] = "strengthens"
      /\ with["corroboration"] = none["corroboration"] \/ with["corroboration"] = "strengthens"
  BY KindsOfTrust DEF TrustFactors
<1> HIDE DEF with, none
<1>4. CASE conflicted = TRUE
  <2>1. ScoreClaimTrust(with, TRUE, TRUE) = NoScore /\ ScoreClaimTrust(none, TRUE, TRUE) = NoScore
    BY <1>1, <1>2, TrustScoreIs
  <2>2. NoScore <= NoScore
    BY DEF NoScore
  <2>3. QED
    BY <1>4, <2>1, <2>2 DEF with, none
<1>5. CASE conflicted = FALSE
  <2>1. \A k \in TrustKinds : with[k] = none[k] \/ with[k] = "strengthens"
    BY <1>3
  <2>2. ASSUME NEW k \in TrustKinds
        PROVE  TrustDelta(k, none[k]) <= TrustDelta(k, with[k])
    <3>1. none[k] \in Signals /\ with[k] \in Signals
      BY <1>1, <1>2
    <3>2. /\ \A s \in Signals : TrustDelta(k, s) \in Int
          /\ \A s \in Signals : TrustDelta(k, s) <= TrustDelta(k, "strengthens")
      BY DeltasAreOrdered
    <3>3. QED
      BY <2>1, <3>1, <3>2
  <2>3. TrustTotal(none) \in Int /\ TrustTotal(with) \in Int /\ TrustTotal(none) <= TrustTotal(with)
    BY <1>1, <1>2, <2>2, TrustTotalsCompare
  <2>4. /\ ScoreClaimTrust(with, TRUE, FALSE) = Clamped(50 + TrustTotal(with))
        /\ ScoreClaimTrust(none, TRUE, FALSE) = Clamped(50 + TrustTotal(none))
    BY <1>1, <1>2, TrustScoreIs
  <2> DEFINE x == 50 + TrustTotal(none)
             y == 50 + TrustTotal(with)
  <2>5. x \in Int /\ y \in Int /\ x <= y
    BY <2>3
  <2> HIDE DEF x, y
  <2>6. Clamped(x) <= Clamped(y)
    BY <2>5, ClampedGrows
  <2>7. QED
    BY <1>5, <2>4, <2>6 DEF x, y, with, none
<1>6. QED
  BY <1>4, <1>5 DEF with, none

(* A claim of the projection, part by part.                                *)
LEMMA ClaimOfAnAssertion ==
  ASSUME NEW assertions, NEW a \in Range(assertions), NEW Corroborations, NEW deck \in AnyDeck(Corroborations)
  PROVE  LET claim == ProjectedClaim(KeyOf(a), assertions, deck)
             places == {PlaceOf(b) : b \in {b \in Range(assertions) : KeyOf(b) = KeyOf(a)}}
             corroborated == Corroborating(deck, KeyOf(a)) # {}
             conflicted == a.field \in ConflictedFields(assertions)
         IN /\ claim.id = KeyOf(a) /\ claim.field = a.field /\ claim.counters = {}
            /\ claim.status = ClaimStatus(corroborated, conflicted)
            /\ claim.supports = places \cup Corroborating(deck, KeyOf(a))
            /\ PlaceOf(a) \in places
            /\ conflicted => claim.trust = NoScore
            /\ ProjectedClaim(KeyOf(a), assertions, Uncorroborated(deck)).trust <= claim.trust
            /\ Corroborating(Uncorroborated(deck), KeyOf(a)) = {}
            /\ corroborated => \E x \in deck.corroboration : x.independent
<1> DEFINE key == KeyOf(a)
           group == {b \in Range(assertions) : <<b.field, b.value>> = key}
           bare == Uncorroborated(deck)
           conflicted == a.field \in ConflictedFields(assertions)
           Signed(d) == Corroborating(d, key) # {}
           ClaimFor(d) == ProjectedClaim(key, assertions, d)
<1>1. key[1] = a.field /\ a \in group
  BY DEF KeyOf
<1>2. /\ bare \in AnyDeck(Corroborations) /\ bare.corroboration = {}
      /\ bare.available = deck.available /\ bare.age = deck.age
  BY DEF AnyDeck, Uncorroborated
<1> HIDE DEF key, bare
<1>3. Corroborating(bare, key) = {}
  BY <1>2 DEF Corroborating
<1>4. Signed(deck) => \E x \in deck.corroboration : x.independent
  BY DEF Corroborating
<1>5. ASSUME NEW d
      PROVE  /\ ClaimFor(d).id = key /\ ClaimFor(d).field = a.field /\ ClaimFor(d).counters = {}
             /\ ClaimFor(d).status = ClaimStatus(Signed(d), conflicted)
             /\ ClaimFor(d).supports = {<<b.page, b.line>> : b \in group} \cup Corroborating(d, key)
             /\ ClaimFor(d).trust = ScoreClaimTrust(TrustFactors(group, d, Signed(d), conflicted),
                                                    group # {}, conflicted)
  BY <1>1 DEF ProjectedClaim
<1>6. (group # {}) = TRUE /\ (Signed(bare)) = FALSE /\ Signed(deck) \in BOOLEAN /\ conflicted \in BOOLEAN
  BY <1>1, <1>3
<1>7. TrustFactors(group, bare, FALSE, conflicted) = TrustFactors(group, deck, FALSE, conflicted)
  BY <1>2 DEF TrustFactors
<1> DEFINE signed == Signed(deck)
<1>8. /\ ClaimFor(bare).trust = ScoreClaimTrust(TrustFactors(group, deck, FALSE, conflicted), TRUE, conflicted)
      /\ ClaimFor(deck).trust = ScoreClaimTrust(TrustFactors(group, deck, signed, conflicted), TRUE, conflicted)
  <2>1. /\ ClaimFor(bare).trust = ScoreClaimTrust(TrustFactors(group, bare, Signed(bare), conflicted),
                                                  group # {}, conflicted)
        /\ ClaimFor(deck).trust = ScoreClaimTrust(TrustFactors(group, deck, signed, conflicted),
                                                  group # {}, conflicted)
    BY <1>5
  <2> HIDE DEF ClaimFor, group, conflicted, signed, Signed
  <2>2. QED
    BY <1>6, <1>7, <2>1
<1>9. /\ conflicted => ClaimFor(deck).trust = NoScore
      /\ ClaimFor(bare).trust <= ClaimFor(deck).trust
  <2> HIDE DEF ClaimFor, conflicted, signed, group
  <2>1. group # {} /\ signed \in BOOLEAN /\ conflicted \in BOOLEAN
    BY <1>6 DEF signed
  <2>2. QED
    BY <1>8, <2>1, CorroborationRaises
<1>10. PlaceOf(a) \in {<<b.page, b.line>> : b \in group}
  BY <1>1 DEF PlaceOf
<1>11. {<<b.page, b.line>> : b \in group}
         = {PlaceOf(b) : b \in {b \in Range(assertions) : KeyOf(b) = key}}
  BY DEF PlaceOf, KeyOf
<1>12. QED
  BY <1>3, <1>4, <1>5, <1>9, <1>10, <1>11 DEF key, bare

(* A contradiction names every claim and place of its field.               *)
ContradictionOf(assertions, f) ==
  [id |-> f, claims |-> {<<a.field, a.value>> : a \in {b \in Range(assertions) : b.field = f}},
   evidence |-> {<<a.page, a.line>> : a \in {b \in Range(assertions) : b.field = f}}]

LEMMA ContradictionsAre ==
  ASSUME NEW assertions
  PROVE  LET F == ConflictedFields(assertions) IN
         /\ Contradictions(assertions) = {ContradictionOf(assertions, f) : f \in F}
         /\ F = {x.id : x \in Contradictions(assertions)}
         /\ \A f \in F : /\ ContradictionOf(assertions, f) \in Contradictions(assertions)
                         /\ \E a \in Range(assertions) : a.field = f
                         /\ \A a \in Range(assertions) : a.field = f =>
                              /\ KeyOf(a) \in ContradictionOf(assertions, f).claims
                              /\ PlaceOf(a) \in ContradictionOf(assertions, f).evidence
<1> DEFINE F == ConflictedFields(assertions)
           X(f) == ContradictionOf(assertions, f)
<1>1. Contradictions(assertions) = {X(f) : f \in F}
  BY DEF Contradictions, ContradictionOf
<1>2. \A f : X(f).id = f
  BY DEF ContradictionOf
<1>3. \A f, a : a \in Range(assertions) /\ a.field = f => KeyOf(a) \in X(f).claims /\ PlaceOf(a) \in X(f).evidence
  BY DEF ContradictionOf, KeyOf, PlaceOf
<1>4. \A f \in F : \E a \in Range(assertions) : a.field = f
  BY DEF ConflictedFields
<1> HIDE DEF X, F
<1>5. F = {x.id : x \in Contradictions(assertions)}
  BY <1>1, <1>2
<1>6. QED
  BY <1>1, <1>3, <1>4, <1>5 DEF X, F

(* However a deck's pages were read and corroborated, and within whatever  *)
(* limits: each claim has its grounds and cites the lines that make it, a  *)
(* field with two answers supports neither and is told as conflicted, such *)
(* a field is all that makes a deck unfit for a snapshot, only independent *)
(* corroboration makes a claim supported, and it never lowers trust.       *)
THEOREM DeckClaimsAreGrounded ==
  ASSUME NEW assertions, AssertionsHold(assertions), NEW Corroborations,
         NEW deck \in AnyDeck(Corroborations), NEW truncated, NEW limits
  PROVE  LET accepted == [assertions |-> assertions, truncated |-> truncated]
             view == ProjectionOf(accepted, deck, limits)
             alone == ProjectionOf(accepted, Uncorroborated(deck), limits)
             conflicted == {x.id : x \in view.contradictions}
         IN /\ UniqueIds(view.claims) /\ \A c \in view.claims : ClaimHolds(c)
            /\ CitationsClosed(alone.claims, alone.evidence)
            /\ SnapshotHolds([claims |-> alone.claims, evidence |-> alone.evidence,
                              contradictions |-> alone.contradictions, observations |-> <<>>])
                 = (conflicted = {})
            /\ \A c \in view.claims :
                 IF c.field \in conflicted
                 THEN /\ c.status = "unresolved" /\ c.trust = NoScore
                      /\ \E x \in view.contradictions : c.id \in x.claims /\ c.supports \cap x.evidence # {}
                      /\ \A k \in DOMAIN SectionFields :
                           c.field \in SectionFields[k] => view.sections[k].state = "conflicted"
                 ELSE \A d \in view.claims : d.field = c.field => d = c
            /\ \A c \in view.claims, d \in alone.claims :
                 c.id = d.id => /\ c.trust >= d.trust
                                /\ d.status # "supported"
                                /\ c.status = "supported" => \E x \in deck.corroboration : x.independent
<1> DEFINE R == Range(assertions)
           bare == Uncorroborated(deck)
           accepted == [assertions |-> assertions, truncated |-> truncated]
           view == ProjectionOf(accepted, deck, limits)
           alone == ProjectionOf(accepted, bare, limits)
           F == ConflictedFields(assertions)
           C(a) == ProjectedClaim(KeyOf(a), assertions, deck)
           B(a) == ProjectedClaim(KeyOf(a), assertions, bare)
           places(a) == {PlaceOf(b) : b \in {b \in R : KeyOf(b) = KeyOf(a)}}
           signed(a) == Corroborating(deck, KeyOf(a)) # {}
<1>1. bare \in AnyDeck(Corroborations)
  BY DEF AnyDeck, Uncorroborated
<1>2. /\ view.claims = {C(a) : a \in R} /\ alone.claims = {B(a) : a \in R}
      /\ alone.evidence = DeckEvidenceOf(assertions)
      /\ view.contradictions = Contradictions(assertions) /\ alone.contradictions = Contradictions(assertions)
      /\ view.sections = [k \in DOMAIN SectionFields |-> MemoSection(k, view.claims, F, limits)]
  BY DEF ProjectionOf, KeyOf
<1>3. ASSUME NEW a \in R
      PROVE  /\ C(a).id = KeyOf(a) /\ C(a).field = a.field /\ C(a).counters = {}
             /\ C(a).status = ClaimStatus(signed(a), a.field \in F)
             /\ C(a).supports = places(a) \cup Corroborating(deck, KeyOf(a))
             /\ PlaceOf(a) \in places(a)
             /\ a.field \in F => C(a).trust = NoScore
             /\ B(a).trust <= C(a).trust
             /\ signed(a) => \E x \in deck.corroboration : x.independent
  BY ClaimOfAnAssertion
<1>4. ASSUME NEW a \in R
      PROVE  /\ B(a).id = KeyOf(a) /\ B(a).field = a.field /\ B(a).counters = {}
             /\ B(a).status = ClaimStatus(FALSE, a.field \in F)
             /\ B(a).supports = places(a)
  <2>1. Corroborating(bare, KeyOf(a)) = {}
    BY ClaimOfAnAssertion
  <2>2. /\ B(a).id = KeyOf(a) /\ B(a).field = a.field /\ B(a).counters = {}
        /\ B(a).status = ClaimStatus(Corroborating(bare, KeyOf(a)) # {}, a.field \in F)
        /\ B(a).supports = places(a) \cup Corroborating(bare, KeyOf(a))
    BY <1>1, ClaimOfAnAssertion
  <2> HIDE DEF B, bare, places
  <2>3. (Corroborating(bare, KeyOf(a)) # {}) = FALSE
    BY <2>1
  <2>4. QED
    BY <2>1, <2>2, <2>3
<1>5. \A p, q : /\ ClaimStatus(p, q) \in {"unresolved", "supported", "asserted_unverified"}
                /\ q => ClaimStatus(p, q) = "unresolved"
                /\ ClaimStatus(p, q) = "supported" => p
  BY DEF ClaimStatus
<1>6. F = {x.id : x \in view.contradictions}
  BY <1>2, ContradictionsAre
<1>6a. \A a \in R : B(a).id = KeyOf(a)
  BY <1>4
<1>6b. \A a \in R : B(a).status # "contradicted"
  BY <1>4, <1>5
<1>7. \A a, b \in R : KeyOf(a) = KeyOf(b) => C(a) = C(b) /\ B(a) = B(b)
  OBVIOUS
<1>8. \A a, b \in R : KeyOf(a) = KeyOf(b) <=> a.field = b.field /\ a.value = b.value
  BY DEF KeyOf
<1>9. \A a, b \in R : a.field \notin F /\ b.field = a.field => KeyOf(b) = KeyOf(a)
  BY <1>8 DEF ConflictedFields
<1> HIDE DEF C, B, places, signed, F, R, view, alone, bare, accepted
<1>10. UniqueIds(view.claims) /\ \A c \in view.claims : ClaimHolds(c)
  <2>1. UniqueIds(view.claims)
    BY <1>2, <1>3, <1>7 DEF UniqueIds
  <2>2. ASSUME NEW a \in R
        PROVE  ClaimHolds(C(a))
    <3>1. /\ C(a).counters = {} /\ C(a).supports # {}
          /\ C(a).status \in {"unresolved", "supported", "asserted_unverified"}
      BY <1>3, <1>5
    <3>2. QED
      BY <3>1 DEF ClaimHolds
  <2>3. QED
    BY <1>2, <2>1, <2>2
<1>11. CitationsClosed(alone.claims, alone.evidence)
  <2>1. UniqueIds(alone.claims)
    BY <1>2, <1>6a, <1>7 DEF UniqueIds
  <2>2. alone.evidence = {[id |-> PlaceOf(a), claim |-> KeyOf(a), stance |-> "supports"] : a \in R}
    BY <1>2 DEF DeckEvidenceOf, PlaceOf, KeyOf, R
  <2>3. \A a, b \in R : PlaceOf(a) = PlaceOf(b) => KeyOf(a) = KeyOf(b)
    BY DEF AssertionsHold, PlaceOf, KeyOf, R
  <2>4. UniqueIds(alone.evidence)
    BY <2>2, <2>3 DEF UniqueIds
  <2>5. \A e \in alone.evidence : e.claim \in Ids(alone.claims)
    BY <1>2, <1>6a, <2>2 DEF Ids
  <2>6. ASSUME NEW a \in R
        PROVE  Cites(B(a), B(a).supports, "supports", alone.evidence) /\ Cites(B(a), B(a).counters, "refutes", alone.evidence)
    <3>1. ASSUME NEW id \in places(a)
          PROVE  \E e \in alone.evidence : e.id = id /\ e.claim = KeyOf(a) /\ e.stance = "supports"
      <4>1. PICK b \in R : KeyOf(b) = KeyOf(a) /\ id = PlaceOf(b)
        BY DEF places
      <4>2. [id |-> PlaceOf(b), claim |-> KeyOf(b), stance |-> "supports"] \in alone.evidence
        BY <2>2
      <4>3. QED
        BY <4>1, <4>2
    <3>2. B(a).id = KeyOf(a) /\ B(a).supports = places(a) /\ B(a).counters = {}
      BY <1>4
    <3>3. QED
      BY <3>1, <3>2 DEF Cites
  <2>7. QED
    BY <1>2, <2>1, <2>4, <2>5, <2>6 DEF CitationsClosed
<1>12. ASSUME NEW x \in view.contradictions
       PROVE  ~Contradicted(x, alone.claims)
  <2>1. PICK f \in F : x = ContradictionOf(assertions, f)
    BY <1>2, ContradictionsAre DEF F
  <2>2. PICK a \in R : a.field = f
    BY ContradictionsAre DEF F, R
  <2>3. KeyOf(a) \in x.claims
    BY <2>1, <2>2, ContradictionsAre DEF F, R
  <2>4. \A c \in alone.claims : c.status # "contradicted"
    BY <1>2, <1>6b
  <2>5. QED
    BY <2>3, <2>4 DEF Contradicted
<1>13. SnapshotHolds([claims |-> alone.claims, evidence |-> alone.evidence,
                      contradictions |-> alone.contradictions, observations |-> <<>>]) = (F = {})
  <2> DEFINE s == [claims |-> alone.claims, evidence |-> alone.evidence,
                   contradictions |-> alone.contradictions, observations |-> <<>>]
  <2>1. /\ s.claims = alone.claims /\ s.evidence = alone.evidence
        /\ s.contradictions = view.contradictions /\ DOMAIN s.observations = {}
    BY <1>2
  <2> HIDE DEF s
  <2>2. CASE F = {}
    <3>1. view.contradictions = {}
      BY <1>6, <2>2
    <3>2. SnapshotHolds(s)
      BY <1>11, <2>1, <3>1 DEF SnapshotHolds, UniqueIds
    <3>3. QED
      BY <2>2, <3>2 DEF s
  <2>3. CASE F # {}
    <3>1. \E x \in view.contradictions : TRUE
      BY <1>6, <2>3
    <3>2. SnapshotHolds(s) = FALSE
      BY <1>12, <2>1, <3>1 DEF SnapshotHolds
    <3>3. QED
      BY <2>3, <3>2 DEF s
  <2>4. QED
    BY <2>2, <2>3
<1>14. ASSUME NEW a \in R, a.field \in F
       PROVE  /\ C(a).status = "unresolved" /\ C(a).trust = NoScore
              /\ \E x \in view.contradictions : C(a).id \in x.claims /\ C(a).supports \cap x.evidence # {}
              /\ \A k \in DOMAIN SectionFields :
                   C(a).field \in SectionFields[k] => view.sections[k].state = "conflicted"
  <2>1. C(a).status = "unresolved" /\ C(a).trust = NoScore
    BY <1>3, <1>5, <1>14
  <2>2. ContradictionOf(assertions, a.field) \in view.contradictions
    BY <1>2, <1>14, ContradictionsAre DEF F
  <2> DEFINE x == ContradictionOf(assertions, a.field)
  <2>3. KeyOf(a) \in x.claims /\ PlaceOf(a) \in x.evidence
    BY <1>14, ContradictionsAre DEF F, R
  <2>4. C(a).id \in x.claims /\ C(a).supports \cap x.evidence # {}
    BY <1>3, <2>3
  <2> HIDE DEF x
  <2>5. ASSUME NEW k \in DOMAIN SectionFields, C(a).field \in SectionFields[k]
        PROVE  view.sections[k].state = "conflicted"
    <3>1. C(a) \in view.claims /\ C(a).field \in F
      BY <1>2, <1>3, <1>14
    <3>2. MemoSection(k, view.claims, F, limits).state = "conflicted"
      BY <2>5, <3>1 DEF MemoSection
    <3>3. QED
      BY <1>2, <3>2
  <2>6. QED
    BY <2>1, <2>2, <2>4, <2>5 DEF x
<1>15. ASSUME NEW a \in R, a.field \notin F, NEW b \in R, C(b).field = C(a).field
       PROVE  C(b) = C(a)
  BY <1>3, <1>7, <1>9, <1>15
<1>16. ASSUME NEW a \in R, NEW b \in R, C(a).id = B(b).id
       PROVE  /\ C(a).trust >= B(b).trust /\ B(b).status # "supported"
              /\ C(a).status = "supported" => \E x \in deck.corroboration : x.independent
  <2>1. KeyOf(a) = KeyOf(b)
    BY <1>3, <1>4, <1>16
  <2>2. B(b) = B(a)
    BY <1>7, <2>1
  <2>3. B(b).status # "supported"
    BY <1>4, <1>5
  <2>4. C(a).status = "supported" => signed(a)
    BY <1>3, <1>5
  <2>5. QED
    BY <1>3, <2>2, <2>3, <2>4
<1>17. \A a \in R : C(a).field = a.field
  BY <1>3
<1>18. \A c \in view.claims :
         IF c.field \in F
         THEN /\ c.status = "unresolved" /\ c.trust = NoScore
              /\ \E x \in view.contradictions : c.id \in x.claims /\ c.supports \cap x.evidence # {}
              /\ \A k \in DOMAIN SectionFields :
                   c.field \in SectionFields[k] => view.sections[k].state = "conflicted"
         ELSE \A d \in view.claims : d.field = c.field => d = c
  BY <1>2, <1>14, <1>15, <1>17
<1>19. \A c \in view.claims, d \in alone.claims :
         c.id = d.id => /\ c.trust >= d.trust
                        /\ d.status # "supported"
                        /\ c.status = "supported" => \E x \in deck.corroboration : x.independent
  BY <1>2, <1>16
<1>20. QED
  BY <1>6, <1>10, <1>11, <1>13, <1>18, <1>19 DEF view, alone, bare, accepted

-----------------------------------------------------------------------------
(* Identities.  Joining groups one by one, in whatever order, makes the    *)
(* classes of the least equivalence that has each group in one class:      *)
(* what every set closed under the groups has if it has a member.          *)
IsClosed(X, H) == \A g \in H : g \cap X # {} => g \subseteq X
ClassOf(i, D, H) == {j \in D : \A X \in SUBSET D : IsClosed(X, H) /\ i \in X => j \in X}
ClassesOf(D, H) == {ClassOf(i, D, H) : i \in D}

LEMMA ClassIsClosed ==
  ASSUME NEW D, NEW H \in SUBSET SUBSET D, NEW i \in D
  PROVE  /\ i \in ClassOf(i, D, H) /\ ClassOf(i, D, H) \in SUBSET D
         /\ IsClosed(ClassOf(i, D, H), H)
         /\ \A X \in SUBSET D : IsClosed(X, H) /\ i \in X => ClassOf(i, D, H) \subseteq X
<1>1. i \in ClassOf(i, D, H) /\ ClassOf(i, D, H) \in SUBSET D
  BY DEF ClassOf
<1>2. \A X \in SUBSET D : IsClosed(X, H) /\ i \in X => ClassOf(i, D, H) \subseteq X
  BY DEF ClassOf
<1>3. ASSUME NEW g \in H, g \cap ClassOf(i, D, H) # {}
      PROVE  g \subseteq ClassOf(i, D, H)
  <2>1. SUFFICES ASSUME NEW X \in SUBSET D, IsClosed(X, H), i \in X
                 PROVE  g \subseteq X
    BY DEF ClassOf
  <2>2. g \cap X # {}
    BY <1>2, <1>3, <2>1
  <2>3. QED
    BY <2>1, <2>2 DEF IsClosed
<1>4. QED
  BY <1>1, <1>2, <1>3 DEF IsClosed

LEMMA ClassesPartition ==
  ASSUME NEW D, NEW H \in SUBSET SUBSET D, NEW i \in D
  PROVE  \A j \in ClassOf(i, D, H) : ClassOf(j, D, H) = ClassOf(i, D, H)
<1>1. SUFFICES ASSUME NEW j \in ClassOf(i, D, H)
               PROVE  ClassOf(j, D, H) = ClassOf(i, D, H)
  OBVIOUS
<1>2. j \in D
  BY <1>1 DEF ClassOf
<1>3. ClassOf(j, D, H) \subseteq ClassOf(i, D, H)
  BY <1>1, <1>2, ClassIsClosed
<1>4. i \in ClassOf(j, D, H)
  <2>1. SUFFICES ASSUME i \notin ClassOf(j, D, H)
                 PROVE  FALSE
    OBVIOUS
  <2> DEFINE rest == D \ ClassOf(j, D, H)
  <2>2. IsClosed(ClassOf(j, D, H), H)
    BY <1>2, ClassIsClosed
  <2>3. IsClosed(rest, H)
    BY <2>2 DEF IsClosed
  <2>4. i \in rest /\ rest \in SUBSET D
    BY <2>1
  <2>5. ClassOf(i, D, H) \subseteq rest
    BY <2>3, <2>4, ClassIsClosed
  <2>6. j \in ClassOf(j, D, H)
    BY <1>2, ClassIsClosed
  <2>7. QED
    BY <1>1, <2>5, <2>6
<1>5. ClassOf(i, D, H) \subseteq ClassOf(j, D, H)
  BY <1>2, <1>4, ClassIsClosed
<1>6. QED
  BY <1>3, <1>5

(* More groups, or larger ones, over more elements, make larger classes.   *)
LEMMA ClassesGrow ==
  ASSUME NEW D, NEW H \in SUBSET SUBSET D, NEW F \in SUBSET D, NEW G \in SUBSET SUBSET F,
         \A g \in G : \E h \in H : g \subseteq h, NEW i \in F
  PROVE  ClassOf(i, F, G) \subseteq ClassOf(i, D, H)
<1> DEFINE X == ClassOf(i, D, H) \cap F
<1>1. i \in X /\ X \in SUBSET F
  BY ClassIsClosed
<1>2. IsClosed(X, G)
  <2>1. SUFFICES ASSUME NEW g \in G, g \cap X # {}
                 PROVE  g \subseteq X
    BY DEF IsClosed
  <2>2. PICK h \in H : g \subseteq h
    OBVIOUS
  <2>3. h \cap ClassOf(i, D, H) # {}
    BY <2>1, <2>2
  <2>4. h \subseteq ClassOf(i, D, H)
    BY <2>3, ClassIsClosed DEF IsClosed
  <2>5. QED
    BY <2>2, <2>4
<1>3. QED
  <2> HIDE DEF X
  <2>1. ClassOf(i, F, G) \subseteq X
    BY <1>1, <1>2, ClassIsClosed
  <2>2. QED
    BY <2>1 DEF X

(* The classes of a partition are its members.                             *)
Parts(P, D) == /\ P \in SUBSET SUBSET D /\ {} \notin P /\ UNION P = D
               /\ \A c, d \in P : c \cap d # {} => c = d

LEMMA ClassesAreParts ==
  ASSUME NEW D, NEW H \in SUBSET SUBSET D
  PROVE  Parts(ClassesOf(D, H), D)
<1>1. \A i \in D : i \in ClassOf(i, D, H) /\ ClassOf(i, D, H) \in SUBSET D
  BY ClassIsClosed
<1>2. \A i \in D : \A j \in ClassOf(i, D, H) : ClassOf(j, D, H) = ClassOf(i, D, H)
  BY ClassesPartition
<1>3. QED
  BY <1>1, <1>2 DEF Parts, ClassesOf

LEMMA PartsAreClasses ==
  ASSUME NEW D, NEW P, Parts(P, D)
  PROVE  ClassesOf(D, P) = P
<1>1. ASSUME NEW c \in P, NEW i \in c
      PROVE  i \in D /\ ClassOf(i, D, P) = c
  <2>1. i \in D /\ c \in SUBSET D /\ P \in SUBSET SUBSET D
    BY <1>1 DEF Parts
  <2>2. IsClosed(c, P)
    BY <1>1 DEF IsClosed, Parts
  <2>3. ClassOf(i, D, P) \subseteq c
    BY <1>1, <2>1, <2>2, ClassIsClosed
  <2>4. i \in ClassOf(i, D, P) /\ IsClosed(ClassOf(i, D, P), P)
    BY <2>1, ClassIsClosed
  <2>5. c \subseteq ClassOf(i, D, P)
    BY <1>1, <2>4 DEF IsClosed
  <2>6. QED
    BY <2>1, <2>3, <2>5
<1>2. \A i \in D : \E c \in P : i \in c
  BY DEF Parts
<1>3. \A c \in P : \E i : i \in c
  BY DEF Parts
<1>4. QED
  BY <1>1, <1>2, <1>3 DEF ClassesOf

LEMMA JoinedIs ==
  ASSUME NEW D, NEW H \in SUBSET SUBSET D, NEW x \in SUBSET D, x # {}
  PROVE  Joined(ClassesOf(D, H), x) = ClassesOf(D, H \cup {x})
<1> DEFINE old(i) == ClassOf(i, D, H)
           new(i) == ClassOf(i, D, H \cup {x})
           touched == {c \in ClassesOf(D, H) : c \cap x # {}}
           all == UNION touched
<1>1. H \cup {x} \in SUBSET SUBSET D
  OBVIOUS
<1>2. ASSUME NEW i \in D
      PROVE  /\ i \in old(i) /\ old(i) \in SUBSET D /\ IsClosed(old(i), H)
             /\ old(i) \in ClassesOf(D, H)
             /\ \A j \in old(i) : j \in D /\ old(j) = old(i)
             /\ i \in new(i) /\ new(i) \in SUBSET D /\ IsClosed(new(i), H \cup {x})
             /\ \A X \in SUBSET D : IsClosed(X, H \cup {x}) /\ i \in X => new(i) \subseteq X
  <2>1. old(i) \in ClassesOf(D, H)
    BY DEF ClassesOf
  <2>2. \A j \in old(i) : j \in D /\ old(j) = old(i)
    BY ClassesPartition, ClassIsClosed
  <2>3. i \in old(i) /\ old(i) \in SUBSET D /\ IsClosed(old(i), H)
    BY ClassIsClosed
  <2> DEFINE K == H \cup {x}
  <2> HIDE DEF K
  <2>4. /\ i \in ClassOf(i, D, K) /\ ClassOf(i, D, K) \in SUBSET D /\ IsClosed(ClassOf(i, D, K), K)
        /\ \A X \in SUBSET D : IsClosed(X, K) /\ i \in X => ClassOf(i, D, K) \subseteq X
    BY <1>1, ClassIsClosed DEF K
  <2>5. QED
    BY <2>1, <2>2, <2>3, <2>4 DEF K
<1>3. ASSUME NEW i \in D
      PROVE  old(i) \subseteq new(i)
  <2>1. \A g \in H : \E h \in H \cup {x} : g \subseteq h
    OBVIOUS
  <2>2. D \in SUBSET D
    OBVIOUS
  <2>3. QED
    BY <1>1, <2>1, <2>2, ClassesGrow
<1>4. \A c \in ClassesOf(D, H) : \E i \in D : c = old(i)
  BY DEF ClassesOf
<1> HIDE DEF old, new
<1>5. ASSUME NEW i \in D
      PROVE  i \in all <=> old(i) \cap x # {}
  BY <1>2, <1>4
<1>6. all \in SUBSET D /\ x \subseteq all
  BY <1>2, <1>4
<1>7. IsClosed(all, H \cup {x})
  <2>1. ASSUME NEW g \in H, g \cap all # {}
        PROVE  g \subseteq all
    <3>1. PICK c \in touched : g \cap c # {}
      BY <2>1
    <3>2. g \subseteq c
      BY <1>2, <1>4, <3>1 DEF IsClosed
    <3>3. QED
      BY <3>1, <3>2
  <2>2. QED
    BY <1>6, <2>1 DEF IsClosed
<1>8. ASSUME NEW i \in D, i \in all
      PROVE  new(i) = all
  <2>1. new(i) \subseteq all
    <3> HIDE DEF all
    <3>1. QED
      BY <1>2, <1>6, <1>7, <1>8
  <2>2. PICK k \in old(i) : k \in x
    BY <1>5, <1>8
  <2>3. x \subseteq new(i)
    BY <1>2, <1>3, <2>2 DEF IsClosed
  <2>4. ASSUME NEW j \in all
        PROVE  j \in new(i)
    <3>1. j \in D
      BY <1>6
    <3>2. PICK m \in old(j) : m \in x
      BY <1>5, <3>1
    <3>3. m \in D /\ old(m) = old(j) /\ j \in old(m)
      BY <1>2, <3>1, <3>2
    <3>4. IsClosed(new(i), H) /\ m \in new(i)
      BY <1>2, <2>3, <3>2 DEF IsClosed
    <3>5. old(m) \subseteq new(i)
      <4>1. new(i) \in SUBSET D
        BY <1>2
      <4>2. QED
        BY <3>3, <3>4, <4>1, ClassIsClosed DEF old
    <3>6. QED
      BY <3>3, <3>5
  <2>5. QED
    BY <2>1, <2>4
<1>9. ASSUME NEW i \in D, i \notin all
      PROVE  new(i) = old(i)
  <2>1. IsClosed(old(i), H \cup {x})
    BY <1>2, <1>5, <1>9 DEF IsClosed
  <2>2. QED
    BY <1>2, <1>3, <2>1
<1>10. all # {}
  BY <1>6
<1>11. \A c \in ClassesOf(D, H) \ touched : \E i \in D : c = old(i) /\ i \notin all
  BY <1>2, <1>4, <1>5
<1>12. \A i \in D : i \notin all => old(i) \in ClassesOf(D, H) \ touched
  BY <1>2, <1>5
<1>13. Joined(ClassesOf(D, H), x) = (ClassesOf(D, H) \ touched) \cup {all}
  BY DEF Joined
<1> HIDE DEF all, touched
<1>14. (ClassesOf(D, H) \ touched) \cup {all} = {new(i) : i \in D}
  BY <1>6, <1>8, <1>9, <1>10, <1>11, <1>12
<1>15. QED
  BY <1>13, <1>14 DEF new, ClassesOf

(* The fold that joins, by the definition of the library.                  *)
JoinStep(g, P, s) == IF s = {} THEN P ELSE Joined(g[s \ {Chosen(s)}], Chosen(s))
IsJoin(g, P, S) == g = [s \in SUBSET S |-> JoinStep(g, P, s)]
Joins(P, S) == CHOOSE g : IsJoin(g, P, S)

LEMMA JoinIs ==
  ASSUME NEW P, NEW S
  PROVE  JoinAll(P, S) = Joins(P, S)[S]
  BY DEF JoinAll, FoldSet, MapThenFoldSet, Joins, IsJoin, JoinStep, Chosen

LEMMA JoinAllIs ==
  ASSUME NEW D, NEW P, Parts(P, D), NEW G \in SUBSET SUBSET D, IsFiniteSet(G), {} \notin G
  PROVE  JoinAll(P, G) = ClassesOf(D, P \cup G)
<1> DEFINE whole == [s \in SUBSET G |-> ClassesOf(D, P \cup s)]
           g == Joins(P, G)
           T == {s \in SUBSET G : g[s] = ClassesOf(D, P \cup s)}
<1>1. ASSUME NEW s \in SUBSET G, s # {}
      PROVE  /\ Chosen(s) \in s /\ s \ {Chosen(s)} \in SUBSET G
             /\ Joined(ClassesOf(D, P \cup (s \ {Chosen(s)})), Chosen(s)) = ClassesOf(D, P \cup s)
  <2> DEFINE x == Chosen(s)
             H == P \cup (s \ {x})
  <2>1. x \in s
    BY <1>1 DEF Chosen
  <2> HIDE DEF x
  <2>2. x \in SUBSET D /\ x # {} /\ H \in SUBSET SUBSET D /\ H \cup {x} = P \cup s
    <3>1. x \in G /\ P \in SUBSET SUBSET D
      BY <2>1 DEF Parts
    <3>2. H \cup {x} = P \cup s
      BY <2>1
    <3>3. H \in SUBSET SUBSET D
      BY <3>1
    <3>4. QED
      BY <3>1, <3>2, <3>3
  <2> HIDE DEF H
  <2>3. Joined(ClassesOf(D, H), x) = ClassesOf(D, H \cup {x})
    BY <2>2, JoinedIs
  <2>4. QED
    BY <2>1, <2>2, <2>3 DEF x, H
<1>2. ClassesOf(D, P \cup {}) = P
  <2>1. P \cup {} = P
    OBVIOUS
  <2>2. QED
    BY <2>1, PartsAreClasses
<1>3. ASSUME NEW s \in SUBSET G
      PROVE  JoinStep(whole, P, s) = whole[s]
  BY <1>1, <1>2 DEF JoinStep
<1>4. IsJoin(whole, P, G)
  <2>1. whole = [s \in SUBSET G |-> whole[s]]
    OBVIOUS
  <2> HIDE DEF whole
  <2>2. QED
    BY <1>3, <2>1 DEF IsJoin
<1>5. IsJoin(g, P, G)
  <2> HIDE DEF whole
  <2>1. QED
    BY <1>4 DEF Joins
<1> HIDE DEF g
<1>6. \A s \in SUBSET G : g[s] = JoinStep(g, P, s)
  BY <1>5 DEF IsJoin
<1>7. ASSUME NEW s \in SUBSET G, \A x \in s : s \ {x} \in T
      PROVE  s \in T
  <2>1. CASE s = {}
    BY <1>2, <1>6, <2>1 DEF JoinStep
  <2>2. CASE s # {}
    <3>1. Chosen(s) \in s
      BY <1>1, <2>2
    <3>2. g[s \ {Chosen(s)}] = ClassesOf(D, P \cup (s \ {Chosen(s)}))
      BY <1>7, <3>1
    <3>3. g[s] = Joined(g[s \ {Chosen(s)}], Chosen(s))
      BY <1>6, <2>2 DEF JoinStep
    <3>4. QED
      BY <1>1, <2>2, <3>2, <3>3
  <2>3. QED
    BY <2>1, <2>2
<1>8. G \in T
  <2> HIDE DEF T
  <2>1. \A s \in SUBSET G : (\A x \in s : s \ {x} \in T) => s \in T
    BY <1>7
  <2>2. \A s \in SUBSET G : s \in T
    BY <2>1, SubsetInduction
  <2>3. QED
    BY <2>2
<1>9. QED
  BY <1>8, JoinIs DEF g

AnyIdentitySignal(K, V, R, C) == [kind : K, value : V, ref : R, category : C]
Singles(signals) == {{i} : i \in DOMAIN signals}
Alikes(signals) ==
  {{j \in DOMAIN signals : <<signals[j].ref>> = <<signals[i].ref>>} : i \in DOMAIN signals}
    \cup {{j \in DOMAIN signals : StrongKey(signals[j]) = StrongKey(signals[i])} : i \in DOMAIN signals}
Named(signals, P, v) ==
  {c \in P : \E i \in c : signals[i].kind = "name" /\ signals[i].value = v}
NamesOf(signals) == {signals[i].value : i \in {j \in DOMAIN signals : signals[j].kind = "name"}}
Differ(signals, h) == /\ \E c, d \in h : c # d
                      /\ \E i, j \in UNION h : signals[i].category # signals[j].category
ClustersOf(signals) ==
  ClassesOf(DOMAIN signals, StrongClusters(signals) \cup NameGroups(signals, StrongClusters(signals)))

LEMMA FewSets ==
  ASSUME NEW D, IsFiniteSet(D), NEW G \in SUBSET SUBSET D
  PROVE  IsFiniteSet(G)
<1>1. IsFiniteSet(SUBSET D)
  BY FS_SUBSET
<1>2. QED
  BY <1>1, FS_Subset

LEMMA StrongIs ==
  ASSUME NEW S, NEW signals \in Seq(S)
  PROVE  /\ StrongClusters(signals) = ClassesOf(DOMAIN signals, Singles(signals) \cup Alikes(signals))
         /\ Parts(StrongClusters(signals), DOMAIN signals)
         /\ Singles(signals) \cup Alikes(signals) \in SUBSET SUBSET (DOMAIN signals)
<1> DEFINE D == DOMAIN signals
<1>1. D = 1..Len(signals) /\ Len(signals) \in Nat
  OBVIOUS
<1>2. IsFiniteSet(D)
  BY <1>1, FS_Interval
<1>3. StrongClusters(signals) = JoinAll(Singles(signals), Alikes(signals))
  BY DEF StrongClusters, Singles, Alikes
<1> HIDE DEF D
<1>4. Parts(Singles(signals), D)
  BY DEF Parts, Singles, D
<1>5. Alikes(signals) \in SUBSET SUBSET D /\ {} \notin Alikes(signals)
  BY DEF Alikes, D
<1>6. IsFiniteSet(Alikes(signals))
  BY <1>2, <1>5, FewSets
<1>7. StrongClusters(signals) = ClassesOf(D, Singles(signals) \cup Alikes(signals))
  BY <1>3, <1>4, <1>5, <1>6, JoinAllIs
<1>8. Singles(signals) \cup Alikes(signals) \in SUBSET SUBSET D
  BY <1>4, <1>5 DEF Parts
<1>9. QED
  BY <1>7, <1>8, ClassesAreParts DEF D

LEMMA NameGroupsAre ==
  ASSUME NEW S, NEW signals \in Seq(S), NEW P, Parts(P, DOMAIN signals)
  PROVE  NameGroups(signals, P)
           = {UNION h : h \in {g \in {Named(signals, P, v) : v \in NamesOf(signals)} : Differ(signals, g)}}
<1> DEFINE D == DOMAIN signals
           groups == {Named(signals, P, v) : v \in NamesOf(signals)}
<1>1. IsFiniteSet(D)
  <2>1. D = 1..Len(signals) /\ Len(signals) \in Nat
    OBVIOUS
  <2>2. QED
    BY <2>1, FS_Interval
<1>2. NameGroups(signals, P)
        = {UNION g : g \in {h \in groups : /\ Cardinality(h) >= 2
                                           /\ Cardinality(CategoriesOf(signals, UNION h)) >= 2}}
  <2>1. groups = {Named(signals, P, signals[i].value) : i \in {j \in D : signals[j].kind = "name"}}
    BY DEF NamesOf
  <2>2. QED
    BY <2>1 DEF NameGroups, Named
<1>3. P \in SUBSET SUBSET D
  BY DEF Parts
<1> HIDE DEF D
<1>4. ASSUME NEW h \in groups
      PROVE  Differ(signals, h) <=> /\ Cardinality(h) >= 2
                                    /\ Cardinality(CategoriesOf(signals, UNION h)) >= 2
  <2> DEFINE U == UNION h
             cats == CategoriesOf(signals, U)
             f == [i \in U |-> signals[i].category]
  <2>1. h \in SUBSET SUBSET D /\ U \in SUBSET D
    BY <1>3 DEF Named
  <2>2. IsFiniteSet(h) /\ IsFiniteSet(U)
    BY <1>1, <2>1, FewSets, FS_Subset
  <2>3. cats = {signals[i].category : i \in U}
    BY DEF CategoriesOf
  <2> HIDE DEF U, cats
  <2>4. f \in Surjection(U, cats)
    BY <2>3 DEF Surjection
  <2> HIDE DEF f
  <2>5. IsFiniteSet(cats)
    BY <2>2, <2>4, FS_Surjection
  <2>6. /\ Cardinality(h) >= 2 <=> \E c, d \in h : c # d
        /\ Cardinality(cats) >= 2 <=> \E a, b \in cats : a # b
    <3>1. Cardinality(h) \in Nat /\ Cardinality(cats) \in Nat
      BY <2>2, <2>5, FS_CardinalityType
    <3>2. (Cardinality(h) < 2) = (\A c, d \in h : c = d)
      BY <2>2, FewerThanTwo
    <3>3. (Cardinality(cats) < 2) = (\A c, d \in cats : c = d)
      BY <2>5, FewerThanTwo
    <3>4. Cardinality(h) >= 2 <=> ~(Cardinality(h) < 2)
      BY <3>1
    <3>5. Cardinality(cats) >= 2 <=> ~(Cardinality(cats) < 2)
      BY <3>1
    <3>6. QED
      BY <3>2, <3>3, <3>4, <3>5
  <2>7. (\E a, b \in cats : a # b) <=> \E i, j \in U : signals[i].category # signals[j].category
    BY <2>3
  <2>8. QED
    BY <2>6, <2>7 DEF Differ, U, cats
<1> HIDE DEF groups
<1>5. {h \in groups : Differ(signals, h)}
        = {h \in groups : /\ Cardinality(h) >= 2
                          /\ Cardinality(CategoriesOf(signals, UNION h)) >= 2}
  BY <1>4
<1>6. QED
  BY <1>2, <1>5 DEF groups

(* A group of names is the whole of its clusters.                          *)
LEMMA NameGroupsHold ==
  ASSUME NEW S, NEW signals \in Seq(S), NEW P, Parts(P, DOMAIN signals)
  PROVE  /\ NameGroups(signals, P) \in SUBSET SUBSET (DOMAIN signals)
         /\ {} \notin NameGroups(signals, P) /\ IsFiniteSet(NameGroups(signals, P))
         /\ \A g \in NameGroups(signals, P) :
              /\ \E i, j \in g : signals[i].category # signals[j].category
              /\ \E i \in g : signals[i].kind = "name"
<1> DEFINE D == DOMAIN signals
           N == NameGroups(signals, P)
<1>1. \A g \in N : \E v : g = UNION Named(signals, P, v) /\ Differ(signals, Named(signals, P, v))
  BY NameGroupsAre
<1>2. P \in SUBSET SUBSET D
  BY DEF Parts
<1> HIDE DEF N, D
<1>3. ASSUME NEW g \in N
      PROVE  /\ g \in SUBSET D /\ g # {}
             /\ \E i, j \in g : signals[i].category # signals[j].category
             /\ \E i \in g : signals[i].kind = "name"
  <2>1. PICK v : g = UNION Named(signals, P, v) /\ Differ(signals, Named(signals, P, v))
    BY <1>1
  <2>2. PICK c \in Named(signals, P, v) : TRUE
    BY <2>1 DEF Differ
  <2>3. PICK i \in c : signals[i].kind = "name"
    BY <2>2 DEF Named
  <2>4. i \in g
    BY <2>1, <2>2, <2>3
  <2>5. \E k, j \in g : signals[k].category # signals[j].category
    BY <2>1 DEF Differ
  <2>6. g \in SUBSET D
    BY <1>2, <2>1 DEF Named
  <2>7. QED
    BY <2>3, <2>4, <2>5, <2>6
<1>4. N \in SUBSET SUBSET D /\ {} \notin N
  BY <1>3
<1>5. IsFiniteSet(N)
  <2>1. D = 1..Len(signals) /\ Len(signals) \in Nat
    BY DEF D
  <2>2. IsFiniteSet(D)
    BY <2>1, FS_Interval
  <2>3. QED
    BY <1>4, <2>2, FewSets
<1>6. QED
  BY <1>3, <1>4, <1>5 DEF N, D

LEMMA IdentitiesAre ==
  ASSUME NEW S, NEW signals \in Seq(S)
  PROVE  LET N == NameGroups(signals, StrongClusters(signals)) IN
         /\ Parts(ClustersOf(signals), DOMAIN signals)
         /\ JoinAll(StrongClusters(signals), N) = ClustersOf(signals)
         /\ ResolveIdentities(signals) = {Entity(signals, c, UNION N) : c \in ClustersOf(signals)}
         /\ \A c : Entity(signals, c, UNION N).members = c
         /\ Members(ResolveIdentities(signals)) = ClustersOf(signals)
<1> DEFINE P == StrongClusters(signals)
           N == NameGroups(signals, P)
           D == DOMAIN signals
<1>1. Parts(P, D)
  BY StrongIs
<1>2. N \in SUBSET SUBSET D /\ {} \notin N /\ IsFiniteSet(N)
  BY <1>1, NameGroupsHold
<1>3. ResolveIdentities(signals) = {Entity(signals, c, UNION N) : c \in JoinAll(P, N)}
  BY DEF ResolveIdentities
<1>4. \A c : Entity(signals, c, UNION N).members = c
  <2> HIDE DEF N
  <2>1. QED
    BY DEF Entity
<1>5. ClustersOf(signals) = ClassesOf(D, P \cup N)
  BY DEF ClustersOf
<1> HIDE DEF P, N, D
<1>6. JoinAll(P, N) = ClustersOf(signals)
  BY <1>1, <1>2, <1>5, JoinAllIs
<1>7. P \cup N \in SUBSET SUBSET D
  BY <1>1, <1>2 DEF Parts
<1>8. Parts(ClustersOf(signals), D)
  BY <1>5, <1>7, ClassesAreParts
<1>9. Members(ResolveIdentities(signals)) = ClustersOf(signals)
  <2> DEFINE E(c) == Entity(signals, c, UNION N)
  <2>1. ResolveIdentities(signals) = {E(c) : c \in ClustersOf(signals)} /\ \A c : E(c).members = c
    BY <1>3, <1>4, <1>6
  <2> HIDE DEF E
  <2>2. QED
    BY <2>1 DEF Members
<1>10. QED
  BY <1>3, <1>4, <1>6, <1>8, <1>9 DEF P, N, D

SignalsOf(K, V, R, C) == Seq(AnyIdentitySignal(K, V, R, C))

(* Without the names to lead it astray: what is resolved is a cluster of   *)
(* identifiers and records, and remains one when every name is its own.    *)
LEMMA BlindedIs ==
  ASSUME NEW K, NEW V, NEW R, NEW C, NEW signals \in SignalsOf(K, V, R, C)
  PROVE  /\ Blinded(signals) \in SignalsOf(K, V \cup Int, R, C)
         /\ DOMAIN Blinded(signals) = DOMAIN signals
         /\ StrongClusters(Blinded(signals)) = StrongClusters(signals)
         /\ NameGroups(Blinded(signals), StrongClusters(signals)) = {}
         /\ \A c \in SUBSET (DOMAIN signals) : Entity(Blinded(signals), c, {}) = Entity(signals, c, {})
<1> DEFINE blind == Blinded(signals)
           D == DOMAIN signals
           P == StrongClusters(signals)
<1>1. D = 1..Len(signals) /\ Len(signals) \in Nat /\ \A i \in D : signals[i] \in AnyIdentitySignal(K, V, R, C)
  BY DEF SignalsOf
<1>2. blind = [i \in D |-> IF signals[i].kind = "name" THEN [signals[i] EXCEPT !.value = i] ELSE signals[i]]
  BY DEF Blinded
<1>3. ASSUME NEW i \in D
      PROVE  /\ blind[i] \in AnyIdentitySignal(K, V \cup Int, R, C)
             /\ blind[i].kind = signals[i].kind /\ blind[i].ref = signals[i].ref
             /\ blind[i].category = signals[i].category
             /\ signals[i].kind # "name" => blind[i] = signals[i]
             /\ signals[i].kind = "name" => blind[i].value = i
  <2>1. signals[i] \in AnyIdentitySignal(K, V, R, C) /\ i \in Int
    BY <1>1
  <2>2. CASE signals[i].kind = "name"
    <3>1. blind[i] = [signals[i] EXCEPT !.value = i]
      BY <1>2, <2>2
    <3>2. QED
      BY <2>1, <2>2, <3>1 DEF AnyIdentitySignal
  <2>3. CASE signals[i].kind # "name"
    <3>1. blind[i] = signals[i]
      BY <1>2, <2>3
    <3>2. QED
      BY <2>1, <2>3, <3>1 DEF AnyIdentitySignal
  <2>4. QED
    BY <2>2, <2>3
<1>4. DOMAIN blind = D /\ blind \in SignalsOf(K, V \cup Int, R, C)
  <2>1. blind = [i \in D |-> blind[i]]
    BY <1>2
  <2> HIDE DEF blind, D
  <2>2. blind \in [1..Len(signals) -> AnyIdentitySignal(K, V \cup Int, R, C)]
    BY <1>1, <1>3, <2>1
  <2> DEFINE A == AnyIdentitySignal(K, V \cup Int, R, C)
  <2>3. Len(signals) \in Nat /\ blind \in [1..Len(signals) -> A]
    BY <1>1, <2>2
  <2> HIDE DEF A
  <2>4. blind \in Seq(A)
    BY <2>3
  <2>5. QED
    BY <2>1, <2>4 DEF A, SignalsOf
<1>5. \A i \in D : StrongKey(blind[i]) = StrongKey(signals[i])
  <2>1. "name" \notin StrongKinds
    BY DEF StrongKinds
  <2> HIDE DEF blind, D
  <2>2. QED
    BY <1>3, <2>1 DEF StrongKey
<1> HIDE DEF blind, D
<1>60. signals \in Seq(AnyIdentitySignal(K, V, R, C)) /\ blind \in Seq(AnyIdentitySignal(K, V \cup Int, R, C))
  BY <1>4 DEF SignalsOf
<1>6. Singles(blind) = Singles(signals) /\ Alikes(blind) = Alikes(signals)
  BY <1>3, <1>4, <1>5 DEF Singles, Alikes, D
<1>7. StrongClusters(blind) = P /\ Parts(P, D)
  BY <1>4, <1>60, <1>6, StrongIs DEF D
<1>8. NameGroups(blind, P) = {}
  <2> HIDE DEF P
  <2>1. NameGroups(blind, P)
          = {UNION h : h \in {g \in {Named(blind, P, v) : v \in NamesOf(blind)} : Differ(blind, g)}}
    BY <1>4, <1>60, <1>7, NameGroupsAre DEF D
  <2>2. ASSUME NEW v \in NamesOf(blind)
        PROVE  ~Differ(blind, Named(blind, P, v))
    <3>1. ASSUME NEW c \in Named(blind, P, v)
          PROVE  c \in P /\ v \in c
      <4>1. c \in P /\ c \subseteq D
        BY <1>7 DEF Named, Parts
      <4>2. PICK i \in c : blind[i].kind = "name" /\ blind[i].value = v
        BY DEF Named
      <4>3. QED
        BY <1>3, <4>1, <4>2
    <3>2. \A c, d \in Named(blind, P, v) : c = d
      BY <1>7, <3>1 DEF Parts
    <3>3. QED
      BY <3>2 DEF Differ
  <2>3. QED
    BY <2>1, <2>2
<1>9. ASSUME NEW c \in SUBSET D
      PROVE  Entity(blind, c, {}) = Entity(signals, c, {})
  <2>1. CategoriesOf(blind, c) = CategoriesOf(signals, c) /\ RefsOf(blind, c) = RefsOf(signals, c)
    BY <1>3 DEF CategoriesOf, RefsOf
  <2>2. QED
    BY <2>1 DEF Entity
<1>10. QED
  BY <1>4, <1>7, <1>8, <1>9 DEF blind, D, P

LEMMA NamesOnlyPropose ==
  ASSUME NEW K, NEW V, NEW R, NEW C, NEW signals \in SignalsOf(K, V, R, C),
         NEW e \in ResolveIdentities(signals)
  PROVE  IF e.status = "resolved" THEN e \in ResolveIdentities(Blinded(signals))
         ELSE /\ Cardinality(CategoriesOf(signals, e.members)) >= 2
              /\ \E i \in e.members : signals[i].kind = "name"
              /\ \A d \in ResolveIdentities(signals) : d.status = "resolved" => e.confidence < d.confidence
<1> DEFINE D == DOMAIN signals
           P == StrongClusters(signals)
           N == NameGroups(signals, P)
           blind == Blinded(signals)
<1>0. signals \in Seq(AnyIdentitySignal(K, V, R, C))
  BY DEF SignalsOf
<1>1. Parts(P, D)
  BY <1>0, StrongIs
<1>2. /\ N \in SUBSET SUBSET D
      /\ \A g \in N : /\ g # {} /\ \E i, j \in g : signals[i].category # signals[j].category
                      /\ \E i \in g : signals[i].kind = "name"
  BY <1>0, <1>1, NameGroupsHold
<1>3. /\ Parts(ClustersOf(signals), D)
      /\ ResolveIdentities(signals) = {Entity(signals, c, UNION N) : c \in ClustersOf(signals)}
  BY <1>0, IdentitiesAre
<1>4. ClustersOf(signals) = ClassesOf(D, P \cup N)
  BY DEF ClustersOf
<1>5. PICK c \in ClustersOf(signals) : e = Entity(signals, c, UNION N)
  BY <1>3
<1>6. /\ blind \in SignalsOf(K, V \cup Int, R, C) /\ DOMAIN blind = D
      /\ StrongClusters(blind) = P /\ NameGroups(blind, P) = {}
      /\ Entity(blind, c, {}) = Entity(signals, c, {})
  <2>1. c \in SUBSET D
    BY <1>3, <1>5 DEF Parts
  <2>2. /\ blind \in SignalsOf(K, V \cup Int, R, C) /\ DOMAIN blind = D
        /\ StrongClusters(blind) = P /\ NameGroups(blind, P) = {}
        /\ \A b \in SUBSET D : Entity(blind, b, {}) = Entity(signals, b, {})
    BY BlindedIs
  <2> HIDE DEF blind, P, D
  <2>3. QED
    BY <2>1, <2>2
<1>7. D = 1..Len(signals) /\ Len(signals) \in Nat
  BY <1>0
<1> HIDE DEF D, P, N, blind
<1>8. P \cup N \in SUBSET SUBSET D
  BY <1>1, <1>2 DEF Parts
<1>9. PICK i \in D : c = ClassOf(i, D, P \cup N)
  BY <1>4, <1>5 DEF ClassesOf
<1>10. i \in c /\ c \in SUBSET D /\ IsClosed(c, P \cup N)
  BY <1>8, <1>9, ClassIsClosed
<1>11. CASE c \cap UNION N = {}
  <2>1. e = Entity(signals, c, {}) /\ e.status = "resolved"
    BY <1>5, <1>11 DEF Entity
  <2>2. c \in P
    <3>1. PICK p \in P : i \in p
      BY <1>1 DEF Parts
    <3>2. p \subseteq c
      BY <1>10, <3>1 DEF IsClosed
    <3>3. IsClosed(p, P \cup N)
      <4>1. \A g \in N : g \cap p = {}
        BY <1>11, <3>2
      <4>2. \A g \in P : g \cap p # {} => g = p
        BY <1>1 DEF Parts
      <4>3. QED
        BY <4>1, <4>2 DEF IsClosed
    <3>4. c \subseteq p
      <4>1. p \in SUBSET D
        BY <1>1 DEF Parts
      <4>2. QED
        BY <1>8, <1>9, <3>1, <3>3, <4>1, ClassIsClosed
    <3>5. c = p
      BY <3>2, <3>4
    <3>6. QED
      BY <3>1, <3>5
  <2>3. ClustersOf(blind) = P
    <3>1. ClustersOf(blind) = ClassesOf(D, P \cup {})
      BY <1>6 DEF ClustersOf
    <3>2. P \cup {} = P
      OBVIOUS
    <3>3. QED
      BY <1>1, <3>1, <3>2, PartsAreClasses
  <2>4. ResolveIdentities(blind) = {Entity(blind, b, UNION {}) : b \in P}
    <3>1. ResolveIdentities(blind) = {Entity(blind, b, UNION NameGroups(blind, StrongClusters(blind))) :
                                        b \in ClustersOf(blind)}
      <4>1. blind \in Seq(AnyIdentitySignal(K, V \cup Int, R, C))
        BY <1>6 DEF SignalsOf
      <4>2. QED
        BY <4>1, IdentitiesAre
    <3>2. QED
      BY <1>6, <2>3, <3>1
  <2>5. UNION {} = {}
    OBVIOUS
  <2>6. Entity(signals, c, {}) \in ResolveIdentities(blind)
    BY <1>6, <2>2, <2>4, <2>5
  <2>7. QED
    BY <2>1, <2>6 DEF blind
<1>12. CASE c \cap UNION N # {}
  <2>1. /\ e.members = c /\ e.status # "resolved" /\ e.confidence = 40
    BY <1>5, <1>12 DEF Entity
  <2>2. PICK g \in N : g \cap c # {}
    BY <1>12
  <2>3. g \subseteq c
    BY <1>10, <2>2 DEF IsClosed
  <2>4. \E k, j \in c : signals[k].category # signals[j].category
    BY <1>2, <2>2, <2>3
  <2>5. \E k \in c : signals[k].kind = "name"
    BY <1>2, <2>2, <2>3
  <2>6. Cardinality(CategoriesOf(signals, c)) >= 2
    <3> DEFINE cats == CategoriesOf(signals, c)
               f == [k \in c |-> signals[k].category]
    <3>1. cats = {signals[k].category : k \in c}
      BY DEF CategoriesOf
    <3> HIDE DEF cats
    <3>2. f \in Surjection(c, cats)
      BY <3>1 DEF Surjection
    <3> HIDE DEF f
    <3>3. IsFiniteSet(c)
      <4>1. IsFiniteSet(D)
        BY <1>7, FS_Interval
      <4>2. QED
        BY <1>10, <4>1, FS_Subset
    <3>4. IsFiniteSet(cats)
      BY <3>2, <3>3, FS_Surjection
    <3>5. \E a, b \in cats : a # b
      BY <2>4, <3>1
    <3>6. (Cardinality(cats) < 2) = (\A a, b \in cats : a = b) /\ Cardinality(cats) \in Nat
      BY <3>4, FewerThanTwo, FS_CardinalityType
    <3>7. Cardinality(cats) >= 2 <=> ~(Cardinality(cats) < 2)
      BY <3>6
    <3>8. QED
      BY <3>5, <3>6, <3>7 DEF cats
  <2>7. ASSUME NEW d \in ResolveIdentities(signals), d.status = "resolved"
        PROVE  e.confidence < d.confidence
    <3>1. PICK b \in ClustersOf(signals) : d = Entity(signals, b, UNION N)
      BY <1>3
    <3>2. d.confidence \in {60, 80, 90}
      BY <2>7, <3>1 DEF Entity
    <3>3. QED
      BY <2>1, <3>2
  <2>8. QED
    BY <2>1, <2>5, <2>6, <2>7
<1>13. QED
  BY <1>11, <1>12

(* Later signals only join: what the earlier ones made stays together.     *)
LEMMA LaterSignalsJoin ==
  ASSUME NEW S, NEW signals \in Seq(S), signals # <<>>,
         NEW d \in ResolveIdentities(Front(signals))
  PROVE  \E e \in ResolveIdentities(signals) : d.members \subseteq e.members
<1> DEFINE early == Front(signals)
           D == DOMAIN signals
           F == DOMAIN early
           P == StrongClusters(signals)
           Q == StrongClusters(early)
           N == NameGroups(signals, P)
           M == NameGroups(early, Q)
<1>1. /\ early \in Seq(S) /\ F \in SUBSET D /\ \A i \in F : early[i] = signals[i]
      /\ D = 1..Len(signals) /\ Len(signals) \in Nat
  BY DEF Front
<1>2. /\ P = ClassesOf(D, Singles(signals) \cup Alikes(signals)) /\ Parts(P, D)
      /\ Singles(signals) \cup Alikes(signals) \in SUBSET SUBSET D
  BY StrongIs
<1>3. /\ Q = ClassesOf(F, Singles(early) \cup Alikes(early)) /\ Parts(Q, F)
      /\ Singles(early) \cup Alikes(early) \in SUBSET SUBSET F
  BY <1>1, StrongIs
<1>4. /\ N \in SUBSET SUBSET D
      /\ N = {UNION h : h \in {g \in {Named(signals, P, v) : v \in NamesOf(signals)} : Differ(signals, g)}}
  <2>1. N \in SUBSET SUBSET D
    BY <1>2, NameGroupsHold
  <2> HIDE DEF P
  <2> DEFINE all == signals
  <2>2. all \in Seq(S) /\ Parts(P, DOMAIN all)
    BY <1>2
  <2> HIDE DEF all
  <2>3. NameGroups(all, P)
          = {UNION h : h \in {g \in {Named(all, P, v) : v \in NamesOf(all)} : Differ(all, g)}}
    BY <2>2, NameGroupsAre
  <2>4. QED
    BY <2>1, <2>3 DEF all
<1>5. /\ M \in SUBSET SUBSET F
      /\ M = {UNION h : h \in {g \in {Named(early, Q, v) : v \in NamesOf(early)} : Differ(early, g)}}
  <2> HIDE DEF early
  <2>1. QED
    BY <1>1, <1>3, NameGroupsHold, NameGroupsAre
<1>6. /\ Members(ResolveIdentities(signals)) = ClustersOf(signals)
      /\ ClustersOf(signals) = ClassesOf(D, P \cup N)
  BY IdentitiesAre DEF ClustersOf
<1>7. /\ Members(ResolveIdentities(early)) = ClustersOf(early)
      /\ ClustersOf(early) = ClassesOf(F, Q \cup M)
  BY <1>1, IdentitiesAre DEF ClustersOf
<1>8. ASSUME NEW g \in Singles(early) \cup Alikes(early)
      PROVE  \E h \in Singles(signals) \cup Alikes(signals) : g \subseteq h
  <2>1. CASE g \in Singles(early)
    <3>1. PICK i \in F : g = {i}
      BY <2>1 DEF Singles
    <3>2. {i} \in Singles(signals)
      BY <1>1 DEF Singles
    <3>3. QED
      BY <3>1, <3>2
  <2>2. CASE g \in Alikes(early)
    <3> DEFINE Ref(i) == {j \in D : <<signals[j].ref>> = <<signals[i].ref>>}
               Key(i) == {j \in D : StrongKey(signals[j]) = StrongKey(signals[i])}
    <3>1. PICK i \in F : \/ g = {j \in F : <<early[j].ref>> = <<early[i].ref>>}
                         \/ g = {j \in F : StrongKey(early[j]) = StrongKey(early[i])}
      BY <2>2 DEF Alikes
    <3>2. Ref(i) \in Alikes(signals) /\ Key(i) \in Alikes(signals)
      BY <1>1 DEF Alikes
    <3> HIDE DEF early, F, D
    <3>3. g \subseteq Ref(i) \/ g \subseteq Key(i)
      BY <1>1, <3>1
    <3>4. QED
      BY <3>2, <3>3
  <2>3. QED
    BY <2>1, <2>2
<1> HIDE DEF early, D, F, P, Q, N, M
<1>9. ASSUME NEW c \in Q
      PROVE  \E p \in P : c \subseteq p
  <2> DEFINE G == Singles(early) \cup Alikes(early)
             H == Singles(signals) \cup Alikes(signals)
  <2>1. PICK i \in F : c = ClassOf(i, F, G)
    BY <1>3 DEF ClassesOf
  <2>2. ClassOf(i, D, H) \in P
    BY <1>1, <1>2 DEF ClassesOf
  <2>3. \A g \in G : \E h \in H : g \subseteq h
    BY <1>8
  <2> HIDE DEF G, H
  <2>4. H \in SUBSET SUBSET D /\ G \in SUBSET SUBSET F
    BY <1>2, <1>3 DEF G, H
  <2>5. ClassOf(i, F, G) \subseteq ClassOf(i, D, H)
    BY <1>1, <2>3, <2>4, ClassesGrow
  <2>6. QED
    BY <2>1, <2>2, <2>5
<1>10. ASSUME NEW g \in M
       PROVE  \E h \in P \cup N : g \subseteq h
  <2>1. PICK v \in NamesOf(early) : g = UNION Named(early, Q, v) /\ Differ(early, Named(early, Q, v))
    BY <1>5
  <2>2. v \in NamesOf(signals)
    BY <1>1 DEF NamesOf, F, D
  <2>3. ASSUME NEW c \in Named(early, Q, v)
        PROVE  \E p \in Named(signals, P, v) : c \subseteq p
    <3>1. c \in Q /\ c \subseteq F
      BY <1>3 DEF Named, Parts
    <3>2. PICK i \in c : early[i].kind = "name" /\ early[i].value = v
      BY DEF Named
    <3>3. PICK p \in P : c \subseteq p
      BY <1>9, <3>1
    <3>4. p \in Named(signals, P, v)
      BY <1>1, <3>1, <3>2, <3>3 DEF Named
    <3>5. QED
      BY <3>3, <3>4
  <2> DEFINE all == UNION Named(signals, P, v)
  <2>4. g \subseteq all
    BY <2>1, <2>3
  <2>5. CASE Differ(signals, Named(signals, P, v))
    <3>1. all \in N
      BY <1>4, <2>2, <2>5
    <3>2. QED
      BY <2>4, <3>1
  <2>6. CASE ~Differ(signals, Named(signals, P, v))
    <3>1. \E i, j \in all : signals[i].category # signals[j].category
      <4>1. \E i, j \in g : early[i].category # early[j].category
        BY <2>1 DEF Differ
      <4>2. g \subseteq F
        BY <1>5
      <4>3. QED
        BY <1>1, <2>4, <4>1, <4>2
    <3>2. \A c, b \in Named(signals, P, v) : c = b
      BY <2>6, <3>1 DEF Differ
    <3>3. PICK p \in Named(signals, P, v) : TRUE
      BY <3>1
    <3>4. all \subseteq p /\ p \in P
      BY <3>2, <3>3 DEF Named
    <3>5. QED
      BY <2>4, <3>4
  <2>7. QED
    BY <2>5, <2>6
<1>11. PICK i \in F : d.members = ClassOf(i, F, Q \cup M)
  <2>1. d.members \in ClustersOf(early)
    <3>1. d.members \in Members(ResolveIdentities(early))
      BY DEF Members, early
    <3>2. QED
      BY <1>7, <3>1
  <2>2. QED
    BY <1>7, <2>1 DEF ClassesOf
<1>12. ClassOf(i, F, Q \cup M) \subseteq ClassOf(i, D, P \cup N)
  <2> DEFINE G == Q \cup M
             H == P \cup N
  <2>1. \A g \in G : \E h \in H : g \subseteq h
    BY <1>9, <1>10
  <2>2. H \in SUBSET SUBSET D /\ G \in SUBSET SUBSET F
    BY <1>2, <1>3, <1>4, <1>5 DEF Parts
  <2> HIDE DEF G, H
  <2>3. ClassOf(i, F, G) \subseteq ClassOf(i, D, H)
    BY <1>1, <2>1, <2>2, ClassesGrow
  <2>4. QED
    BY <2>3 DEF G, H
<1>13. ClassOf(i, D, P \cup N) \in Members(ResolveIdentities(signals))
  BY <1>1, <1>6 DEF ClassesOf
<1>14. PICK e \in ResolveIdentities(signals) : e.members = ClassOf(i, D, P \cup N)
  BY <1>13 DEF Members
<1>15. QED
  BY <1>11, <1>12, <1>14

(* Read backwards, a set of places and a set of such sets.                 *)
Back(n, X) == {n + 1 - i : i \in X}
Backs(n, H) == {Back(n, h) : h \in H}

LEMMA BackIs ==
  ASSUME NEW n \in Nat, NEW X \in SUBSET (1..n)
  PROVE  /\ Back(n, X) \in SUBSET (1..n) /\ Back(n, Back(n, X)) = X
         /\ \A j \in 1..n : j \in Back(n, X) <=> n + 1 - j \in X
         /\ \A Y \in SUBSET (1..n) : /\ X \cap Y # {} <=> Back(n, X) \cap Back(n, Y) # {}
                                     /\ X \subseteq Y <=> Back(n, X) \subseteq Back(n, Y)
<1>1. \A i \in 1..n : n + 1 - i \in 1..n /\ n + 1 - (n + 1 - i) = i
  OBVIOUS
<1>2. \A Y \in SUBSET (1..n) : /\ Back(n, Y) \in SUBSET (1..n)
                               /\ \A j \in 1..n : j \in Back(n, Y) <=> n + 1 - j \in Y
  BY <1>1 DEF Back
<1>3. \A Y \in SUBSET (1..n) : Back(n, Back(n, Y)) = Y
  <2>1. SUFFICES ASSUME NEW Y \in SUBSET (1..n)
                 PROVE  Back(n, Back(n, Y)) = Y
    OBVIOUS
  <2>2. \A j \in 1..n : j \in Back(n, Back(n, Y)) <=> j \in Y
    BY <1>1, <1>2
  <2>3. Back(n, Back(n, Y)) \subseteq 1..n
    BY <1>2
  <2>4. QED
    BY <2>2, <2>3
<1>4. ASSUME NEW Y \in SUBSET (1..n)
      PROVE  /\ X \cap Y # {} <=> Back(n, X) \cap Back(n, Y) # {}
             /\ X \subseteq Y <=> Back(n, X) \subseteq Back(n, Y)
  <2>1. \A Z \in SUBSET (1..n) : \A i \in 1..n : i \in Z <=> n + 1 - i \in Back(n, Z)
    BY <1>1, <1>2
  <2>2. X \cap Y # {} => Back(n, X) \cap Back(n, Y) # {}
    BY <1>1, <2>1
  <2>3. Back(n, X) \cap Back(n, Y) # {} => X \cap Y # {}
    BY <1>2
  <2>4. X \subseteq Y => Back(n, X) \subseteq Back(n, Y)
    BY <1>2
  <2>5. Back(n, X) \subseteq Back(n, Y) => X \subseteq Y
    BY <1>1, <2>1
  <2>6. QED
    BY <2>2, <2>3, <2>4, <2>5
<1>5. QED
  BY <1>2, <1>3, <1>4

LEMMA ClassesBackwards ==
  ASSUME NEW n \in Nat, NEW H \in SUBSET SUBSET (1..n)
  PROVE  ClassesOf(1..n, Backs(n, H)) = Backs(n, ClassesOf(1..n, H))
<1> DEFINE D == 1..n
           m(i) == n + 1 - i
<1>1. ASSUME NEW G \in SUBSET SUBSET D, NEW i \in D
      PROVE  /\ Backs(n, G) \in SUBSET SUBSET D /\ m(i) \in D
             /\ ClassOf(m(i), D, Backs(n, G)) \subseteq Back(n, ClassOf(i, D, G))
  <2> DEFINE X == ClassOf(i, D, G)
  <2>1. i \in X /\ X \in SUBSET D /\ IsClosed(X, G)
    BY ClassIsClosed
  <2>2. Backs(n, G) \in SUBSET SUBSET D
    BY BackIs DEF Backs
  <2>3. m(i) \in D /\ m(i) \in Back(n, X) /\ Back(n, X) \in SUBSET D
    BY <2>1, BackIs DEF Back
  <2> HIDE DEF X
  <2>4. IsClosed(Back(n, X), Backs(n, G))
    <3>1. SUFFICES ASSUME NEW g \in G, Back(n, g) \cap Back(n, X) # {}
                   PROVE  Back(n, g) \subseteq Back(n, X)
      BY DEF IsClosed, Backs
    <3>2. g \cap X # {}
      BY <2>1, <3>1, BackIs
    <3>3. g \subseteq X
      BY <2>1, <3>2 DEF IsClosed
    <3>4. QED
      BY <2>1, <3>3, BackIs
  <2> HIDE DEF D, m
  <2>5. QED
    BY <2>2, <2>3, <2>4, ClassIsClosed DEF X
<1>2. ASSUME NEW i \in D
      PROVE  ClassOf(m(i), D, Backs(n, H)) = Back(n, ClassOf(i, D, H))
  <2> DEFINE there == ClassOf(m(i), D, Backs(n, H))
             here == ClassOf(i, D, H)
  <2>1. Backs(n, H) \in SUBSET SUBSET D /\ m(i) \in D /\ m(m(i)) = i
    <3>1. m(m(i)) = i
      OBVIOUS
    <3>2. QED
      BY <1>1, <3>1
  <2>2. Backs(n, Backs(n, H)) = H
    <3>1. \A h \in H : Back(n, Back(n, h)) = h
      BY BackIs
    <3>2. QED
      BY <3>1 DEF Backs
  <2>3. here \subseteq Back(n, there)
    <3>1. ClassOf(m(m(i)), D, Backs(n, Backs(n, H))) \subseteq Back(n, ClassOf(m(i), D, Backs(n, H)))
      <4> HIDE DEF m, D
      <4>1. QED
        BY <1>1, <2>1
    <3>2. QED
      BY <2>1, <2>2, <3>1
  <2>4. there \subseteq Back(n, here)
    BY <1>1
  <2>5. here \in SUBSET D /\ there \in SUBSET D
    <3>1. H \in SUBSET SUBSET D
      OBVIOUS
    <3> HIDE DEF D, m
    <3>2. here \in SUBSET D
      BY <3>1, ClassIsClosed
    <3>3. there \in SUBSET D
      BY <2>1, ClassIsClosed
    <3>4. QED
      BY <3>2, <3>3
  <2> HIDE DEF here, there
  <2>6. Back(n, here) \subseteq Back(n, Back(n, there))
    <3>1. Back(n, there) \in SUBSET (1..n)
      BY <2>5, BackIs
    <3> DEFINE other == Back(n, there)
    <3> HIDE DEF other
    <3>2. Back(n, here) \subseteq Back(n, other)
      BY <2>3, <2>5, <3>1, BackIs DEF other
    <3>3. QED
      BY <3>2 DEF other
  <2>7. Back(n, Back(n, there)) = there
    BY <2>5, BackIs
  <2>8. QED
    BY <2>4, <2>6, <2>7 DEF here, there
<1>3. \A i \in D : m(i) \in D /\ m(m(i)) = i
  OBVIOUS
<1>4. ClassesOf(D, Backs(n, H)) = {ClassOf(m(i), D, Backs(n, H)) : i \in D}
  <2> HIDE DEF D, m
  <2>1. QED
    BY <1>3 DEF ClassesOf
<1>5. Backs(n, ClassesOf(D, H)) = {Back(n, ClassOf(i, D, H)) : i \in D}
  BY DEF Backs, ClassesOf
<1> HIDE DEF D, m
<1>6. QED
  BY <1>2, <1>4, <1>5 DEF D

LEMMA NamesBackwards ==
  ASSUME NEW S, NEW signals \in Seq(S), NEW other \in Seq(S), NEW n \in Nat,
         DOMAIN signals = 1..n, DOMAIN other = 1..n, \A i \in 1..n : other[i] = signals[n + 1 - i],
         NEW P, Parts(P, 1..n), Parts(Backs(n, P), 1..n)
  PROVE  NameGroups(other, Backs(n, P)) = Backs(n, NameGroups(signals, P))
<1> DEFINE D == 1..n
           Q == Backs(n, P)
           A(v) == Named(signals, P, v)
           B(v) == Named(other, Q, v)
<1>1. \A i \in D : n + 1 - i \in D /\ other[n + 1 - i] = signals[i] /\ n + 1 - (n + 1 - i) = i
  OBVIOUS
<1>2. P \in SUBSET SUBSET D
  BY DEF Parts
<1>3. /\ NameGroups(signals, P) = {UNION h : h \in {g \in {A(v) : v \in NamesOf(signals)} : Differ(signals, g)}}
      /\ NameGroups(other, Q) = {UNION h : h \in {g \in {B(v) : v \in NamesOf(other)} : Differ(other, g)}}
  <2> DEFINE one == signals
             two == other
  <2>1. one \in Seq(S) /\ two \in Seq(S) /\ Parts(P, DOMAIN one) /\ Parts(Q, DOMAIN two)
    OBVIOUS
  <2> HIDE DEF one, two, Q
  <2>2. NameGroups(one, P) = {UNION h : h \in {g \in {Named(one, P, v) : v \in NamesOf(one)} : Differ(one, g)}}
    BY <2>1, NameGroupsAre
  <2>3. NameGroups(two, Q) = {UNION h : h \in {g \in {Named(two, Q, v) : v \in NamesOf(two)} : Differ(two, g)}}
    BY <2>1, NameGroupsAre
  <2>4. QED
    BY <2>2, <2>3 DEF one, two, Q
<1>4. NamesOf(other) = NamesOf(signals)
  <2>1. NamesOf(other) \subseteq NamesOf(signals)
    BY <1>1 DEF NamesOf
  <2>2. NamesOf(signals) \subseteq NamesOf(other)
    BY <1>1 DEF NamesOf
  <2>3. QED
    BY <2>1, <2>2
<1>5. ASSUME NEW c \in SUBSET D
      PROVE  /\ Back(n, c) \in SUBSET D
             /\ \A j \in D : j \in Back(n, c) <=> n + 1 - j \in c
             /\ \A i \in c : n + 1 - i \in Back(n, c)
  BY BackIs DEF Back
<1> HIDE DEF D
<1>6. ASSUME NEW v
      PROVE  B(v) = Backs(n, A(v)) /\ A(v) \in SUBSET SUBSET D
  <2>1. ASSUME NEW c \in P
        PROVE  (\E i \in c : signals[i].kind = "name" /\ signals[i].value = v)
                 <=> (\E i \in Back(n, c) : other[i].kind = "name" /\ other[i].value = v)
    <3>1. c \in SUBSET D
      BY <1>2
    <3>2. ASSUME NEW i \in c, signals[i].kind = "name" /\ signals[i].value = v
          PROVE  \E j \in Back(n, c) : other[j].kind = "name" /\ other[j].value = v
      BY <1>1, <1>5, <3>1, <3>2
    <3>3. ASSUME NEW i \in Back(n, c), other[i].kind = "name" /\ other[i].value = v
          PROVE  \E j \in c : signals[j].kind = "name" /\ signals[j].value = v
      <4>1. i \in D /\ n + 1 - i \in c
        BY <1>5, <3>1
      <4>2. other[i] = signals[n + 1 - i]
        BY <4>1 DEF D
      <4>3. QED
        BY <3>3, <4>1, <4>2
    <3>4. QED
      BY <3>2, <3>3
  <2>2. QED
    BY <1>2, <2>1 DEF Named, Backs
<1>7. ASSUME NEW h \in SUBSET SUBSET D
      PROVE  /\ UNION Backs(n, h) = Back(n, UNION h)
             /\ Differ(other, Backs(n, h)) <=> Differ(signals, h)
  <2>1. UNION Backs(n, h) = Back(n, UNION h)
    BY DEF Back, Backs
  <2>2. (\E c, d \in h : c # d) <=> \E c, d \in Backs(n, h) : c # d
    <3>1. \A c \in h : Back(n, Back(n, c)) = c
      BY BackIs DEF D
    <3> DEFINE b(c) == Back(n, c)
    <3>2. \A c, d \in h : b(c) = b(d) => c = d
      BY <3>1
    <3>3. Backs(n, h) = {b(c) : c \in h}
      BY DEF Backs
    <3> HIDE DEF b
    <3>4. (\E c, d \in h : c # d) => \E c, d \in Backs(n, h) : c # d
      <4>1. SUFFICES ASSUME NEW c \in h, NEW d \in h, c # d
                     PROVE  \E x, y \in Backs(n, h) : x # y
        OBVIOUS
      <4>2. b(c) \in Backs(n, h) /\ b(d) \in Backs(n, h) /\ b(c) # b(d)
        BY <3>2, <3>3, <4>1
      <4>3. QED
        BY <4>2
    <3>5. (\E c, d \in Backs(n, h) : c # d) => \E c, d \in h : c # d
      BY <3>3
    <3>6. QED
      BY <3>4, <3>5
  <2>3. UNION h \in SUBSET D
    OBVIOUS
  <2>4. ASSUME NEW U \in SUBSET D
        PROVE  (\E i, j \in U : signals[i].category # signals[j].category)
                 <=> \E i, j \in Back(n, U) : other[i].category # other[j].category
    <3>1. (\E i, j \in U : signals[i].category # signals[j].category)
            => \E i, j \in Back(n, U) : other[i].category # other[j].category
      <4>1. SUFFICES ASSUME NEW i \in U, NEW j \in U, signals[i].category # signals[j].category
                     PROVE  \E k, l \in Back(n, U) : other[k].category # other[l].category
        OBVIOUS
      <4>2. n + 1 - i \in Back(n, U) /\ n + 1 - j \in Back(n, U)
        BY <1>5
      <4>3. other[n + 1 - i] = signals[i] /\ other[n + 1 - j] = signals[j]
        BY <1>1
      <4>4. QED
        BY <4>1, <4>2, <4>3
    <3>2. \A i \in Back(n, U) : n + 1 - i \in U /\ other[i] = signals[n + 1 - i]
      BY <1>5 DEF D
    <3>3. QED
      BY <3>1, <3>2
  <2>5. (\E i, j \in UNION h : signals[i].category # signals[j].category)
          <=> \E i, j \in UNION Backs(n, h) : other[i].category # other[j].category
    <3> DEFINE U == UNION h
               W == UNION Backs(n, h)
    <3>1. W = Back(n, U) /\ U \in SUBSET D
      BY <2>1, <2>3
    <3> HIDE DEF U, W
    <3>2. (\E i, j \in U : signals[i].category # signals[j].category)
            <=> \E i, j \in W : other[i].category # other[j].category
      BY <2>4, <3>1
    <3>3. QED
      BY <3>2 DEF U, W
  <2>6. QED
    BY <2>1, <2>2, <2>5 DEF Differ
<1> DEFINE names == NamesOf(signals)
<1> HIDE DEF names, A, B, Q
<1>8. {g \in {B(v) : v \in names} : Differ(other, g)} = {Backs(n, g) : g \in {h \in {A(v) : v \in names} : Differ(signals, h)}}
  <2> DEFINE as == {h \in {A(v) : v \in names} : Differ(signals, h)}
  <2>1. \A v \in names : Differ(other, B(v)) <=> Differ(signals, A(v))
    BY <1>6, <1>7
  <2>2. ASSUME NEW v \in names, Differ(other, B(v))
        PROVE  B(v) \in {Backs(n, g) : g \in as}
    BY <1>6, <2>1, <2>2
  <2>3. ASSUME NEW v \in names, Differ(signals, A(v))
        PROVE  Backs(n, A(v)) \in {g \in {B(w) : w \in names} : Differ(other, g)}
    BY <1>6, <2>1, <2>3
  <2>4. QED
    BY <2>2, <2>3
<1>9. NameGroups(other, Q) = {UNION Backs(n, g) : g \in {h \in {A(v) : v \in names} : Differ(signals, h)}}
  BY <1>3, <1>4, <1>8 DEF names
<1>10. \A g \in {h \in {A(v) : v \in names} : Differ(signals, h)} : UNION Backs(n, g) = Back(n, UNION g)
  BY <1>6, <1>7
<1>11. NameGroups(signals, P) = {UNION g : g \in {h \in {A(v) : v \in names} : Differ(signals, h)}}
  BY <1>3 DEF names
<1> DEFINE chosen == {h \in {A(v) : v \in names} : Differ(signals, h)}
<1>12. /\ NameGroups(other, Q) = {UNION Backs(n, g) : g \in chosen}
       /\ \A g \in chosen : UNION Backs(n, g) = Back(n, UNION g)
       /\ NameGroups(signals, P) = {UNION g : g \in chosen}
  BY <1>9, <1>10, <1>11
<1> HIDE DEF chosen
<1>13. NameGroups(other, Q) = {Back(n, UNION g) : g \in chosen}
  BY <1>12
<1>14. Backs(n, NameGroups(signals, P)) = {Back(n, UNION g) : g \in chosen}
  <2> DEFINE b(x) == Back(n, x)
             N == NameGroups(signals, P)
  <2>1. Backs(n, N) = {b(x) : x \in N} /\ N = {UNION g : g \in chosen}
    BY <1>12 DEF Backs
  <2> HIDE DEF b, N
  <2>2. Backs(n, N) = {b(UNION g) : g \in chosen}
    BY <2>1
  <2>3. QED
    BY <2>2 DEF b, N
<1>15. QED
  BY <1>13, <1>14 DEF Q

LEMMA SignalsBackwards ==
  ASSUME NEW S, NEW signals \in Seq(S), NEW other \in Seq(S), NEW n \in Nat,
         DOMAIN signals = 1..n, DOMAIN other = 1..n, \A i \in 1..n : other[i] = signals[n + 1 - i]
  PROVE  ClustersOf(other) = Backs(n, ClustersOf(signals))
<1> DEFINE D == 1..n
           H == Singles(signals) \cup Alikes(signals)
           G == Singles(other) \cup Alikes(other)
           P == StrongClusters(signals)
           N == NameGroups(signals, P)
<1>1. \A i \in D : n + 1 - i \in D /\ other[n + 1 - i] = signals[i] /\ n + 1 - (n + 1 - i) = i
  OBVIOUS
<1>2. P = ClassesOf(D, H) /\ Parts(P, D) /\ H \in SUBSET SUBSET D
  BY StrongIs
<1>3. StrongClusters(other) = ClassesOf(D, G) /\ Parts(StrongClusters(other), D)
  BY StrongIs
<1>4. G = Backs(n, H)
  <2>1. Singles(other) = Backs(n, Singles(signals))
    <3>1. \A i \in D : Back(n, {i}) = {n + 1 - i}
      BY DEF Back
    <3>2. Singles(other) = {{i} : i \in D} /\ Singles(signals) = {{i} : i \in D}
      BY DEF Singles
    <3> HIDE DEF D
    <3>3. Backs(n, {{i} : i \in D}) = {{n + 1 - i} : i \in D}
      <4> DEFINE b(h) == Back(n, h)
      <4>1. \A i \in D : b({i}) = {n + 1 - i}
        BY <3>1
      <4>2. Backs(n, {{i} : i \in D}) = {b({i}) : i \in D}
        BY DEF Backs
      <4> HIDE DEF b
      <4>3. QED
        BY <4>1, <4>2
    <3>4. {{n + 1 - i} : i \in D} = {{i} : i \in D}
      BY <1>1
    <3>5. QED
      BY <3>2, <3>3, <3>4
  <2> DEFINE RefO(i) == {j \in D : <<other[j].ref>> = <<other[i].ref>>}
             KeyO(i) == {j \in D : StrongKey(other[j]) = StrongKey(other[i])}
             RefS(i) == {j \in D : <<signals[j].ref>> = <<signals[i].ref>>}
             KeyS(i) == {j \in D : StrongKey(signals[j]) = StrongKey(signals[i])}
  <2>2. /\ Alikes(other) = {RefO(i) : i \in D} \cup {KeyO(i) : i \in D}
        /\ Alikes(signals) = {RefS(i) : i \in D} \cup {KeyS(i) : i \in D}
    BY DEF Alikes
  <2>3. ASSUME NEW i \in D
        PROVE  RefO(n + 1 - i) = Back(n, RefS(i)) /\ KeyO(n + 1 - i) = Back(n, KeyS(i))
    <3>1. RefS(i) \in SUBSET D /\ KeyS(i) \in SUBSET D
      OBVIOUS
    <3>2. /\ Back(n, RefS(i)) \in SUBSET D /\ Back(n, KeyS(i)) \in SUBSET D
          /\ \A j \in D : j \in Back(n, RefS(i)) <=> n + 1 - j \in RefS(i)
          /\ \A j \in D : j \in Back(n, KeyS(i)) <=> n + 1 - j \in KeyS(i)
      <4> HIDE DEF RefS, KeyS
      <4>1. QED
        BY <3>1, BackIs
    <3>3. \A j \in D : other[j] = signals[n + 1 - j] /\ n + 1 - j \in D
      BY <1>1
    <3>4. n + 1 - i \in D /\ other[n + 1 - i] = signals[i]
      BY <1>1
    <3> HIDE DEF D
    <3>5. \A j \in D : j \in RefO(n + 1 - i) <=> j \in Back(n, RefS(i))
      BY <3>2, <3>3, <3>4
    <3>6. \A j \in D : j \in KeyO(n + 1 - i) <=> j \in Back(n, KeyS(i))
      BY <3>2, <3>3, <3>4
    <3>7. RefO(n + 1 - i) \in SUBSET D /\ KeyO(n + 1 - i) \in SUBSET D
      OBVIOUS
    <3> HIDE DEF RefO, KeyO, RefS, KeyS
    <3>8. QED
      BY <3>2, <3>5, <3>6, <3>7
  <2>4. Alikes(other) = Backs(n, Alikes(signals))
    <3> HIDE DEF D, RefO, KeyO, RefS, KeyS
    <3>1. Backs(n, Alikes(signals)) = {Back(n, RefS(i)) : i \in D} \cup {Back(n, KeyS(i)) : i \in D}
      BY <2>2 DEF Backs
    <3>2. /\ {RefO(i) : i \in D} = {RefO(n + 1 - i) : i \in D}
          /\ {KeyO(i) : i \in D} = {KeyO(n + 1 - i) : i \in D}
      BY <1>1
    <3>3. QED
      BY <2>2, <2>3, <3>1, <3>2
  <2>5. QED
    BY <2>1, <2>4 DEF Backs
<1> HIDE DEF H, G
<1>5. StrongClusters(other) = Backs(n, P)
  BY <1>2, <1>3, <1>4, ClassesBackwards
<1>6. NameGroups(other, Backs(n, P)) = Backs(n, N)
  <2> HIDE DEF P
  <2>1. QED
    BY <1>2, <1>3, <1>5, NamesBackwards
<1>7. N \in SUBSET SUBSET D
  <2> DEFINE one == signals
  <2>1. one \in Seq(S) /\ Parts(P, DOMAIN one)
    BY <1>2
  <2> HIDE DEF one, P
  <2>2. NameGroups(one, P) \in SUBSET SUBSET (DOMAIN one)
    BY <2>1, NameGroupsHold
  <2>3. QED
    BY <2>2 DEF one
<1>8. ClustersOf(signals) = ClassesOf(D, P \cup N) /\ ClustersOf(other) = ClassesOf(D, Backs(n, P) \cup Backs(n, N))
  BY <1>5, <1>6 DEF ClustersOf
<1>9. Backs(n, P) \cup Backs(n, N) = Backs(n, P \cup N)
  BY DEF Backs
<1> HIDE DEF P, N
<1>10. P \cup N \in SUBSET SUBSET D
  BY <1>2, <1>7 DEF Parts
<1>11. QED
  BY <1>8, <1>9, <1>10, ClassesBackwards

LEMMA IdentityHolds ==
  ASSUME NEW K, NEW V, NEW R, NEW C, NEW signals \in SignalsOf(K, V, R, C), signals # <<>>
  PROVE  IdentityIsCautious(signals)
<1> DEFINE n == Len(signals)
           A == AnyIdentitySignal(K, V, R, C)
           entities == ResolveIdentities(signals)
           N == NameGroups(signals, StrongClusters(signals))
<1>1. signals \in Seq(A) /\ n \in Nat /\ DOMAIN signals = 1..n
  BY DEF SignalsOf
<1>2. /\ Parts(ClustersOf(signals), 1..n)
      /\ entities = {Entity(signals, c, UNION N) : c \in ClustersOf(signals)}
      /\ \A c : Entity(signals, c, UNION N).members = c
      /\ Members(entities) = ClustersOf(signals)
  <2> HIDE DEF A
  <2>1. /\ Parts(ClustersOf(signals), DOMAIN signals)
        /\ entities = {Entity(signals, c, UNION N) : c \in ClustersOf(signals)}
        /\ \A c : Entity(signals, c, UNION N).members = c
        /\ Members(entities) = ClustersOf(signals)
    BY <1>1, IdentitiesAre
  <2>2. QED
    BY <1>1, <2>1
<1> HIDE DEF N
<1>3. UNION Members(entities) = 1..n
  BY <1>2 DEF Parts
<1>4. \A d, e \in entities : d = e \/ d.members \cap e.members = {}
  <2> DEFINE E(c) == Entity(signals, c, UNION N)
             clusters == ClustersOf(signals)
  <2>1. entities = {E(c) : c \in clusters} /\ \A c : E(c).members = c
    BY <1>2
  <2>2. \A c, d \in clusters : c \cap d # {} => c = d
    BY <1>2 DEF Parts
  <2> HIDE DEF E, clusters, entities
  <2>3. QED
    BY <2>1, <2>2
<1>5. \A e \in entities :
        IF e.status = "resolved" THEN e \in ResolveIdentities(Blinded(signals))
        ELSE /\ Cardinality(CategoriesOf(signals, e.members)) >= 2
             /\ \E i \in e.members : signals[i].kind = "name"
             /\ \A d \in entities : d.status = "resolved" => e.confidence < d.confidence
  BY NamesOnlyPropose
<1>6. \A d \in ResolveIdentities(Front(signals)) : \E e \in entities : d.members \subseteq e.members
  BY <1>1, LaterSignalsJoin
<1>7. Members(ResolveIdentities(Reverse(signals))) = {{n + 1 - i : i \in m} : m \in Members(entities)}
  <2> DEFINE other == Reverse(signals)
  <2>1. other \in Seq(A) /\ DOMAIN other = 1..n /\ \A i \in 1..n : other[i] = signals[n + 1 - i]
    <3>1. other = [i \in 1..n |-> signals[(n - i) + 1]]
      BY DEF Reverse
    <3>2. \A i \in 1..n : (n - i) + 1 = n + 1 - i /\ n + 1 - i \in 1..n
      BY <1>1
    <3>3. \A i \in 1..n : signals[n + 1 - i] \in A
      <4> HIDE DEF A
      <4>1. QED
        BY <1>1, <3>2
    <3> HIDE DEF A, n, other
    <3>4. other \in [1..n -> A]
      BY <3>1, <3>2, <3>3
    <3>5. other \in Seq(A)
      BY <1>1, <3>4
    <3>6. QED
      BY <3>1, <3>2, <3>5
  <2> HIDE DEF A, n, other
  <2>2. ClustersOf(other) = Backs(n, ClustersOf(signals))
    BY <1>1, <2>1, SignalsBackwards
  <2>3. Members(ResolveIdentities(other)) = ClustersOf(other)
    BY <2>1, IdentitiesAre
  <2>4. QED
    BY <1>2, <2>2, <2>3 DEF Back, Backs, other
<1>8. QED
  BY <1>3, <1>4, <1>5, <1>6, <1>7 DEF IdentityIsCautious

(* A document leaves only where its classification and every confirmation  *)
(* allow it, and what comes back is whole, ordered and of the model asked  *)
(* for, a numbered version of its family just where the card had to tell   *)
(* it and the name reported everywhere else, whatever the settings, the    *)
(* document, the answers and the names in them; a human link, through any number of commands, is active from   *)
(* its approval to its reversal and again if approved again; and of any    *)
(* number of signals of whatever kinds, a shared name alone never resolves *)
(* an identity, later signals never split one, and order does not matter.  *)
THEOREM TransfersAndLinksAreGuarded ==
  ASSUME NEW K, NEW V, NEW R, NEW C,
         \/ /\ case.kind = "ocr"
            /\ case.settings \in AnyOcrSettings /\ case.request \in AnyDocument
            /\ case.answer \in AnyOcrAnswer /\ case.card \in AnyModelCard
         \/ case.kind = "ledger" /\ case.commands \in Seq(AnyLinkCommand)
         \/ case.kind = "identity" /\ case.signals \in SignalsOf(K, V, R, C) \ {<<>>}
  PROVE  BoundaryIsGuarded
<1>1. CASE /\ case.kind = "ocr"
           /\ case.settings \in AnyOcrSettings /\ case.request \in AnyDocument
           /\ case.answer \in AnyOcrAnswer /\ case.card \in AnyModelCard
  <2>1. OcrIsBounded(case.settings, case.request, case.answer, case.card)
    BY <1>1, OcrHolds
  <2>2. QED
    BY <1>1, <2>1 DEF BoundaryIsGuarded
<1>2. CASE case.kind = "ledger" /\ case.commands \in Seq(AnyLinkCommand)
  <2>1. LedgerIsReversible(case.commands)
    BY <1>2, LedgerReverses
  <2>2. QED
    BY <1>2, <2>1 DEF BoundaryIsGuarded
<1>3. CASE case.kind = "identity" /\ case.signals \in SignalsOf(K, V, R, C) \ {<<>>}
  <2>1. IdentityIsCautious(case.signals)
    BY <1>3, IdentityHolds
  <2>2. QED
    BY <1>3, <2>1 DEF BoundaryIsGuarded
<1>4. QED
  BY <1>1, <1>2, <1>3

-----------------------------------------------------------------------------
(* The agreement of two rankings, of any number of predictions.            *)
PairsOf(n) == {p \in (1..n) \X (1..n) : p[1] < p[2]}
Apart(s, p) == s[p[1]] - s[p[2]]
Relation(a, b) ==
  IF a = 0 THEN IF b = 0 THEN "both" ELSE "predicted"
  ELSE IF b = 0 THEN "outcome" ELSE IF (a > 0) = (b > 0) THEN "concordant" ELSE "discordant"
Relations == {"both", "predicted", "outcome", "concordant", "discordant"}
Related(xs, ys, kind) ==
  {p \in PairsOf(Len(xs)) : Relation(Apart(xs, p), Apart(ys, p)) = kind}

LEMMA RelationIs ==
  ASSUME NEW a \in Int, NEW b \in Int
  PROVE  /\ Relation(a, b) \in Relations /\ Relation(-a, -b) = Relation(a, b)
<1>1. Relation(a, b) \in Relations
  BY DEF Relation, Relations
<1>2. (-a = 0 <=> a = 0) /\ (-b = 0 <=> b = 0)
  OBVIOUS
<1>3. a # 0 /\ b # 0 => (((-a > 0) = (-b > 0)) <=> ((a > 0) = (b > 0)))
  <2>1. a # 0 => (-a > 0 <=> ~(a > 0))
    OBVIOUS
  <2>2. b # 0 => (-b > 0 <=> ~(b > 0))
    OBVIOUS
  <2>3. QED
    BY <2>1, <2>2
<1>4. Relation(-a, -b) = Relation(a, b)
  BY <1>2, <1>3 DEF Relation
<1>5. QED
  BY <1>1, <1>4 DEF Relation

LEMMA EachPairIsThere ==
  ASSUME NEW xs \in Seq(Int), NEW ys \in Seq(Int), Len(ys) = Len(xs)
  PROVE  /\ Len(xs) \in Nat /\ DOMAIN xs = 1..Len(xs)
         /\ \A p \in PairsOf(Len(xs)) : Apart(xs, p) \in Int /\ Apart(ys, p) \in Int
<1>1. Len(xs) \in Nat /\ DOMAIN xs = 1..Len(xs)
  OBVIOUS
<1>2. \A i \in 1..Len(xs) : xs[i] \in Int /\ ys[i] \in Int
  OBVIOUS
<1>3. \A p \in PairsOf(Len(xs)) : p[1] \in 1..Len(xs) /\ p[2] \in 1..Len(xs)
  BY DEF PairsOf
<1>4. ASSUME NEW p \in PairsOf(Len(xs))
      PROVE  Apart(xs, p) \in Int /\ Apart(ys, p) \in Int
  <2>1. xs[p[1]] \in Int /\ xs[p[2]] \in Int /\ ys[p[1]] \in Int /\ ys[p[2]] \in Int
    BY <1>2, <1>3
  <2>2. \A x, y \in Int : x - y \in Int
    OBVIOUS
  <2>3. Apart(xs, p) \in Int
    BY <2>1, <2>2 DEF Apart
  <2>4. Apart(ys, p) \in Int
    BY <2>1, <2>2 DEF Apart
  <2>5. QED
    BY <2>3, <2>4
<1>5. QED
  BY <1>1, <1>4

(* Two sets that share nothing.                                            *)
LEMMA DisjointSizes ==
  ASSUME NEW S, IsFiniteSet(S), NEW T, IsFiniteSet(T), S \cap T = {}
  PROVE  /\ IsFiniteSet(S \cup T) /\ Cardinality(S \cup T) \in Nat
         /\ Cardinality(S \cup T) = Cardinality(S) + Cardinality(T)
<1>1. IsFiniteSet(S \cup T) /\ Cardinality(S \cup T) = Cardinality(S) + Cardinality(T) - Cardinality(S \cap T)
  BY FS_Union
<1>2. Cardinality({}) = 0 /\ Cardinality(S) \in Nat /\ Cardinality(T) \in Nat
  BY FS_EmptySet, FS_CardinalityType
<1>3. Cardinality(S \cap T) = 0
  BY <1>2
<1> DEFINE s == Cardinality(S)
           t == Cardinality(T)
           u == Cardinality(S \cup T)
           v == Cardinality(S \cap T)
<1>4. s \in Nat /\ t \in Nat /\ v = 0 /\ u = s + t - v
  BY <1>1, <1>2, <1>3
<1> HIDE DEF s, t, u, v
<1>5. u \in Nat /\ u = s + t
  BY <1>4
<1>6. QED
  BY <1>1, <1>5 DEF s, t, u

(* There are half as many pairs as the square without its diagonal.        *)
LEMMA PairsAre ==
  ASSUME NEW n \in Nat
  PROVE  /\ IsFiniteSet(PairsOf(n)) /\ Cardinality(PairsOf(n)) \in Nat
         /\ 2 * Cardinality(PairsOf(n)) = n * (n - 1)
<1> DEFINE D == 1..n
           Square == D \X D
           Under == PairsOf(n)
           Over == {p \in Square : p[2] < p[1]}
           Diagonal == {p \in Square : p[1] = p[2]}
<1>1. IsFiniteSet(D) /\ Cardinality(D) = n
  BY FS_Interval
<1>2. IsFiniteSet(Square) /\ Cardinality(Square) = n * n
  <2> HIDE DEF D
  <2>1. QED
    BY <1>1, FS_Product
<1>3. IsFiniteSet(Under) /\ IsFiniteSet(Over) /\ IsFiniteSet(Diagonal)
  <2>1. Under \subseteq Square /\ Over \subseteq Square /\ Diagonal \subseteq Square
    BY DEF PairsOf
  <2> HIDE DEF Square, Under, Over, Diagonal
  <2>2. QED
    BY <1>2, <2>1, FS_Subset
<1>4. Cardinality(Under) = Cardinality(Over)
  <2> DEFINE f == [p \in Under |-> <<p[2], p[1]>>]
             g == [p \in Over |-> <<p[2], p[1]>>]
  <2>1. \A p \in Under : <<p[2], p[1]>> \in Over /\ p = <<p[1], p[2]>>
    BY DEF PairsOf
  <2>2. \A p \in Over : <<p[2], p[1]>> \in Under /\ p = <<p[1], p[2]>>
    BY DEF PairsOf
  <2>3. f \in [Under -> Over] /\ g \in [Over -> Under]
    BY <2>1, <2>2
  <2>4. \A q \in Over : \E p \in Under : f[p] = q
    BY <2>2
  <2>5. \A q \in Under : \E p \in Over : g[p] = q
    BY <2>1
  <2> HIDE DEF Under, Over, f, g
  <2>6. f \in Surjection(Under, Over) /\ g \in Surjection(Over, Under)
    BY <2>3, <2>4, <2>5 DEF Surjection
  <2>7. Cardinality(Over) <= Cardinality(Under) /\ Cardinality(Under) <= Cardinality(Over)
    BY <1>3, <2>6, FS_Surjection
  <2>8. Cardinality(Over) \in Nat /\ Cardinality(Under) \in Nat
    BY <1>3, FS_CardinalityType
  <2>9. QED
    BY <2>7, <2>8
<1>5. Cardinality(Diagonal) = n
  <2> DEFINE f == [i \in D |-> <<i, i>>]
             g == [p \in Diagonal |-> p[1]]
  <2>1. f \in [D -> Diagonal] /\ g \in [Diagonal -> D]
    OBVIOUS
  <2>2. \A p \in Diagonal : \E i \in D : f[i] = p
    OBVIOUS
  <2>3. \A i \in D : <<i, i>> \in Diagonal /\ g[<<i, i>>] = i
    OBVIOUS
  <2> HIDE DEF D, Diagonal, f, g
  <2>4. f \in Surjection(D, Diagonal) /\ g \in Surjection(Diagonal, D)
    BY <2>1, <2>2, <2>3 DEF Surjection
  <2>5. Cardinality(Diagonal) <= Cardinality(D) /\ Cardinality(D) <= Cardinality(Diagonal)
    BY <1>1, <1>3, <2>4, FS_Surjection
  <2>6. Cardinality(Diagonal) \in Nat
    BY <1>3, FS_CardinalityType
  <2>7. QED
    BY <1>1, <2>5, <2>6
<1>6. /\ Square = (Under \cup Over) \cup Diagonal
      /\ Under \cap Over = {} /\ (Under \cup Over) \cap Diagonal = {}
  BY DEF PairsOf
<1> HIDE DEF Square, Under, Over, Diagonal
<1> DEFINE sides == Under \cup Over
<1>7. IsFiniteSet(sides) /\ Cardinality(sides) = Cardinality(Under) + Cardinality(Over) - Cardinality({})
  BY <1>3, <1>6, FS_Union
<1> HIDE DEF sides
<1>8. Cardinality(Square) = Cardinality(sides) + Cardinality(Diagonal) - Cardinality({})
  BY <1>3, <1>6, <1>7, FS_Union DEF sides
<1>9. Cardinality({}) = 0 /\ Cardinality(Under) \in Nat
  BY <1>3, FS_EmptySet, FS_CardinalityType
<1> DEFINE c == Cardinality(Under)
<1>10. n * n = c + c + n /\ c \in Nat
  BY <1>2, <1>4, <1>5, <1>7, <1>8, <1>9
<1> HIDE DEF c
<1>11. 2 * c = n * (n - 1)
  BY <1>10
<1>12. QED
  BY <1>3, <1>10, <1>11 DEF c, Under

LEMMA RelatedIs ==
  ASSUME NEW xs \in Seq(Int), NEW ys \in Seq(Int), Len(ys) = Len(xs)
  PROVE  LET SizeOf(kind) == Cardinality(Related(xs, ys, kind)) IN
         /\ \A kind \in Relations : SizeOf(kind) \in Nat
         /\ SizeOf("both") + SizeOf("predicted") + SizeOf("outcome") + SizeOf("concordant") + SizeOf("discordant")
              = Cardinality(PairsOf(Len(xs)))
<1> DEFINE P == PairsOf(Len(xs))
           A == Related(xs, ys, "both")
           B == Related(xs, ys, "predicted")
           C == Related(xs, ys, "outcome")
           D == Related(xs, ys, "concordant")
           E == Related(xs, ys, "discordant")
<1>1. IsFiniteSet(P)
  BY EachPairIsThere, PairsAre
<1>2. \A kind \in Relations : IsFiniteSet(Related(xs, ys, kind))
  <2>1. \A kind \in Relations : Related(xs, ys, kind) \subseteq P
    BY DEF Related
  <2> HIDE DEF P
  <2>2. QED
    BY <1>1, <2>1, FS_Subset
<1>3. \A kind \in Relations : Cardinality(Related(xs, ys, kind)) \in Nat
  BY <1>2, FS_CardinalityType
<1>4. \A p \in P : Relation(Apart(xs, p), Apart(ys, p)) \in Relations
  BY EachPairIsThere, RelationIs
<1>5. P = A \cup B \cup C \cup D \cup E
  BY <1>4 DEF Related, Relations
<1>6. /\ A \cap B = {} /\ (A \cup B) \cap C = {} /\ (A \cup B \cup C) \cap D = {}
      /\ (A \cup B \cup C \cup D) \cap E = {}
  BY DEF Related
<1>7. IsFiniteSet(A) /\ IsFiniteSet(B) /\ IsFiniteSet(C) /\ IsFiniteSet(D) /\ IsFiniteSet(E)
  BY <1>2 DEF Relations
<1> HIDE DEF A, B, C, D, E, P
<1> DEFINE AB == A \cup B
           ABC == AB \cup C
           ABCD == ABC \cup D
<1>8. AB \cap C = {} /\ ABC \cap D = {} /\ ABCD \cap E = {} /\ P = ABCD \cup E
  BY <1>5, <1>6
<1>9. IsFiniteSet(AB) /\ Cardinality(AB) = Cardinality(A) + Cardinality(B)
  BY <1>6, <1>7, DisjointSizes
<1> HIDE DEF AB
<1>10. IsFiniteSet(ABC) /\ Cardinality(ABC) = Cardinality(AB) + Cardinality(C)
  BY <1>7, <1>8, <1>9, DisjointSizes
<1> HIDE DEF ABC
<1>11. IsFiniteSet(ABCD) /\ Cardinality(ABCD) = Cardinality(ABC) + Cardinality(D)
  BY <1>7, <1>8, <1>10, DisjointSizes
<1> HIDE DEF ABCD
<1>12. Cardinality(P) = Cardinality(ABCD) + Cardinality(E)
  BY <1>7, <1>8, <1>11, DisjointSizes
<1>13. Cardinality(P) = Cardinality(A) + Cardinality(B) + Cardinality(C) + Cardinality(D) + Cardinality(E)
  BY <1>9, <1>10, <1>11, <1>12
<1>14. QED
  BY <1>3, <1>13 DEF A, B, C, D, E, P

(* Turned about, each pair is still one of its kind.                       *)
LEMMA RelatedBackwards ==
  ASSUME NEW xs \in Seq(Int), NEW ys \in Seq(Int), Len(ys) = Len(xs), NEW kind \in Relations
  PROVE  /\ Reverse(xs) \in Seq(Int) /\ Reverse(ys) \in Seq(Int)
         /\ Len(Reverse(xs)) = Len(xs) /\ Len(Reverse(ys)) = Len(xs)
         /\ Cardinality(Related(Reverse(xs), Reverse(ys), kind)) = Cardinality(Related(xs, ys, kind))
<1> DEFINE n == Len(xs)
           us == Reverse(xs)
           vs == Reverse(ys)
           A == Related(xs, ys, kind)
           B == Related(us, vs, kind)
           Turn(p) == <<n + 1 - p[2], n + 1 - p[1]>>
<1>1. n \in Nat /\ \A i \in 1..n : xs[i] \in Int /\ ys[i] \in Int
  OBVIOUS
<1>2. us = [i \in 1..n |-> xs[(n - i) + 1]] /\ vs = [i \in 1..n |-> ys[(n - i) + 1]]
  BY DEF Reverse
<1>3. \A i \in 1..n : n + 1 - i \in 1..n /\ (n - i) + 1 = n + 1 - i /\ n + 1 - (n + 1 - i) = i
  BY <1>1
<1>4. \A i \in 1..n : us[i] = xs[n + 1 - i] /\ vs[i] = ys[n + 1 - i]
  BY <1>2, <1>3
<1>5. us \in Seq(Int) /\ vs \in Seq(Int) /\ Len(us) = n /\ Len(vs) = n
  <2>1. us \in [1..n -> Int] /\ vs \in [1..n -> Int]
    BY <1>1, <1>2, <1>3
  <2> HIDE DEF us, vs, n
  <2>2. QED
    BY <1>1, <2>1
<1> HIDE DEF us, vs, n
<1>6. \A p \in PairsOf(n) : /\ Turn(p) \in PairsOf(n) /\ Turn(Turn(p)) = p
                            /\ p[1] \in 1..n /\ p[2] \in 1..n
  <2>1. SUFFICES ASSUME NEW i \in 1..n, NEW j \in 1..n, i < j
                 PROVE  Turn(<<i, j>>) \in PairsOf(n) /\ Turn(Turn(<<i, j>>)) = <<i, j>>
    BY DEF PairsOf
  <2>2. n + 1 - j \in 1..n /\ n + 1 - i \in 1..n /\ n + 1 - j < n + 1 - i
    BY <1>1, <2>1
  <2>3. n + 1 - (n + 1 - i) = i /\ n + 1 - (n + 1 - j) = j
    BY <1>3
  <2>4. QED
    BY <2>2, <2>3 DEF PairsOf
<1>7. \A p \in PairsOf(n) : /\ Apart(us, p) = -Apart(xs, Turn(p)) /\ Apart(vs, p) = -Apart(ys, Turn(p))
                            /\ Apart(us, Turn(p)) = -Apart(xs, p) /\ Apart(vs, Turn(p)) = -Apart(ys, p)
  <2> SUFFICES ASSUME NEW p \in PairsOf(n)
               PROVE  /\ Apart(us, p) = -Apart(xs, Turn(p)) /\ Apart(vs, p) = -Apart(ys, Turn(p))
                      /\ Apart(us, Turn(p)) = -Apart(xs, p) /\ Apart(vs, Turn(p)) = -Apart(ys, p)
    OBVIOUS
  <2> DEFINE i == p[1]
             j == p[2]
             k == n + 1 - i
             l == n + 1 - j
  <2>1. i \in 1..n /\ j \in 1..n /\ k \in 1..n /\ l \in 1..n
    BY <1>3, <1>6
  <2>2. /\ us[i] = xs[k] /\ us[j] = xs[l] /\ us[k] = xs[i] /\ us[l] = xs[j]
        /\ vs[i] = ys[k] /\ vs[j] = ys[l] /\ vs[k] = ys[i] /\ vs[l] = ys[j]
    BY <1>3, <1>4, <2>1
  <2>3. /\ xs[i] \in Int /\ xs[j] \in Int /\ xs[k] \in Int /\ xs[l] \in Int
        /\ ys[i] \in Int /\ ys[j] \in Int /\ ys[k] \in Int /\ ys[l] \in Int
    BY <1>1, <2>1
  <2>4. Turn(p)[1] = l /\ Turn(p)[2] = k
    OBVIOUS
  <2>5. /\ Apart(us, p) = us[i] - us[j] /\ Apart(vs, p) = vs[i] - vs[j]
        /\ Apart(xs, p) = xs[i] - xs[j] /\ Apart(ys, p) = ys[i] - ys[j]
    BY DEF Apart
  <2>6. /\ Apart(us, Turn(p)) = us[l] - us[k] /\ Apart(vs, Turn(p)) = vs[l] - vs[k]
        /\ Apart(xs, Turn(p)) = xs[l] - xs[k] /\ Apart(ys, Turn(p)) = ys[l] - ys[k]
    BY <2>4 DEF Apart
  <2> HIDE DEF k, l, Turn, i, j
  <2>7. \A x, y \in Int : x - y = -(y - x)
    OBVIOUS
  <2>8. Apart(us, p) = -Apart(xs, Turn(p))
    <3>1. xs[k] - xs[l] = -(xs[l] - xs[k])
      BY <2>3, <2>7
    <3>2. QED
      BY <2>2, <2>5, <2>6, <3>1
  <2>9. Apart(vs, p) = -Apart(ys, Turn(p))
    BY <2>2, <2>3, <2>5, <2>6, <2>7
  <2>10. Apart(us, Turn(p)) = -Apart(xs, p)
    <3>1. xs[j] - xs[i] = -(xs[i] - xs[j])
      BY <2>3, <2>7
    <3>2. QED
      BY <2>2, <2>5, <2>6, <3>1
  <2>11. Apart(vs, Turn(p)) = -Apart(ys, p)
    BY <2>2, <2>3, <2>5, <2>6, <2>7
  <2>12. QED
    BY <2>8, <2>9, <2>10, <2>11
<1>8. \A p \in PairsOf(n) : Apart(xs, p) \in Int /\ Apart(ys, p) \in Int
  BY EachPairIsThere DEF n
<1> HIDE DEF Turn
<1>9. \A p \in PairsOf(n) :
        /\ Relation(Apart(us, p), Apart(vs, p)) = Relation(Apart(xs, Turn(p)), Apart(ys, Turn(p)))
        /\ Relation(Apart(us, Turn(p)), Apart(vs, Turn(p))) = Relation(Apart(xs, p), Apart(ys, p))
  BY <1>6, <1>7, <1>8, RelationIs
<1>10. /\ A = {p \in PairsOf(n) : Relation(Apart(xs, p), Apart(ys, p)) = kind}
       /\ B = {p \in PairsOf(n) : Relation(Apart(us, p), Apart(vs, p)) = kind}
  BY <1>5 DEF Related, n
<1>11. (\A p \in A : Turn(p) \in B /\ Turn(Turn(p)) = p) /\ (\A p \in B : Turn(p) \in A /\ Turn(Turn(p)) = p)
  BY <1>6, <1>9, <1>10
<1>12. IsFiniteSet(A) /\ IsFiniteSet(B)
  <2>1. A \subseteq PairsOf(n) /\ B \subseteq PairsOf(n) /\ IsFiniteSet(PairsOf(n))
    BY <1>1, <1>10, PairsAre
  <2> HIDE DEF A, B
  <2>2. QED
    BY <2>1, FS_Subset
<1> HIDE DEF A, B
<1> DEFINE f == [p \in A |-> Turn(p)]
           g == [p \in B |-> Turn(p)]
<1>13. f \in Surjection(A, B) /\ g \in Surjection(B, A)
  BY <1>11 DEF Surjection
<1> HIDE DEF f, g
<1>14. Cardinality(B) <= Cardinality(A) /\ Cardinality(A) <= Cardinality(B)
  BY <1>12, <1>13, FS_Surjection
<1>15. Cardinality(A) \in Nat /\ Cardinality(B) \in Nat
  BY <1>12, FS_CardinalityType
<1>16. QED
  BY <1>5, <1>14, <1>15 DEF A, B, us, vs, n

LEMMA RankAgreementIs ==
  ASSUME NEW xs \in Seq(Int), NEW ys \in Seq(Int), Len(ys) = Len(xs)
  PROVE  LET SizeOf(kind) == Cardinality(Related(xs, ys, kind))
             c  == SizeOf("concordant")
             d  == SizeOf("discordant")
             tx == SizeOf("predicted")
             ty == SizeOf("outcome")
         IN RankAgreement(xs, ys) =
              [concordant |-> c, discordant |-> d, tied_predicted |-> tx, tied_outcome |-> ty,
               tied_both |-> SizeOf("both"),
               defined |-> c + d + ty # 0 /\ c + d + tx # 0,
               factors |-> (c + d + ty) * (c + d + tx)]
<1> DEFINE P == PairsOf(Len(xs))
           Q == {p \in (DOMAIN xs) \X (DOMAIN xs) : p[1] < p[2]}
<1>1. Q = P
  BY DEF PairsOf
<1>2. \A p \in P : Apart(xs, p) \in Int /\ Apart(ys, p) \in Int
  BY EachPairIsThere
<1>3. /\ Related(xs, ys, "concordant") =
           {p \in P : Apart(xs, p) # 0 /\ Apart(ys, p) # 0 /\ (Apart(xs, p) > 0) = (Apart(ys, p) > 0)}
      /\ Related(xs, ys, "discordant") =
           {p \in P : Apart(xs, p) # 0 /\ Apart(ys, p) # 0 /\ (Apart(xs, p) > 0) # (Apart(ys, p) > 0)}
      /\ Related(xs, ys, "predicted") = {p \in P : Apart(xs, p) = 0 /\ Apart(ys, p) # 0}
      /\ Related(xs, ys, "outcome") = {p \in P : Apart(xs, p) # 0 /\ Apart(ys, p) = 0}
      /\ Related(xs, ys, "both") = {p \in P : Apart(xs, p) = 0 /\ Apart(ys, p) = 0}
  <2>1. ASSUME NEW p \in P
        PROVE  LET a == Apart(xs, p)
                   b == Apart(ys, p)
               IN /\ (Relation(a, b) = "both") <=> (a = 0 /\ b = 0)
                  /\ (Relation(a, b) = "predicted") <=> (a = 0 /\ b # 0)
                  /\ (Relation(a, b) = "outcome") <=> (a # 0 /\ b = 0)
                  /\ (Relation(a, b) = "concordant") <=> (a # 0 /\ b # 0 /\ (a > 0) = (b > 0))
                  /\ (Relation(a, b) = "discordant") <=> (a # 0 /\ b # 0 /\ (a > 0) # (b > 0))
    BY DEF Relation
  <2> HIDE DEF P
  <2>2. \A kind : Related(xs, ys, kind) = {p \in P : Relation(Apart(xs, p), Apart(ys, p)) = kind}
    BY DEF Related, P
  <2>3. Related(xs, ys, "concordant") =
           {p \in P : Apart(xs, p) # 0 /\ Apart(ys, p) # 0 /\ (Apart(xs, p) > 0) = (Apart(ys, p) > 0)}
    BY <2>1, <2>2
  <2>4. Related(xs, ys, "discordant") =
           {p \in P : Apart(xs, p) # 0 /\ Apart(ys, p) # 0 /\ (Apart(xs, p) > 0) # (Apart(ys, p) > 0)}
    BY <2>1, <2>2
  <2>5. Related(xs, ys, "predicted") = {p \in P : Apart(xs, p) = 0 /\ Apart(ys, p) # 0}
    BY <2>1, <2>2
  <2>6. Related(xs, ys, "outcome") = {p \in P : Apart(xs, p) # 0 /\ Apart(ys, p) = 0}
    BY <2>1, <2>2
  <2>7. Related(xs, ys, "both") = {p \in P : Apart(xs, p) = 0 /\ Apart(ys, p) = 0}
    BY <2>1, <2>2
  <2>8. QED
    BY <2>3, <2>4, <2>5, <2>6, <2>7
<1> HIDE DEF P, Q
<1>4. QED
  BY <1>1, <1>3 DEF RankAgreement, Apart, Q

(* The rank agreement that the harness reports counts every pair of the    *)
(* predictions once, keeps tau within its bounds and does not depend on    *)
(* the order of the records: for rankings of any length, tied or not.      *)
THEOREM AgreementIsExact ==
  ASSUME NEW xs \in Seq(Int), NEW ys \in Seq(Int), Len(ys) = Len(xs)
  PROVE  LET r == RankAgreement(xs, ys) IN
         /\ 2 * (r.concordant + r.discordant + r.tied_predicted + r.tied_outcome + r.tied_both)
              = Len(xs) * (Len(xs) - 1)
         /\ (r.concordant - r.discordant) * (r.concordant - r.discordant) <= r.factors
         /\ r.defined => r.factors > 0
         /\ RankAgreement(Reverse(xs), Reverse(ys)) = r
<1> DEFINE SizeOf(kind) == Cardinality(Related(xs, ys, kind))
           r == RankAgreement(xs, ys)
           c == SizeOf("concordant")
           d == SizeOf("discordant")
           x == SizeOf("predicted")
           y == SizeOf("outcome")
           b == SizeOf("both")
<1>1. c \in Nat /\ d \in Nat /\ x \in Nat /\ y \in Nat /\ b \in Nat
  BY RelatedIs DEF Relations
<1>2. b + x + y + c + d = Cardinality(PairsOf(Len(xs)))
  BY RelatedIs
<1>3. 2 * Cardinality(PairsOf(Len(xs))) = Len(xs) * (Len(xs) - 1)
  BY EachPairIsThere, PairsAre
<1>4. r = [concordant |-> c, discordant |-> d, tied_predicted |-> x, tied_outcome |-> y,
           tied_both |-> b, defined |-> c + d + y # 0 /\ c + d + x # 0,
           factors |-> (c + d + y) * (c + d + x)]
  BY RankAgreementIs
<1>5. RankAgreement(Reverse(xs), Reverse(ys)) = r
  <2> DEFINE us == Reverse(xs)
             vs == Reverse(ys)
  <2>1. us \in Seq(Int) /\ vs \in Seq(Int) /\ Len(us) = Len(xs) /\ Len(vs) = Len(xs)
    BY RelatedBackwards DEF Relations
  <2>2. \A kind \in Relations : Cardinality(Related(us, vs, kind)) = SizeOf(kind)
    BY RelatedBackwards
  <2> HIDE DEF us, vs, SizeOf
  <2>3. RankAgreement(us, vs) =
          [concordant |-> c, discordant |-> d, tied_predicted |-> x, tied_outcome |-> y,
           tied_both |-> b, defined |-> c + d + y # 0 /\ c + d + x # 0,
           factors |-> (c + d + y) * (c + d + x)]
    BY <2>1, <2>2, RankAgreementIs DEF Relations
  <2>4. QED
    BY <1>4, <2>3 DEF us, vs
<1> HIDE DEF SizeOf, r, c, d, x, y, b
<1>6. 2 * (r.concordant + r.discordant + r.tied_predicted + r.tied_outcome + r.tied_both)
        = Len(xs) * (Len(xs) - 1)
  <2>1. r.concordant + r.discordant + r.tied_predicted + r.tied_outcome + r.tied_both = b + x + y + c + d
    BY <1>1, <1>4
  <2>2. QED
    BY <1>2, <1>3, <2>1
<1>7. (c - d) * (c - d) <= (c + d + y) * (c + d + x)
  <2> DEFINE s == c + d
             t == IF c >= d THEN c - d ELSE d - c
             u == s + y
             v == s + x
  <2>1. t \in Nat /\ u \in Nat /\ v \in Nat /\ t <= u /\ t <= v /\ (c - d) * (c - d) = t * t
    BY <1>1
  <2> HIDE DEF t, u, v
  <2>2. t * t <= u * t /\ t * t \in Nat /\ u * t \in Nat
    BY <2>1, ProductsGrow
  <2>3. t * u <= v * u /\ t * u \in Nat /\ v * u \in Nat
    BY <2>1, ProductsGrow
  <2>4. u * t = t * u /\ v * u = u * v
    BY <2>1
  <2>5. t * t <= u * v
    BY <2>2, <2>3, <2>4
  <2>6. QED
    BY <2>1, <2>5 DEF u, v
<1>8. c + d + y # 0 /\ c + d + x # 0 => (c + d + y) * (c + d + x) > 0
  BY <1>1
<1>9. r.concordant = c /\ r.discordant = d /\ r.factors = (c + d + y) * (c + d + x)
      /\ r.defined = (c + d + y # 0 /\ c + d + x # 0)
  BY <1>4
<1>10. QED
  BY <1>5, <1>6, <1>7, <1>8, <1>9 DEF r
=============================================================================
