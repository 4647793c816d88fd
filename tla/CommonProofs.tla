---------------------------- MODULE CommonProofs ----------------------------
(***************************************************************************)
(* Lemmas about the models of the package Common: what testing a           *)
(* combination padded with safe values tells about it, induction and       *)
(* recursion over the natural numbers, monotone schema sets over a finite  *)
(* universe, and lists.                                                    *)
(***************************************************************************)
EXTENDS Combinations, SchemaSets, Lists, FiniteSetTheorems,
        WellFoundedInduction, TLAPS

\* There are N parameters.
LEMMA ParamsFinite == IsFiniteSet(Params) /\ Cardinality(Params) = N
BY NAssumption, FS_Interval DEF Params

\* Combinations taken from a test case, and their paddings, are well formed.
LEMMA getCombType ==
    ASSUME NEW t \in Testcase, NEW s
    PROVE  getComb(s, t) \in Comb
BY DEF getComb, Comb, Testcase

\* A padded combination is a test case.
LEMMA PaddingType ==
    ASSUME NEW t \in Testcase, NEW s, NEW M
    PROVE  paddingWithSafeValues(getComb(s, t), compute_safe_values(M), t)
               \in Testcase
<1> DEFINE safe == compute_safe_values(M)
           comb == getComb(s, t)
<1>1. \A i \in Params : safe[i] \in {UNKNOWN, 0, 1}
  BY DEF compute_safe_values
<1>2. comb \in Comb
  BY getCombType
<1>3. \A i \in Params : comb[i] \in {UNKNOWN, 0, 1} /\ t[i] \in {0, 1}
  BY <1>2 DEF Comb, Testcase
<1> HIDE DEF safe, comb
<1>4. paddingWithSafeValues(comb, safe, t) \in Testcase
  BY <1>1, <1>3 DEF paddingWithSafeValues, Testcase, UNKNOWN
<1> QED BY <1>4 DEF safe, comb

\* A part of a test case contains mf when the test case does and the part fixes
\* all parameters of mf.
LEMMA PartContains ==
    ASSUME NEW t \in Testcase, NEW s, NEW mf \in Comb
    PROVE  contains(getComb(s, t), mf)
               <=> contains(t, mf) /\ schemaOf(mf) \subseteq s
<1>1. \A i \in Params : t[i] # UNKNOWN
  BY DEF Testcase, UNKNOWN
<1>2. \A i \in Params : getComb(s, t)[i] = IF i \in s THEN t[i] ELSE UNKNOWN
  BY DEF getComb
<1> QED BY <1>1, <1>2 DEF contains, schemaOf

\* The safe value of a parameter is none of the values that cause failures.
LEMMA SafeValueDiffers ==
    ASSUME NEW M \in SUBSET Comb, HasSafeValues(M), NEW mf \in M,
           NEW i \in Params, mf[i] # UNKNOWN
    PROVE  LET safe == compute_safe_values(M) IN
           safe[i] # mf[i] /\ safe[i] # UNKNOWN
<1>1. mf[i] \in {UNKNOWN, 0, 1}
  BY DEF Comb
<1>2. mf[i] \in ValuesAt(i, M)
  BY DEF ValuesAt
<1>3. ~(0 \in ValuesAt(i, M) /\ 1 \in ValuesAt(i, M))
  BY DEF HasSafeValues
<1>4. compute_safe_values(M)[i] = IF 1 \notin ValuesAt(i, M) THEN 1 ELSE 0
  BY <1>2 DEF compute_safe_values
<1> QED BY <1>1, <1>2, <1>3, <1>4 DEF UNKNOWN

\* Padding with safe values brings in no failure-causing combination.
LEMMA PaddingContains ==
    ASSUME NEW M \in SUBSET Comb, HasSafeValues(M), NEW t \in Testcase, NEW s,
           NEW mf \in M
    PROVE  contains(paddingWithSafeValues(getComb(s, t), compute_safe_values(M), t), mf)
               <=> contains(getComb(s, t), mf)
<1> DEFINE safe == compute_safe_values(M)
           comb == getComb(s, t)
           padded == paddingWithSafeValues(comb, safe, t)
<1>1. \A i \in Params : mf[i] # UNKNOWN => safe[i] # mf[i] /\ safe[i] # UNKNOWN
  BY SafeValueDiffers
<1>2. \A i \in Params : padded[i] = IF comb[i] # UNKNOWN THEN comb[i]
                                    ELSE IF safe[i] # UNKNOWN THEN safe[i]
                                    ELSE 1 - t[i]
  BY DEF paddingWithSafeValues
<1> HIDE DEF safe, comb, padded
<1>3. contains(padded, mf) <=> contains(comb, mf)
  BY <1>1, <1>2 DEF contains
<1> QED BY <1>3 DEF safe, comb, padded

\* Assumption 1 of the code: with safe values, a failing padded test case
\* fails because of the combination it was made from.
LEMMA SafePadding ==
    ASSUME NEW M \in SUBSET Comb, HasSafeValues(M), NEW t \in Testcase, NEW s
    PROVE  check(paddingWithSafeValues(getComb(s, t), compute_safe_values(M), t), M)
               <=> ~Faulty(getComb(s, t), M)
BY PaddingContains DEF check, Faulty

\* Faultiness grows with the schema.
LEMMA FaultyMonotone ==
    ASSUME NEW M \in SUBSET Comb, NEW t \in Testcase, NEW r, NEW s,
           r \subseteq s, Faulty(getComb(r, t), M)
    PROVE  Faulty(getComb(s, t), M)
<1>1. PICK mf \in M : contains(getComb(r, t), mf)
  BY DEF Faulty
<1>2. contains(getComb(s, t), mf)
  BY <1>1, PartContains
<1> QED BY <1>2 DEF Faulty

\* The empty schema is healthy: every failure-causing combination fixes a
\* parameter.
LEMMA EmptyIsHealthy ==
    ASSUME NEW M \in SUBSET Comb, Irredundant(M), NEW t \in Testcase
    PROVE  ~Faulty(getComb({}, t), M)
<1> SUFFICES ASSUME NEW mf \in M, contains(getComb({}, t), mf) PROVE FALSE
  BY DEF Faulty
<1>1. schemaOf(mf) \subseteq {}
  BY PartContains
<1> QED BY <1>1 DEF Irredundant

\* The whole test case is faulty exactly when it fails.
LEMMA WholeTestcase ==
    ASSUME NEW M \in SUBSET Comb, NEW t \in Testcase
    PROVE  Faulty(getComb(Params, t), M) <=> ~check(t, M)
<1>1. getComb(Params, t) = t
  BY DEF getComb, Testcase
<1> QED BY <1>1 DEF Faulty, check

\* A combination of the test case is determined by its schema.
LEMMA CombOfSchema ==
    ASSUME NEW t \in Testcase, NEW mf \in Comb, contains(t, mf)
    PROVE  getComb(schemaOf(mf), t) = mf
BY DEF getComb, schemaOf, contains, Comb

\* Within one test case, smaller schemas make smaller combinations.
LEMMA SchemaOrder ==
    ASSUME NEW t, NEW r, NEW s, r \subseteq s
    PROVE  contains(getComb(s, t), getComb(r, t))
BY DEF contains, getComb

\* contains is transitive.
LEMMA ContainsTransitive ==
    ASSUME NEW a, NEW b, NEW c, contains(a, b), contains(b, c)
    PROVE  contains(a, c)
BY DEF contains

\* Combinations that contain each other are equal.
LEMMA ContainsAntisymmetric ==
    ASSUME NEW a \in Comb, NEW b \in Comb, contains(a, b), contains(b, a)
    PROVE  a = b
<1>1. \A i \in Params : a[i] = b[i]
  BY DEF contains
<1> QED BY <1>1 DEF Comb

\* What contains a combination fixes its parameters, and more unless it is equal.
LEMMA ContainsSchemas ==
    ASSUME NEW a \in Comb, NEW b \in Comb, contains(a, b)
    PROVE  /\ schemaOf(b) \subseteq schemaOf(a)
           /\ schemaOf(b) = schemaOf(a) => a = b
<1>1. schemaOf(b) \subseteq schemaOf(a)
  BY DEF contains, schemaOf
<1>2. ASSUME schemaOf(b) = schemaOf(a) PROVE contains(b, a)
  BY <1>2 DEF contains, schemaOf
<1> QED BY <1>1, <1>2, ContainsAntisymmetric

-----------------------------------------------------------------------------
(***************************************************************************)
(* Induction and recursion over the natural numbers, stated with sets and  *)
(* functions in place of operators.                                        *)
(***************************************************************************)

\* A set of natural numbers that holds 0 and with each number the next.
LEMMA NatSetInduction ==
    ASSUME NEW A \in SUBSET Nat, 0 \in A, \A n \in A : n + 1 \in A
    PROVE  A = Nat
<1> SUFFICES ASSUME Nat \ A # {} PROVE FALSE
  OBVIOUS
<1> DEFINE R == OpToRel(<, Nat)
<1>1. IsWellFoundedOn(R, Nat)
  BY NatLessThanWellFounded
<1>2. \A m, n \in Nat : m < n => <<m, n>> \in R
  BY DEF OpToRel
<1> HIDE DEF R
<1>3. PICK n \in Nat \ A : \A m \in Nat \ A : ~(<<m, n>> \in R)
  BY <1>1, WFMin
<1>4. \A m \in Nat \ A : ~(m < n)
  BY <1>2, <1>3
<1>5. n # 0 /\ n - 1 \in Nat /\ n - 1 < n /\ (n - 1) + 1 = n
  BY <1>3
<1> QED BY <1>3, <1>4, <1>5

\* The function h starts with x and goes on, step by step, up to n.
Stepwise(h, x, step, n) ==
    /\ h[0] = x
    /\ \A k \in 1 .. n : h[k] = step[k - 1][h[k - 1]]

\* A function on 0 .. n that is defined step by step exists.
LEMMA StepwiseFunction ==
    ASSUME NEW S, NEW x \in S, NEW step \in [Nat -> [S -> S]], NEW n \in Nat
    PROVE  \E h \in [0 .. n -> S] : Stepwise(h, x, step, n)
<1> DEFINE Good(m) == \E h \in [0 .. m -> S] : Stepwise(h, x, step, m)
           A == {m \in Nat : Good(m)}
<1> USE DEF Stepwise
<1>1. 0 \in A
  <2>1. [k \in 0 .. 0 |-> x] \in [0 .. 0 -> S] /\ [k \in 0 .. 0 |-> x][0] = x
    OBVIOUS
  <2>2. 1 .. 0 = {}
    OBVIOUS
  <2> QED BY <2>1, <2>2
<1>2. ASSUME NEW m \in A PROVE m + 1 \in A
  <2>1. PICK h \in [0 .. m -> S] :
            h[0] = x /\ \A k \in 1 .. m : h[k] = step[k - 1][h[k - 1]]
    OBVIOUS
  <2> DEFINE g == [k \in 0 .. m + 1 |-> IF k = m + 1 THEN step[m][h[m]] ELSE h[k]]
  <2>2. \A k \in 0 .. m : g[k] = h[k] /\ k \in 0 .. m + 1
    OBVIOUS
  <2>3. g[m + 1] = step[m][h[m]] /\ (m + 1) - 1 = m
    OBVIOUS
  <2>4. g \in [0 .. m + 1 -> S]
    <3>1. m \in Nat /\ h[m] \in S
      OBVIOUS
    <3>2. step[m][h[m]] \in S
      BY <3>1
    <3> QED BY <3>1, <3>2
  <2> HIDE DEF g
  <2>5. ASSUME NEW k \in 1 .. m + 1 PROVE g[k] = step[k - 1][g[k - 1]]
    <3>1. CASE k = m + 1
      BY <2>2, <2>3, <3>1
    <3>2. CASE k # m + 1
      <4>1. k \in 1 .. m /\ k \in 0 .. m /\ k - 1 \in 0 .. m
        BY <3>2
      <4> QED BY <2>1, <2>2, <4>1
    <3> QED BY <3>1, <3>2
  <2>6. g[0] = x
    BY <2>1, <2>2
  <2>7. Good(m + 1)
    BY <2>4, <2>5, <2>6
  <2> QED BY <2>7
<1> HIDE DEF Good
<1>3. A = Nat
  <2>1. A \in SUBSET Nat
    OBVIOUS
  <2> HIDE DEF A
  <2> QED BY <1>1, <1>2, <2>1, NatSetInduction
<1> QED BY <1>3 DEF Good

\* What holds of the start and passes from one number to the next.
StaysIn(h, S, n) == \A k \in 1 .. n : h[k - 1] \in S => h[k] \in S

\* A function that starts in a set and never leaves it.
LEMMA StepwiseType ==
    ASSUME NEW S, NEW n \in Nat, NEW h, h[0] \in S, StaysIn(h, S, n)
    PROVE  \A k \in 0 .. n : h[k] \in S
<1> DEFINE A == {k \in Nat : k <= n => h[k] \in S}
<1>1. 0 \in A
  OBVIOUS
<1>2. ASSUME NEW k \in A PROVE k + 1 \in A
  <2> SUFFICES ASSUME k + 1 <= n PROVE h[k + 1] \in S
    OBVIOUS
  <2>1. k + 1 \in 1 .. n /\ (k + 1) - 1 = k /\ h[k] \in S
    OBVIOUS
  <2> QED BY <2>1 DEF StaysIn
<1>3. A = Nat
  <2>1. A \in SUBSET Nat
    OBVIOUS
  <2> HIDE DEF A
  <2> QED BY <1>1, <1>2, <2>1, NatSetInduction
<1> QED BY <1>3

-----------------------------------------------------------------------------
(***************************************************************************)
(* Below every member of a family of subsets of a finite set there is a    *)
(* minimal member, and above it a maximal one.                             *)
(***************************************************************************)
LEMMA MinimalBelow ==
    ASSUME NEW U, IsFiniteSet(U), NEW S \in SUBSET SUBSET U, NEW s \in S
    PROVE  \E m \in Minimal(S) : m \subseteq s
<1> DEFINE T == {r \in S : r \subseteq s}
<1>1. IsWellFoundedOn(StrictSubsetOrdering(U), FiniteSubsetsOf(U))
  BY FS_StrictSubsetOrderingWellFounded
<1>2. FiniteSubsetsOf(U) = SUBSET U
  BY FS_FiniteSubsetsOfFinite
<1>3. T \subseteq FiniteSubsetsOf(U) /\ T # {}
  BY <1>2
<1>4. PICK m \in T : \A r \in T : ~(<<r, m>> \in StrictSubsetOrdering(U))
  <2> HIDE DEF T
  <2> QED BY <1>1, <1>3, WFMin
<1>5. \A r \in S : r \subseteq m => r = m
  BY <1>4 DEF StrictSubsetOrdering
<1> QED BY <1>4, <1>5 DEF Minimal

\* The dual fact.
LEMMA MaximalAbove ==
    ASSUME NEW U, IsFiniteSet(U), NEW S \in SUBSET SUBSET U, NEW s \in S
    PROVE  \E m \in Maximal(S) : s \subseteq m
<1> DEFINE T == {U \ r : r \in S}
<1>1. T \in SUBSET SUBSET U /\ U \ s \in T
  OBVIOUS
<1>2. PICK c \in Minimal(T) : c \subseteq U \ s
  <2> HIDE DEF T
  <2> QED BY <1>1, MinimalBelow
<1>3. PICK m \in S : c = U \ m
  BY <1>2 DEF Minimal
<1>4. s \subseteq m
  BY <1>2, <1>3
<1>5. ASSUME NEW r \in S, m \subseteq r PROVE r = m
  <2>1. U \ r \in T /\ U \ r \subseteq U \ m
    BY <1>5
  <2>2. U \ r = U \ m
    BY <2>1, <1>2, <1>3 DEF Minimal
  <2> QED BY <2>2
<1> QED BY <1>3, <1>4, <1>5 DEF Maximal

(***************************************************************************)
(* Every schema that meets all members of S includes a schema that getMHS  *)
(* returns, and what getMHS returns meets all members of S.                *)
(***************************************************************************)
LEMMA getMHSBelow ==
    ASSUME NEW U, IsFiniteSet(U), NEW S \in SUBSET SUBSET U,
           NEW H \in SUBSET U, \A s \in S : H \cap s # {}
    PROVE  \E m \in getMHS(S) : m \subseteq H
<1>1. H \cap UNION S \in HittingSets(S)
  BY DEF HittingSets
<1>2. HittingSets(S) \in SUBSET SUBSET U
  BY DEF HittingSets
<1>3. PICK m \in Minimal(HittingSets(S)) : m \subseteq H \cap UNION S
  <2> DEFINE met == H \cap UNION S
             Sets == HittingSets(S)
  <2>1. met \in Sets /\ Sets \in SUBSET SUBSET U
    BY <1>1, <1>2
  <2> HIDE DEF met, Sets
  <2>2. \E m \in Minimal(Sets) : m \subseteq met
    BY <2>1, MinimalBelow
  <2> QED BY <2>2 DEF met, Sets
<1> QED BY <1>3 DEF getMHS

\* A minimal hitting set meets every member of S.
LEMMA getMHSHits ==
    ASSUME NEW S, NEW m \in getMHS(S)
    PROVE  /\ m \subseteq UNION S
           /\ \A s \in S : m \cap s # {}
BY DEF getMHS, Minimal, HittingSets

(***************************************************************************)
(* The duality that identify rests on.  Tops and bottoms are computed from *)
(* minimal hitting sets; the chains between them are exactly the intervals *)
(* of pending schemas.                                                     *)
(***************************************************************************)

\* A pending schema lies on a chain, so no chain means nothing is pending.
LEMMA PendingOnChain ==
    ASSUME NEW U, IsFiniteSet(U),
           NEW CMinF \in SUBSET SUBSET U, NEW CMaxP \in SUBSET SUBSET U,
           NEW s \in PendingSchemas(U, CMinF, CMaxP)
    PROVE  \E c \in Chains(complement(getMHS(CMinF), U),
                           getMHS(complement(CMaxP, U))) :
               c.min \subseteq s /\ s \subseteq c.max
<1>1. s \in SUBSET U /\ IsPending(s, CMinF, CMaxP)
  BY DEF PendingSchemas
<1>2. PICK h \in getMHS(CMinF) : h \subseteq U \ s
  <2> DEFINE rest == U \ s
  <2>1. rest \in SUBSET U /\ \A f \in CMinF : rest \cap f # {}
    BY <1>1 DEF IsPending
  <2> HIDE DEF rest
  <2>2. \E h \in getMHS(CMinF) : h \subseteq rest
    BY <2>1, getMHSBelow
  <2> QED BY <2>2 DEF rest
<1>3. PICK b \in getMHS(complement(CMaxP, U)) : b \subseteq s
  <2>1. complement(CMaxP, U) \in SUBSET SUBSET U
    BY DEF complement
  <2>2. \A c \in complement(CMaxP, U) : s \cap c # {}
    BY <1>1 DEF IsPending, complement
  <2> QED BY <1>1, <2>1, <2>2, getMHSBelow
<1>4. U \ h \in complement(getMHS(CMinF), U)
  BY DEF complement
<1>5. s \subseteq U \ h
  BY <1>1, <1>2
<1> DEFINE c == [max |-> U \ h, min |-> b]
<1>6. c \in Chains(complement(getMHS(CMinF), U), getMHS(complement(CMaxP, U)))
  BY <1>3, <1>4, <1>5 DEF Chains
<1> QED BY <1>3, <1>5, <1>6

\* Everything between the ends of a chain is pending.
LEMMA ChainIsPending ==
    ASSUME NEW U,
           NEW CMinF \in SUBSET SUBSET U, NEW CMaxP \in SUBSET SUBSET U,
           NEW c \in Chains(complement(getMHS(CMinF), U),
                            getMHS(complement(CMaxP, U))),
           NEW s, c.min \subseteq s, s \subseteq c.max
    PROVE  s \in PendingSchemas(U, CMinF, CMaxP)
<1>1. /\ c.max \in complement(getMHS(CMinF), U)
      /\ c.min \in getMHS(complement(CMaxP, U))
  BY DEF Chains
<1>2. PICK h \in getMHS(CMinF) : c.max = U \ h
  BY <1>1 DEF complement
<1>3. \A f \in CMinF : h \cap f # {}
  BY getMHSHits
<1>4. \A d \in complement(CMaxP, U) : c.min \cap d # {}
  BY <1>1, getMHSHits
<1>5. \A f \in CMinF : ~(f \subseteq s)
  BY <1>2, <1>3
<1>6. ASSUME NEW p \in CMaxP PROVE ~(s \subseteq p)
  <2>1. U \ p \in complement(CMaxP, U)
    BY DEF complement
  <2>2. PICK x : x \in c.min /\ x \in U \ p
    BY <1>4, <2>1
  <2> QED BY <2>2
<1> QED BY <1>2, <1>5, <1>6 DEF PendingSchemas, IsPending

\* A part of a family that holds its minimal members has the same ones.
LEMMA MinimalOfPart ==
    ASSUME NEW U, IsFiniteSet(U), NEW S \in SUBSET SUBSET U,
           NEW T \in SUBSET S, Minimal(S) \subseteq T
    PROVE  Minimal(T) = Minimal(S)
<1>1. ASSUME NEW t \in Minimal(T) PROVE t \in Minimal(S)
  <2>1. t \in T /\ t \in S
    BY DEF Minimal
  <2>2. PICK m \in Minimal(S) : m \subseteq t
    BY <2>1, MinimalBelow
  <2>3. m = t
    BY <2>2 DEF Minimal
  <2> QED BY <2>2, <2>3
<1>2. Minimal(S) \subseteq Minimal(T)
  BY DEF Minimal
<1> QED BY <1>1, <1>2

\* The dual fact about maximal members.
LEMMA MaximalOfPart ==
    ASSUME NEW U, IsFiniteSet(U), NEW S \in SUBSET SUBSET U,
           NEW T \in SUBSET S, Maximal(S) \subseteq T
    PROVE  Maximal(T) = Maximal(S)
<1>1. ASSUME NEW t \in Maximal(T) PROVE t \in Maximal(S)
  <2>1. t \in T /\ t \in S
    BY DEF Maximal
  <2>2. PICK m \in Maximal(S) : t \subseteq m
    BY <2>1, MaximalAbove
  <2>3. m = t
    BY <2>2 DEF Maximal
  <2> QED BY <2>2, <2>3
<1>2. Maximal(S) \subseteq Maximal(T)
  BY DEF Maximal
<1> QED BY <1>1, <1>2

-----------------------------------------------------------------------------
(***************************************************************************)
(* Schemas of a test case.                                                 *)
(***************************************************************************)

\* The minimal faulty schemas of a test case are the schemas of its
\* failure-causing combinations.
LEMMA MinimalFaultySchemas ==
    ASSUME NEW M \in SUBSET Comb, Irredundant(M), NEW t \in Testcase,
           NEW S, S = Minimal({s \in SUBSET Params : Faulty(getComb(s, t), M)})
    PROVE  {getComb(s, t) : s \in S} = {mf \in M : contains(t, mf)}
<1>1. ASSUME NEW s \in S
      PROVE  getComb(s, t) \in M /\ contains(t, getComb(s, t))
  <2>1. s \in SUBSET Params /\ Faulty(getComb(s, t), M)
    BY <1>1 DEF Minimal
  <2>2. PICK mf \in M : contains(getComb(s, t), mf)
    BY <2>1 DEF Faulty
  <2>3. contains(t, mf) /\ schemaOf(mf) \subseteq s
    BY <2>2, PartContains
  <2>4. getComb(schemaOf(mf), t) = mf
    BY <2>3, CombOfSchema
  <2>5. schemaOf(mf) \in SUBSET Params /\ Faulty(getComb(schemaOf(mf), t), M)
    BY <2>4 DEF schemaOf, Faulty, contains
  <2>6. schemaOf(mf) = s
    BY <2>3, <2>5 DEF Minimal
  <2> QED BY <2>3, <2>4, <2>6
<1>2. ASSUME NEW mf \in M, contains(t, mf)
      PROVE  \E s \in S : getComb(s, t) = mf
  <2>1. getComb(schemaOf(mf), t) = mf
    BY <1>2, CombOfSchema
  <2>2. schemaOf(mf) \in SUBSET Params /\ Faulty(getComb(schemaOf(mf), t), M)
    BY <2>1 DEF schemaOf, Faulty, contains
  <2>3. ASSUME NEW r \in SUBSET Params, Faulty(getComb(r, t), M), r \subseteq schemaOf(mf)
        PROVE  r = schemaOf(mf)
    <3>1. PICK other \in M : contains(getComb(r, t), other)
      BY <2>3 DEF Faulty
    <3>2. contains(t, other) /\ schemaOf(other) \subseteq r
      BY <3>1, PartContains
    <3>3. contains(mf, other)
      <4>1. contains(getComb(schemaOf(mf), t), other)
        BY <2>3, <3>2, PartContains
      <4> QED BY <4>1, <2>1
    <3>4. mf = other
      BY <3>3 DEF Irredundant
    <3> QED BY <3>2, <3>4, <2>3
  <2>4. schemaOf(mf) \in S
    BY <2>2, <2>3 DEF Minimal
  <2> QED BY <2>1, <2>4
<1> QED BY <1>1, <1>2

\* The number of parameters in which two schemas, one within the other, differ.
LEMMA SizeOfDifference ==
    ASSUME NEW max \in SUBSET Params, NEW min \in SUBSET max
    PROVE  /\ Cardinality(max) - Cardinality(min) \in 0 .. N
           /\ IsFiniteSet(max \ min)
           /\ Cardinality(max \ min) = Cardinality(max) - Cardinality(min)
<1>1. IsFiniteSet(Params) /\ Cardinality(Params) = N /\ N \in Nat
  BY ParamsFinite, NAssumption
<1>2. IsFiniteSet(max) /\ Cardinality(max) <= N /\ Cardinality(max) \in Nat
  BY <1>1, FS_Subset, FS_CardinalityType
<1>3. Cardinality(min) <= Cardinality(max) /\ Cardinality(min) \in Nat
  BY <1>2, FS_Subset, FS_CardinalityType
<1>4. /\ IsFiniteSet(max \ min)
      /\ Cardinality(max \ min) = Cardinality(max) - Cardinality(max \cap min)
  BY <1>2, FS_Difference
<1>5. max \cap min = min
  OBVIOUS
<1>6. Cardinality(max \ min) = Cardinality(max) - Cardinality(min)
  BY <1>4, <1>5
<1>7. Cardinality(max) - Cardinality(min) \in 0 .. N
  BY <1>1, <1>2, <1>3
<1> QED BY <1>4, <1>6, <1>7

-----------------------------------------------------------------------------
(***************************************************************************)
(* Lists.                                                                  *)
(***************************************************************************)

\* The elements of a list.
LEMMA ToSetMember ==
    ASSUME NEW X, NEW list \in Seq(X)
    PROVE  /\ ToSet(list) \subseteq X
           /\ \A x : x \in ToSet(list) <=> \E k \in 1 .. Len(list) : list[k] = x
BY DEF ToSet

\* The empty list has none.
LEMMA ToSetOfEmpty == ToSet(<<>>) = {} /\ IsInjective(<<>>)
BY DEF ToSet, IsInjective

\* A list with one more element at its end.
LEMMA AppendFacts ==
    ASSUME NEW X, NEW list \in Seq(X), NEW x \in X
    PROVE  /\ Append(list, x) \in Seq(X)
           /\ ToSet(Append(list, x)) = ToSet(list) \cup {x}
           /\ IsInjective(list) /\ x \notin ToSet(list) => IsInjective(Append(list, x))
<1> DEFINE longer == Append(list, x)
<1>1. /\ longer \in Seq(X) /\ Len(longer) = Len(list) + 1
      /\ longer[Len(list) + 1] = x
      /\ \A k \in 1 .. Len(list) : longer[k] = list[k]
  OBVIOUS
<1>2. /\ DOMAIN list = 1 .. Len(list) /\ Len(list) \in Nat
      /\ DOMAIN longer = 1 .. Len(list) + 1
  BY <1>1
<1> HIDE DEF longer
<1>3. ToSet(longer) = ToSet(list) \cup {x}
  <2>1. \A y : y \in ToSet(longer) <=> \E k \in 1 .. Len(list) + 1 : longer[k] = y
    BY <1>2 DEF ToSet
  <2>2. \A y : y \in ToSet(list) <=> \E k \in 1 .. Len(list) : list[k] = y
    BY <1>2 DEF ToSet
  <2>3. \A k \in 1 .. Len(list) + 1 : k \in 1 .. Len(list) \/ k = Len(list) + 1
    BY <1>2
  <2>4. Len(list) + 1 \in 1 .. Len(list) + 1 /\ 1 .. Len(list) \subseteq 1 .. Len(list) + 1
    BY <1>2
  <2> HIDE <1>2
  <2> QED BY <1>1, <2>1, <2>2, <2>3, <2>4
<1>4. ASSUME IsInjective(list), x \notin ToSet(list) PROVE IsInjective(longer)
  <2>1. \A k \in 1 .. Len(list) : list[k] # x
    BY <1>2, <1>4 DEF ToSet
  <2>2. \A j, k \in 1 .. Len(list) : list[j] = list[k] => j = k
    BY <1>2, <1>4 DEF IsInjective
  <2>3. \A j, k \in 1 .. Len(list) + 1 : longer[j] = longer[k] => j = k
    BY <1>1, <1>2, <2>1, <2>2
  <2> QED BY <1>2, <2>3 DEF IsInjective
<1> QED BY <1>1, <1>3, <1>4 DEF longer

\* The loop behind Select: run[k] is what it has kept of the first k elements.
KeepsElements(run, list, kept) ==
    /\ run[0] = <<>>
    /\ \A k \in 1 .. Len(list) : run[k] = IF kept[k] THEN Append(run[k - 1], list[k]) ELSE run[k - 1]

\* There is such a function, and the definition takes its last value.
LEMMA SelectSteps ==
    ASSUME NEW X, NEW list \in Seq(X), NEW kept \in [1 .. Len(list) -> BOOLEAN]
    PROVE  \E run \in [0 .. Len(list) -> Seq(X)] :
               KeepsElements(run, list, kept) /\ Select(list, kept) = run[Len(list)]
<1> DEFINE top == Len(list)
           S == Seq(X)
           Body(k, v) == IF kept[k] THEN Append(v, list[k]) ELSE v
           Def(h, k) == IF k = 0 THEN <<>> ELSE IF kept[k] THEN Append(h[k - 1], list[k]) ELSE h[k - 1]
           step == [j \in Nat |-> [v \in S |-> IF j < top THEN Body(j + 1, v) ELSE v]]
<1>1. top \in Nat
  OBVIOUS
<1>2. <<>> \in S
  OBVIOUS
<1>3. \A k \in 1 .. top : \A v \in S : Body(k, v) \in S
  <2>1. \A k \in 1 .. top : list[k] \in X
    OBVIOUS
  <2> QED BY <2>1
<1>4. \A h1, k : Def(h1, k) = IF k = 0 THEN <<>> ELSE Body(k, h1[k - 1])
  OBVIOUS
<1>5. Select(list, kept) = (CHOOSE g : g = [k \in 0 .. top |-> Def(g, k)])[top]
  BY DEF Select
<1>6. ASSUME NEW run
      PROVE  KeepsElements(run, list, kept)
                 <=> run[0] = <<>> /\ \A k \in 1 .. top : run[k] = Body(k, run[k - 1])
  BY DEF KeepsElements
<1>7. PICK run \in [0 .. top -> S] : /\ run[0] = <<>>
                                     /\ \A k \in 1 .. top : run[k] = Body(k, run[k - 1])
                                     /\ Select(list, kept) = run[top]
  <2> HIDE DEF top, S, Body, Def
  <2>1. step \in [Nat -> [S -> S]]
    <3>1. \A j \in Nat : \A v \in S : (IF j < top THEN Body(j + 1, v) ELSE v) \in S
      <4>1. \A j \in Nat : j < top => j + 1 \in 1 .. top
        BY <1>1
      <4> QED BY <1>3, <4>1
    <3> QED BY <3>1
  <2>2. \A j \in Nat : \A v \in S : step[j][v] = IF j < top THEN Body(j + 1, v) ELSE v
    OBVIOUS
  <2> HIDE DEF step
  <2>3. PICK h \in [0 .. top -> S] : Stepwise(h, <<>>, step, top)
    BY <1>1, <1>2, <2>1, StepwiseFunction
  <2>4. \A k \in 1 .. top : /\ k - 1 \in Nat /\ k - 1 \in 0 .. top /\ k - 1 < top
                            /\ (k - 1) + 1 = k /\ k \in 0 .. top /\ k # 0
    BY <1>1
  <2>5. h[0] = <<>> /\ \A k \in 1 .. top : h[k] = Body(k, h[k - 1])
    <3>1. h[0] = <<>> /\ \A k \in 1 .. top : h[k] = step[k - 1][h[k - 1]]
      BY <2>3 DEF Stepwise
    <3>2. ASSUME NEW k \in 1 .. top PROVE h[k] = Body(k, h[k - 1])
      <4>1. h[k - 1] \in S
        BY <2>3, <2>4
      <4>2. step[k - 1][h[k - 1]] = Body((k - 1) + 1, h[k - 1])
        BY <2>2, <2>4, <4>1
      <4> QED BY <2>4, <3>1, <4>2
    <3> QED BY <3>1, <3>2
  <2>6. h = [k \in 0 .. top |-> Def(h, k)]
    <3>1. \A k \in 0 .. top : k = 0 \/ k \in 1 .. top
      BY <1>1
    <3>2. \A k \in 0 .. top : h[k] = Def(h, k)
      BY <1>4, <2>5, <3>1
    <3> QED BY <3>2
  <2> DEFINE res == CHOOSE g : g = [k \in 0 .. top |-> Def(g, k)]
  <2>7. res = [k \in 0 .. top |-> Def(res, k)]
    BY <2>6, Zenon
  <2>8. Select(list, kept) = res[top]
    BY <1>5
  <2> HIDE DEF res
  <2>9. \A k \in 0 .. top : res[k] = Def(res, k)
    BY <2>7, Zenon
  <2>10. res[0] = <<>> /\ \A k \in 1 .. top : res[k] = Body(k, res[k - 1])
    <3>1. 0 \in 0 .. top
      BY <1>1
    <3> QED BY <1>4, <2>4, <2>9, <3>1
  <2>11. res \in [0 .. top -> S]
    <3>1. StaysIn(res, S, top)
      BY <1>3, <2>4, <2>10 DEF StaysIn
    <3>2. \A k \in 0 .. top : res[k] \in S
      BY <1>1, <1>2, <2>10, <3>1, StepwiseType
    <3>3. res = [k \in 0 .. top |-> res[k]]
      BY <2>7
    <3> QED BY <3>2, <3>3
  <2> QED BY <2>8, <2>10, <2>11
<1>8. KeepsElements(run, list, kept)
  BY <1>6, <1>7
<1> QED BY <1>7, <1>8

\* A part of a list has the elements at the positions kept, each once if the
\* list has each once.
LEMMA SelectFacts ==
    ASSUME NEW X, NEW list \in Seq(X), NEW kept \in [1 .. Len(list) -> BOOLEAN]
    PROVE  /\ Select(list, kept) \in Seq(X)
           /\ ToSet(Select(list, kept))
                  = {list[k] : k \in {j \in 1 .. Len(list) : kept[j]}}
           /\ IsInjective(list) => IsInjective(Select(list, kept))
           /\ (\A k \in 1 .. Len(list) : kept[k])
                  => Len(Select(list, kept)) = Len(list)
<1> DEFINE n == Len(list)
           Upto(k) == {list[j] : j \in {i \in 1 .. k : kept[i]}}
<1>1. PICK run \in [0 .. n -> Seq(X)] :
          KeepsElements(run, list, kept) /\ Select(list, kept) = run[n]
  BY SelectSteps
<1>2. n \in Nat /\ DOMAIN list = 1 .. n /\ \A k \in 1 .. n : list[k] \in X
  OBVIOUS
<1>3. /\ run[0] = <<>>
      /\ \A k \in 1 .. n :
            run[k] = IF kept[k] THEN Append(run[k - 1], list[k]) ELSE run[k - 1]
  BY <1>1 DEF KeepsElements
<1>4. \A k \in 0 .. n : run[k] \in Seq(X)
  BY <1>1
<1> HIDE DEF n
<1> DEFINE Good(k) == /\ ToSet(run[k]) = Upto(k)
                      /\ IsInjective(list) => IsInjective(run[k])
                      /\ (\A i \in 1 .. n : kept[i]) => Len(run[k]) = k
           A == {k \in Nat : k <= n => Good(k)}
<1>5. 0 \in A
  <2>1. Upto(0) = {}
    OBVIOUS
  <2> HIDE DEF Upto
  <2> QED BY <1>3, <2>1, ToSetOfEmpty
<1>6. ASSUME NEW k \in A PROVE k + 1 \in A
  <2> SUFFICES ASSUME k + 1 <= n PROVE Good(k + 1)
    OBVIOUS
  <2>1. k \in 0 .. n /\ k + 1 \in 1 .. n /\ (k + 1) - 1 = k /\ Good(k)
    BY <1>2
  <2>2. run[k + 1] = IF kept[k + 1] THEN Append(run[k], list[k + 1]) ELSE run[k]
    BY <1>3, <2>1
  <2>3. Upto(k + 1) = IF kept[k + 1] THEN Upto(k) \cup {list[k + 1]} ELSE Upto(k)
    <3>1. \A j : j \in 1 .. k + 1 <=> j \in 1 .. k \/ j = k + 1
      <4>1. k \in Nat
        OBVIOUS
      <4> HIDE DEF A, Good
      <4> QED BY <4>1
    <3>2. CASE kept[k + 1]
      BY <3>1, <3>2
    <3>3. CASE ~kept[k + 1]
      BY <3>1, <3>3
    <3> QED BY <3>2, <3>3
  <2>4. CASE kept[k + 1]
    <3>1. run[k] \in Seq(X) /\ list[k + 1] \in X /\ run[k + 1] = Append(run[k], list[k + 1])
      BY <1>2, <1>4, <2>1, <2>2, <2>4
    <3>2. ToSet(run[k + 1]) = Upto(k + 1)
      <4> HIDE DEF Upto
      <4>1. ToSet(Append(run[k], list[k + 1])) = ToSet(run[k]) \cup {list[k + 1]}
        BY <3>1, AppendFacts
      <4> QED BY <2>1, <2>3, <2>4, <3>1, <4>1
    <3>3. ASSUME IsInjective(list) PROVE IsInjective(run[k + 1])
      <4>1. \A j \in 1 .. k : j \in DOMAIN list /\ k + 1 \in DOMAIN list /\ j # k + 1
        BY <1>2, <2>1
      <4>2. list[k + 1] \notin Upto(k)
        BY <3>3, <4>1 DEF IsInjective
      <4> HIDE DEF Upto
      <4>3. IsInjective(run[k]) /\ list[k + 1] \notin ToSet(run[k])
        BY <2>1, <3>3, <4>2
      <4>4. IsInjective(Append(run[k], list[k + 1]))
        BY <3>1, <4>3, AppendFacts
      <4> QED BY <3>1, <4>4
    <3>4. ASSUME (\A i \in 1 .. n : kept[i]) PROVE Len(run[k + 1]) = k + 1
      <4>1. Len(run[k]) = k
        BY <2>1, <3>4
      <4> QED BY <3>1, <4>1
    <3> HIDE DEF Upto
    <3> QED BY <3>2, <3>3, <3>4
  <2>5. CASE ~kept[k + 1]
    <3> HIDE DEF Upto
    <3>1. ~(\A i \in 1 .. n : kept[i])
      BY <2>1, <2>5
    <3> QED BY <2>1, <2>2, <2>3, <2>5, <3>1
  <2> QED BY <2>4, <2>5
<1>7. A = Nat
  <2>1. A \in SUBSET Nat
    OBVIOUS
  <2> HIDE DEF A
  <2> QED BY <1>5, <1>6, <2>1, NatSetInduction
<1>8. Good(n) /\ run[n] \in Seq(X)
  <2> HIDE DEF Good
  <2>1. n \in Nat /\ n <= n /\ n \in 0 .. n
    BY <1>2
  <2>2. n \in A
    BY <1>7, <2>1
  <2> QED BY <1>4, <2>1, <2>2
<1> QED BY <1>1, <1>8 DEF n
=============================================================================
