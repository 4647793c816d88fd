----------------------------- MODULE BENProofs -----------------------------
(***************************************************************************)
(* What BEN reports, for every number of parameters, every fault set and   *)
(* every strength.  Without any assumption on the covering arrays, conduct *)
(* misses nothing that the failing test cases show.  With tables that do   *)
(* cover (TablesCover, which TLC evaluates for the tables of four          *)
(* parameters) every fault is shown and reported, and the comparison of    *)
(* sizes at which the loop stops is one of sets.                           *)
(***************************************************************************)
EXTENDS BEN, CommonProofs

(***************************************************************************)
(* Combinations and their sizes.                                           *)
(***************************************************************************)

\* There are finitely many combinations.
LEMMA CombFinite == IsFiniteSet(Comb)
<1> DEFINE Pairs == (SUBSET Params) \X (SUBSET Params)
           f == [comb \in Comb |-> <<{i \in Params : comb[i] = 0},
                                     {i \in Params : comb[i] = 1}>>]
<1>1. IsFiniteSet(Pairs)
  BY ParamsFinite, FS_SUBSET, FS_Product
<1>2. f \in [Comb -> Pairs]
  OBVIOUS
<1>3. ASSUME NEW a \in Comb, NEW b \in Comb, f[a] = f[b] PROVE a = b
  <2>1. /\ {i \in Params : a[i] = 0} = {i \in Params : b[i] = 0}
        /\ {i \in Params : a[i] = 1} = {i \in Params : b[i] = 1}
    BY <1>3
  <2>2. \A i \in Params : a[i] = b[i]
    BY <2>1 DEF Comb, UNKNOWN
  <2> QED BY <2>2 DEF Comb
<1> HIDE DEF f, Pairs
<1>4. f \in Injection(Comb, Pairs)
  BY <1>2, <1>3 DEF Injection, IsInjective
<1> QED BY <1>1, <1>4, FS_Injection

\* A schema has between 0 and N parameters.
LEMMA SchemaSize ==
    ASSUME NEW s \in SUBSET Params
    PROVE  IsFiniteSet(s) /\ Cardinality(s) \in Nat /\ Cardinality(s) <= N
<1>1. IsFiniteSet(s) /\ Cardinality(s) <= N
  BY ParamsFinite, FS_Subset
<1> QED BY <1>1, FS_CardinalityType

\* A schema can be extended to any size up to N.
LEMMA WiderSchema ==
    ASSUME NEW r \in SUBSET Params, NEW k \in Nat, Cardinality(r) <= k, k <= N
    PROVE  \E s \in SUBSET Params : r \subseteq s /\ Cardinality(s) = k
<1> DEFINE c == Cardinality(r)
           Wider(d) == \E s \in SUBSET Params : r \subseteq s /\ Cardinality(s) = c + d
           A == {d \in Nat : c + d <= N => Wider(d)}
<1>1. c \in Nat /\ N \in Nat
  BY SchemaSize, NAssumption
<1>2. 0 \in A
  <2>1. c + 0 = c
    BY <1>1
  <2> QED BY <2>1
<1>3. ASSUME NEW d \in A PROVE d + 1 \in A
  <2> SUFFICES ASSUME c + (d + 1) <= N PROVE Wider(d + 1)
    OBVIOUS
  <2>1. d \in Nat /\ (c + d <= N => Wider(d))
    OBVIOUS
  <2>2. c + d < N
    <3> HIDE DEF Wider, c, A
    <3> QED BY <1>1, <2>1
  <2>3. PICK s \in SUBSET Params : r \subseteq s /\ Cardinality(s) = c + d
    <3> HIDE DEF c, A
    <3> QED BY <1>1, <2>1, <2>2
  <2>4. s # Params
    <3>1. Cardinality(Params) = N
      BY ParamsFinite
    <3> HIDE DEF Wider, c, A
    <3> QED BY <1>1, <2>1, <2>2, <2>3, <3>1
  <2>5. PICK i \in Params : i \notin s
    BY <2>4
  <2>6. Cardinality(s \cup {i}) = Cardinality(s) + 1
    BY <2>5, SchemaSize, FS_AddElement
  <2>7. Cardinality(s \cup {i}) = c + (d + 1)
    <3> HIDE DEF Wider, c, A
    <3> QED BY <1>1, <2>1, <2>3, <2>6
  <2>8. s \cup {i} \in SUBSET Params /\ r \subseteq s \cup {i}
    BY <2>3
  <2> QED BY <2>7, <2>8
<1>4. A = Nat
  <2>1. A \in SUBSET Nat
    OBVIOUS
  <2> HIDE DEF A
  <2> QED BY <1>2, <1>3, <2>1, NatSetInduction
<1>5. k - c \in Nat /\ c + (k - c) = k /\ c + (k - c) <= N
  <2> HIDE DEF Wider, A
  <2> QED BY <1>1
<1>6. Wider(k - c)
  <2> HIDE DEF Wider
  <2> QED BY <1>4, <1>5
<1> QED BY <1>5, <1>6

\* The combinations of a test case that fix k parameters.
LEMMA tWayCombMember ==
    ASSUME NEW testcase \in Testcase, NEW k, NEW comb
    PROVE  comb \in tWayComb(testcase, k)
               <=> /\ comb \in Comb /\ contains(testcase, comb)
                   /\ Cardinality(schemaOf(comb)) = k
<1>1. ASSUME comb \in tWayComb(testcase, k)
      PROVE  /\ comb \in Comb /\ contains(testcase, comb)
             /\ Cardinality(schemaOf(comb)) = k
  <2>1. PICK s \in SUBSET Params : Cardinality(s) = k /\ comb = getComb(s, testcase)
    BY <1>1 DEF tWayComb
  <2>2. comb \in Comb
    BY <2>1, getCombType
  <2>3. schemaOf(comb) = s /\ contains(testcase, comb)
    BY <2>1 DEF schemaOf, getComb, contains, Testcase, UNKNOWN
  <2> QED BY <2>1, <2>2, <2>3
<1>2. ASSUME comb \in Comb, contains(testcase, comb), Cardinality(schemaOf(comb)) = k
      PROVE  comb \in tWayComb(testcase, k)
  <2>1. getComb(schemaOf(comb), testcase) = comb
    BY <1>2, CombOfSchema
  <2>2. schemaOf(comb) \in SUBSET Params
    BY DEF schemaOf
  <2> QED BY <1>2, <2>1, <2>2 DEF tWayComb
<1> QED BY <1>1, <1>2

\* The largest size of a failure-causing combination.
LEMMA max_mfsFacts ==
    ASSUME NEW M \in MFSSets
    PROVE  /\ max_mfs(M) \in 1 .. N
           /\ \A mf \in M : Cardinality(schemaOf(mf)) <= max_mfs(M)
<1> DEFINE size(mf) == Cardinality(schemaOf(mf))
           Largest(k) == (\E mf \in M : size(mf) = k) /\ (\A mf \in M : size(mf) <= k)
           slack == {N - size(mf) : mf \in M}
<1>1. M \subseteq Comb /\ M # {} /\ \A mf \in M : schemaOf(mf) # {}
  BY MFSSetsAssumption DEF Irredundant
<1>2. N \in Nat /\ \A mf \in M : size(mf) \in Nat /\ size(mf) <= N
  <2>1. \A mf \in M : schemaOf(mf) \in SUBSET Params
    BY DEF schemaOf
  <2> QED BY <2>1, SchemaSize, NAssumption
<1>3. \A mf \in M : size(mf) # 0
  <2>1. \A mf \in M : schemaOf(mf) \in SUBSET Params
    BY DEF schemaOf
  <2> QED BY <1>1, <2>1, SchemaSize, FS_EmptySet
<1> HIDE DEF size
<1>4. PICK k \in 0 .. N : Largest(k)
  <2> DEFINE R == OpToRel(<, Nat)
  <2>1. IsWellFoundedOn(R, Nat)
    BY NatLessThanWellFounded
  <2>2. \A m, n \in Nat : m < n => <<m, n>> \in R
    BY DEF OpToRel
  <2> HIDE DEF R
  <2>3. slack \subseteq Nat /\ slack # {}
    BY <1>1, <1>2
  <2>4. PICK least \in slack : \A m \in slack : ~(<<m, least>> \in R)
    <3> HIDE DEF slack
    <3> QED BY <2>1, <2>3, WFMin
  <2>5. PICK mf \in M : least = N - size(mf)
    BY <2>4
  <2>6. \A other \in M : ~(N - size(other) < N - size(mf))
    BY <2>2, <2>3, <2>4, <2>5
  <2>7. \A other \in M : size(other) <= size(mf)
    BY <1>2, <2>6
  <2>8. size(mf) \in 0 .. N
    BY <1>2
  <2> QED BY <2>5, <2>7, <2>8
<1>5. max_mfs(M) = CHOOSE j \in 0 .. N : Largest(j)
  BY DEF max_mfs, size
<1>6. max_mfs(M) \in 0 .. N /\ Largest(max_mfs(M))
  <2> HIDE DEF Largest
  <2> QED BY <1>4, <1>5, Zenon
<1> QED BY <1>2, <1>3, <1>6 DEF size

-----------------------------------------------------------------------------
(***************************************************************************)
(* The lists of test cases.                                                *)
(***************************************************************************)

\* Two lists put together.
LEMMA ConcatFacts ==
    ASSUME NEW X, NEW a \in Seq(X), NEW b \in Seq(X)
    PROVE  /\ a \o b \in Seq(X)
           /\ ToSet(a \o b) = ToSet(a) \cup ToSet(b)
<1> DEFINE m == Len(a)
           n == Len(b)
           c == a \o b
<1>1. /\ m \in Nat /\ n \in Nat /\ c \in Seq(X) /\ Len(c) = m + n
      /\ \A k \in 1 .. m + n : c[k] = IF k <= m THEN a[k] ELSE b[k - m]
  OBVIOUS
<1>2. \A x : x \in ToSet(a) <=> \E k \in 1 .. m : a[k] = x
  BY ToSetMember
<1>3. \A x : x \in ToSet(b) <=> \E k \in 1 .. n : b[k] = x
  BY ToSetMember
<1>4. \A x : x \in ToSet(c) <=> \E k \in 1 .. m + n : c[k] = x
  <2> HIDE DEF c
  <2> QED BY <1>1, ToSetMember
<1> HIDE DEF m, n, c
<1>5. ASSUME NEW x \in ToSet(c) PROVE x \in ToSet(a) \cup ToSet(b)
  <2>1. PICK k \in 1 .. m + n : c[k] = x
    BY <1>4
  <2>2. CASE k <= m
    <3>1. k \in 1 .. m /\ a[k] = x
      BY <1>1, <2>1, <2>2
    <3> QED BY <1>2, <3>1
  <2>3. CASE ~(k <= m)
    <3>1. k - m \in 1 .. n /\ b[k - m] = x
      BY <1>1, <2>1, <2>3
    <3> QED BY <1>3, <3>1
  <2> QED BY <2>2, <2>3
<1>6. ASSUME NEW x \in ToSet(a) PROVE x \in ToSet(c)
  <2>1. PICK k \in 1 .. m : a[k] = x
    BY <1>2
  <2>2. k \in 1 .. m + n /\ c[k] = x
    BY <1>1, <2>1
  <2> QED BY <1>4, <2>2
<1>7. ASSUME NEW x \in ToSet(b) PROVE x \in ToSet(c)
  <2>1. PICK k \in 1 .. n : b[k] = x
    BY <1>3
  <2>2. k + m \in 1 .. m + n /\ ~(k + m <= m) /\ (k + m) - m = k
    BY <1>1
  <2>3. c[k + m] = x
    BY <1>1, <2>1, <2>2
  <2> QED BY <1>4, <2>2, <2>3
<1>8. ToSet(c) = ToSet(a) \cup ToSet(b)
  BY <1>5, <1>6, <1>7
<1> QED BY <1>1, <1>8 DEF c

\* AllTestcases is a list of test cases.  (Its length is a power of two, which
\* is only known to be an integer here.)
LEMMA AllTestcasesType == AllTestcases \in Seq(Testcase)
<1> DEFINE power == 2 ^ N
           row(k) == [i \in Params |-> IF ((k - 1) \div 2 ^ i) % 2 = 0 THEN 0 ELSE 1]
<1>1. \A k : row(k) \in Testcase
  BY DEF Testcase
<1>2. AllTestcases = [k \in 1 .. power |-> row(k)]
  BY DEF AllTestcases
<1>3. power \in Int
  BY NAssumption
<1> HIDE DEF power, row
<1>4. CASE power \in Nat
  BY <1>1, <1>2, <1>4
<1>5. CASE power \notin Nat
  <2>1. 1 .. power = {} /\ 1 .. 0 = {}
    BY <1>3, <1>5
  <2>2. AllTestcases = [k \in 1 .. 0 |-> row(k)]
    BY <1>2, <2>1
  <2> QED BY <1>1, <2>2
<1> QED BY <1>4, <1>5

\* The list of a set has none but its elements.
LEMMA ListOfFacts ==
    ASSUME NEW set
    PROVE  ListOf(set) \in Seq(Testcase) /\ ToSet(ListOf(set)) \subseteq set
<1> DEFINE all == AllTestcases
           kept == [k \in DOMAIN all |-> all[k] \in set]
<1>1. all \in Seq(Testcase)
  BY AllTestcasesType
<1>2. ListOf(set) = Select(all, kept)
  BY DEF ListOf
<1> HIDE DEF all
<1>3. DOMAIN all = 1 .. Len(all)
  BY <1>1
<1>4. /\ kept \in [1 .. Len(all) -> BOOLEAN]
      /\ \A k \in 1 .. Len(all) : kept[k] <=> all[k] \in set
  <2> DEFINE In(k) == all[k] \in set
  <2>1. \A k : In(k) \in BOOLEAN
    OBVIOUS
  <2>2. kept = [k \in 1 .. Len(all) |-> In(k)]
    BY <1>3, Zenon
  <2> HIDE DEF In, kept
  <2>3. kept \in [1 .. Len(all) -> BOOLEAN]
    BY <2>1, <2>2
  <2>4. \A k \in 1 .. Len(all) : kept[k] = In(k)
    BY <2>2, Zenon
  <2> QED BY <2>3, <2>4, Zenon DEF In
<1> HIDE DEF kept
<1>5. /\ Select(all, kept) \in Seq(Testcase)
      /\ ToSet(Select(all, kept)) = {all[k] : k \in {j \in 1 .. Len(all) : kept[j]}}
  BY <1>1, <1>4, SelectFacts
<1>6. {all[k] : k \in {j \in 1 .. Len(all) : kept[j]}} \subseteq set
  BY <1>4
<1> QED BY <1>2, <1>5, <1>6

\* The rows of a covering array are test cases.
LEMMA testcasesType ==
    ASSUME NEW k \in 1 .. N
    PROVE  testcases(k) \in Seq(Testcase)
<1>1. N \in Nat
  BY NAssumption
<1>2. CASE k >= 2
  <2>1. k \in 2 .. N
    BY <1>1, <1>2
  <2>2. tables[k] \in Seq(Comb)
    BY <2>1, TablesAssumption
  <2> DEFINE rows == tables[k]
             row(r) == [i \in Params |-> IF rows[r][i] = UNKNOWN THEN 0 ELSE rows[r][i]]
  <2> HIDE DEF rows
  <2>3. \A r \in 1 .. Len(rows) : row(r) \in Testcase
    BY <2>2 DEF Comb, Testcase, rows
  <2>4. testcases(k) = [r \in 1 .. Len(rows) |-> row(r)]
    BY <1>2 DEF testcases, multiwayCA, ReadRows, rows
  <2>5. Len(rows) \in Nat
    BY <2>2 DEF rows
  <2> HIDE DEF row
  <2> QED BY <2>3, <2>4, <2>5
<1>3. CASE ~(k >= 2)
  <2>1. testcases(k) = oneWayCA
    BY <1>3 DEF testcases
  <2>2. [i \in Params |-> 0] \in Testcase /\ [i \in Params |-> 1] \in Testcase
    BY DEF Testcase
  <2> QED BY <2>1, <2>2 DEF oneWayCA
<1> QED BY <1>2, <1>3

\* The constructor splits the rows into those that pass and those that fail.
LEMMA LocalizationFacts ==
    ASSUME LocalizationInit
    PROVE  /\ MFS \in MFSSets /\ t \in 1 .. N
           /\ Tpass \in Seq(Testcase) /\ Tfail \in Seq(Testcase)
           /\ \A testcase \in ToSet(Tpass) : check(testcase, MFS)
           /\ ToSet(testcases(t)) \subseteq ToSet(Tpass) \cup ToSet(Tfail)
<1> DEFINE all == testcases(t)
           pass == [k \in DOMAIN all |-> check(all[k], MFS)]
           fail == [k \in DOMAIN all |-> ~check(all[k], MFS)]
<1>1. /\ MFS \in MFSSets /\ t \in 1 .. max_mfs(MFS)
      /\ Tpass = Select(all, pass) /\ Tfail = Select(all, fail)
  BY DEF LocalizationInit
<1>2. t \in 1 .. N
  <2>1. max_mfs(MFS) \in 1 .. N
    BY <1>1, max_mfsFacts
  <2>2. N \in Nat
    BY NAssumption
  <2> QED BY <1>1, <2>1, <2>2
<1>3. all \in Seq(Testcase)
  BY <1>2, testcasesType
<1> HIDE DEF all
<1>4. DOMAIN all = 1 .. Len(all)
  BY <1>3
<1>5. /\ pass \in [1 .. Len(all) -> BOOLEAN] /\ fail \in [1 .. Len(all) -> BOOLEAN]
      /\ \A k \in 1 .. Len(all) : pass[k] <=> check(all[k], MFS)
      /\ \A k \in 1 .. Len(all) : fail[k] <=> ~check(all[k], MFS)
  BY <1>4 DEF check
<1> HIDE DEF pass, fail
<1>6. /\ Tpass \in Seq(Testcase)
      /\ ToSet(Tpass) = {all[k] : k \in {j \in 1 .. Len(all) : pass[j]}}
  BY <1>1, <1>3, <1>5, SelectFacts
<1>7. /\ Tfail \in Seq(Testcase)
      /\ ToSet(Tfail) = {all[k] : k \in {j \in 1 .. Len(all) : fail[j]}}
  BY <1>1, <1>3, <1>5, SelectFacts
<1>8. \A testcase \in ToSet(Tpass) : check(testcase, MFS)
  BY <1>5, <1>6
<1>9. \A x \in ToSet(all) : x \in ToSet(Tpass) \/ x \in ToSet(Tfail)
  <2>1. \A x : x \in ToSet(all) <=> \E k \in 1 .. Len(all) : all[k] = x
    BY <1>3, ToSetMember
  <2> QED BY <1>5, <1>6, <1>7, <2>1
<1> QED BY <1>1, <1>2, <1>6, <1>7, <1>8, <1>9 DEF all

-----------------------------------------------------------------------------
(***************************************************************************)
(* The suspicious combinations.                                            *)
(***************************************************************************)

\* The combinations of k parameters that a test case of fail contains and none
\* of pass.
SuspiciousIn(pass, fail, k) ==
    {comb \in Comb :
        /\ Cardinality(schemaOf(comb)) = k
        /\ \E testcase \in fail : contains(testcase, comb)
        /\ \A testcase \in pass : ~contains(testcase, comb)}

\* They are what getAllSuspiciousCombinations returns.
LEMMA SuspiciousFacts ==
    ASSUME Tpass \in Seq(Testcase), Tfail \in Seq(Testcase)
    PROVE  getAllSuspiciousCombinations = SuspiciousIn(ToSet(Tpass), ToSet(Tfail), t)
<1> DEFINE pass == {Tpass[k] : k \in 1 .. Len(Tpass)}
           fail == {Tfail[k] : k \in 1 .. Len(Tfail)}
           ways == UNION {tWayComb(testcase, t) : testcase \in fail}
<1>1. pass = ToSet(Tpass) /\ fail = ToSet(Tfail)
  BY DEF ToSet
<1>2. fail \subseteq Testcase
  OBVIOUS
<1>3. getAllSuspiciousCombinations
          = {comb \in ways : ~ \E testcase \in pass : contains(testcase, comb)}
  BY DEF getAllSuspiciousCombinations, isCurrentlyHealthy
<1>4. \A comb : comb \in ways <=> \E testcase \in fail : comb \in tWayComb(testcase, t)
  OBVIOUS
<1> HIDE DEF pass, fail, ways
<1>5. \A comb : comb \in ways <=>
          /\ comb \in Comb /\ Cardinality(schemaOf(comb)) = t
          /\ \E testcase \in fail : contains(testcase, comb)
  BY <1>2, <1>4, tWayCombMember
<1>6. \A comb : comb \in getAllSuspiciousCombinations
                    <=> comb \in SuspiciousIn(pass, fail, t)
  BY <1>3, <1>5 DEF SuspiciousIn
<1> QED BY <1>1, <1>6

\* A failure-causing combination of a failing test case is part of a suspicious
\* one, as long as no test case that passes contains it.
LEMMA PartOfSuspicious ==
    ASSUME NEW pass, NEW fail \in SUBSET Testcase, NEW k \in 1 .. N,
           NEW mf \in Comb, Cardinality(schemaOf(mf)) <= k,
           \A testcase \in pass : ~contains(testcase, mf),
           NEW shown \in fail, contains(shown, mf)
    PROVE  \E comb \in SuspiciousIn(pass, fail, k) : contains(comb, mf)
<1>1. schemaOf(mf) \in SUBSET Params /\ N \in Nat /\ k \in Nat /\ k <= N
  BY NAssumption DEF schemaOf
<1>2. PICK s \in SUBSET Params : schemaOf(mf) \subseteq s /\ Cardinality(s) = k
  BY <1>1, WiderSchema
<1> DEFINE comb == getComb(s, shown)
<1>3. comb \in tWayComb(shown, k)
  BY <1>2 DEF tWayComb
<1>4. comb \in Comb /\ contains(shown, comb) /\ Cardinality(schemaOf(comb)) = k
  BY <1>3, tWayCombMember
<1>5. contains(comb, mf)
  BY <1>2, PartContains
<1> HIDE DEF comb
<1>6. \A testcase \in pass : ~contains(testcase, comb)
  BY <1>5, ContainsTransitive
<1>7. comb \in SuspiciousIn(pass, fail, k)
  BY <1>4, <1>6 DEF SuspiciousIn
<1> QED BY <1>5, <1>7

\* The parts of a combination that it reports.
LEMMA smallerCombsFacts ==
    ASSUME NEW comb \in Comb
    PROVE  /\ smallerCombs(comb) \subseteq Comb
           /\ \A mf \in Comb : contains(comb, mf) /\ schemaOf(mf) # {}
                                   => mf \in smallerCombs(comb)
<1>1. \A s : getComb(s, comb) \in Comb
  BY DEF getComb, Comb
<1>2. ASSUME NEW mf \in Comb, contains(comb, mf), schemaOf(mf) # {}
      PROVE  mf \in smallerCombs(comb)
  <2>1. schemaOf(mf) \subseteq schemaOf(comb)
    BY <1>2, ContainsSchemas
  <2>2. \A i \in Params : getComb(schemaOf(mf), comb)[i] = mf[i]
    BY <1>2 DEF contains, schemaOf, getComb
  <2>3. getComb(schemaOf(mf), comb) = mf
    BY <2>2 DEF getComb, Comb
  <2> QED BY <1>2, <2>1, <2>3 DEF smallerCombs
<1> QED BY <1>1, <1>2 DEF smallerCombs

-----------------------------------------------------------------------------
(***************************************************************************)
(* What holds whatever the tables are.                                     *)
(***************************************************************************)

\* The real failure-causing combinations that a list of failing test cases
\* shows.
LEMMA MFSInTfailMember ==
    ASSUME Tfail \in Seq(Testcase)
    PROVE  \A mf : mf \in MFSInTfail
                       <=> mf \in MFS /\ \E testcase \in ToSet(Tfail) : contains(testcase, mf)
<1>1. \A x : x \in ToSet(Tfail) <=> \E k \in 1 .. Len(Tfail) : Tfail[k] = x
  BY ToSetMember
<1>2. \A mf : mf \in MFSInTfail
                  <=> \E k \in 1 .. Len(Tfail) : mf \in MFS /\ contains(Tfail[k], mf)
  BY DEF MFSInTfail, MFSIn
<1> QED BY <1>1, <1>2

\* The inductive invariant.
BenInv ==
    /\ TypeOK
    /\ MFS \in MFSSets
    /\ \A testcase \in ToSet(Tpass) : check(testcase, MFS)
    /\ pc \in {"decide", "generate"} =>
          suspiciousCombs = SuspiciousIn(ToSet(Tpass), ToSet(Tfail), t)
    /\ pc = "idle" /\ conducted => ReportsWhatIsShown

\* The constructors leave it.
LEMMA BenInvInit ==
    ASSUME Init
    PROVE  BenInv
<1>1. /\ MFS \in MFSSets /\ t \in 1 .. N
      /\ Tpass \in Seq(Testcase) /\ Tfail \in Seq(Testcase)
      /\ \A testcase \in ToSet(Tpass) : check(testcase, MFS)
  BY LocalizationFacts DEF Init
<1>2. MFS \subseteq Comb
  BY <1>1, MFSSetsAssumption
<1>3. /\ Constructed /\ pc \in {"thrown", "idle"}
      /\ suspiciousCombs = {} /\ suspiciousCombs_old = {} /\ firstRound = TRUE
      /\ environment = [i \in Params |-> {}] /\ resets = 0
  BY DEF Init, LocalizationInit
<1>4. 0 \in 0 .. MaxResets
  BY MaxResetsAssumption
<1>5. TypeOK
  BY <1>1, <1>2, <1>3, <1>4 DEF TypeOK, ResolverTypeOK, Constructed
<1>6. ~conducted /\ pc \notin {"decide", "generate"}
  BY <1>3 DEF Constructed
<1> QED BY <1>1, <1>5, <1>6 DEF BenInv

\* The test cases of a round.
LEMMA generateType ==
    ASSUME suspiciousCombs \subseteq Comb, NEW value \in Testcase
    PROVE  generateNewTestcases(value) \subseteq Testcase
<1>1. \A comb \in Comb :
          [i \in Params |-> IF comb[i] # UNKNOWN THEN comb[i] ELSE value[i]] \in Testcase
  BY DEF Comb, Testcase
<1> QED BY <1>1 DEF generateNewTestcases

\* A round adds test cases: those that pass to Tpass, and those that fail to
\* Tfail.
LEMMA RoundFacts ==
    ASSUME BenInv, RunNewTestcases
    PROVE  /\ Tpass' \in Seq(Testcase) /\ Tfail' \in Seq(Testcase)
           /\ executedTestcase' \subseteq Testcase
           /\ ToSet(Tpass) \subseteq ToSet(Tpass') /\ ToSet(Tfail) \subseteq ToSet(Tfail')
           /\ \A testcase \in ToSet(Tpass') : check(testcase, MFS)
<1> DEFINE Made(value) == generateNewTestcases(value)
           Passing(value) == {testcase \in Made(value) : check(testcase, MFS)}
<1>1. PICK value \in Testcase :
          /\ executedTestcase' = executedTestcase \cup Made(value)
          /\ Tpass' = Tpass \o ListOf(Passing(value))
          /\ Tfail' = Tfail \o ListOf(Made(value) \ Passing(value))
  <2>1. PICK value \in {v \in Testcase : \A i \in Params : v[i] \in environment[i]} :
            /\ executedTestcase' = executedTestcase \cup Made(value)
            /\ Tpass' = Tpass \o ListOf(Passing(value))
            /\ Tfail' = Tfail \o ListOf(Made(value) \ Passing(value))
    BY DEF RunNewTestcases
  <2> HIDE DEF Made, Passing
  <2>2. value \in Testcase
    OBVIOUS
  <2> QED BY <2>1, <2>2
<1> DEFINE new == Made(value)
           ok  == Passing(value)
           nok == new \ ok
<1>2. /\ executedTestcase' = executedTestcase \cup new
      /\ Tpass' = Tpass \o ListOf(ok) /\ Tfail' = Tfail \o ListOf(nok)
  BY <1>1
<1>3. /\ Tpass \in Seq(Testcase) /\ Tfail \in Seq(Testcase)
      /\ executedTestcase \subseteq Testcase /\ suspiciousCombs \subseteq Comb
      /\ \A testcase \in ToSet(Tpass) : check(testcase, MFS)
  BY DEF BenInv, TypeOK, ResolverTypeOK
<1>4. new \subseteq Testcase
  BY <1>3, generateType
<1>5. \A testcase \in ok : check(testcase, MFS)
  OBVIOUS
<1> HIDE DEF new, ok, nok
<1>6. /\ ListOf(ok) \in Seq(Testcase) /\ ToSet(ListOf(ok)) \subseteq ok
      /\ ListOf(nok) \in Seq(Testcase)
  BY ListOfFacts
<1>7. /\ Tpass' \in Seq(Testcase)
      /\ ToSet(Tpass') = ToSet(Tpass) \cup ToSet(ListOf(ok))
  BY <1>2, <1>3, <1>6, ConcatFacts
<1>8. /\ Tfail' \in Seq(Testcase)
      /\ ToSet(Tfail') = ToSet(Tfail) \cup ToSet(ListOf(nok))
  BY <1>2, <1>3, <1>6, ConcatFacts
<1> QED BY <1>2, <1>3, <1>4, <1>5, <1>6, <1>7, <1>8

\* When conduct stops at its suspicious combinations, it has reported what the
\* failing test cases show.
LEMMA SuspiciousAreReported ==
    ASSUME BenInv, pc = "decide", NEW reported,
           \A comb \in suspiciousCombs : smallerCombs(comb) \subseteq reported
    PROVE  \A mf \in MFSInTfail : Cardinality(schemaOf(mf)) <= t => mf \in reported
<1> DEFINE pass == ToSet(Tpass)
           fail == ToSet(Tfail)
<1>1. /\ Tpass \in Seq(Testcase) /\ Tfail \in Seq(Testcase) /\ t \in 1 .. N
      /\ MFS \in MFSSets /\ \A testcase \in pass : check(testcase, MFS)
      /\ suspiciousCombs = SuspiciousIn(pass, fail, t) /\ suspiciousCombs \subseteq Comb
  BY DEF BenInv, TypeOK, ResolverTypeOK
<1>2. fail \in SUBSET Testcase
  BY <1>1, ToSetMember
<1>3. MFS \subseteq Comb /\ \A mf \in MFS : schemaOf(mf) # {}
  BY <1>1, MFSSetsAssumption DEF Irredundant
<1> HIDE DEF pass, fail
<1>4. ASSUME NEW mf \in MFSInTfail, Cardinality(schemaOf(mf)) <= t
      PROVE  mf \in reported
  <2>1. mf \in MFS /\ \E testcase \in fail : contains(testcase, mf)
    BY <1>1, MFSInTfailMember DEF fail
  <2>2. PICK shown \in fail : contains(shown, mf)
    BY <2>1
  <2>3. \A testcase \in pass : ~contains(testcase, mf)
    BY <1>1, <2>1 DEF check
  <2>4. mf \in Comb /\ schemaOf(mf) # {}
    BY <1>3, <2>1
  <2>5. PICK comb \in SuspiciousIn(pass, fail, t) : contains(comb, mf)
    BY <1>1, <1>2, <1>4, <2>2, <2>3, <2>4, PartOfSuspicious
  <2>6. comb \in suspiciousCombs /\ comb \in Comb
    BY <1>1, <2>5
  <2>7. mf \in smallerCombs(comb)
    BY <2>4, <2>5, <2>6, smallerCombsFacts
  <2> QED BY <2>6, <2>7
<1> QED BY <1>4

\* Every step keeps the invariant.
LEMMA BenInvStep ==
    ASSUME BenInv, [Next]_vars
    PROVE  BenInv'
<1> USE DEF resolverVars, localizationVars, loopVars, inputs, records
<1>1. CASE Conduct
  <2>1. TypeOK'
    BY <1>1 DEF BenInv, TypeOK, ResolverTypeOK, Conduct
  <2> QED BY <1>1, <2>1 DEF BenInv, Conduct
<1>2. CASE Reset
  <2>1. resets' \in 0 .. MaxResets
    <3>1. resets \in 0 .. MaxResets /\ resets < MaxResets /\ resets' = resets + 1
      BY <1>2 DEF BenInv, TypeOK, Reset
    <3> QED BY <3>1, MaxResetsAssumption
  <2>2. TypeOK'
    BY <1>2, <2>1 DEF BenInv, TypeOK, ResolverTypeOK, Reset, ResolverReset
  <2> QED BY <1>2, <2>2 DEF BenInv, Reset, ResolverReset
<1>3. CASE Suspect
  <2>1. Tpass \in Seq(Testcase) /\ Tfail \in Seq(Testcase)
    BY DEF BenInv, TypeOK, ResolverTypeOK
  <2>2. suspiciousCombs' = SuspiciousIn(ToSet(Tpass), ToSet(Tfail), t)
    BY <1>3, <2>1, SuspiciousFacts DEF Suspect
  <2>3. suspiciousCombs' \subseteq Comb
    BY <2>2 DEF SuspiciousIn
  <2>4. TypeOK'
    BY <1>3, <2>3 DEF BenInv, TypeOK, ResolverTypeOK, Suspect
  <2> QED BY <1>3, <2>2, <2>4 DEF BenInv, Suspect
<1>4. CASE IdentifiedNothing
  <2>1. TypeOK'
    BY <1>4 DEF BenInv, TypeOK, ResolverTypeOK, IdentifiedNothing
  <2>2. \A mf \in MFSInTfail : Cardinality(schemaOf(mf)) <= t => mf \in MFC_identified
    BY <1>4, SuspiciousAreReported DEF IdentifiedNothing
  <2>3. ReportsWhatIsShown'
    BY <1>4, <2>2 DEF IdentifiedNothing, ReportsWhatIsShown, MFSInTfail, MFSIn
  <2> QED BY <1>4, <2>1, <2>3 DEF BenInv, IdentifiedNothing
<1>5. CASE DeriveMFC
  <2>1. /\ MFC_identified' = MFC_identified
               \cup UNION {smallerCombs(comb) : comb \in suspiciousCombs}
        /\ MFC_identified \subseteq Comb /\ suspiciousCombs \subseteq Comb
    BY <1>5 DEF BenInv, TypeOK, ResolverTypeOK, DeriveMFC
  <2>2. MFC_identified' \subseteq Comb
    BY <2>1, smallerCombsFacts
  <2>3. TypeOK'
    BY <1>5, <2>2 DEF BenInv, TypeOK, ResolverTypeOK, DeriveMFC
  <2>4. \A comb \in suspiciousCombs : smallerCombs(comb) \subseteq MFC_identified'
    BY <2>1
  <2>5. \A mf \in MFSInTfail : Cardinality(schemaOf(mf)) <= t => mf \in MFC_identified'
    <3> DEFINE reported == MFC_identified'
    <3>1. \A comb \in suspiciousCombs : smallerCombs(comb) \subseteq reported
      BY <2>4
    <3> HIDE DEF reported
    <3>2. \A mf \in MFSInTfail : Cardinality(schemaOf(mf)) <= t => mf \in reported
      BY <1>5, <3>1, SuspiciousAreReported DEF DeriveMFC
    <3> QED BY <3>2 DEF reported
  <2>6. ReportsWhatIsShown'
    BY <1>5, <2>5 DEF DeriveMFC, ReportsWhatIsShown, MFSInTfail, MFSIn
  <2> QED BY <1>5, <2>3, <2>6 DEF BenInv, DeriveMFC
<1>6. CASE ComputeSuspiciousness
  <2>1. environment' \in [Params -> SUBSET {0, 1}]
    <3>1. \A i \in Params : LessSuspicious(i) \in SUBSET {0, 1}
      BY DEF LessSuspicious
    <3> QED BY <1>6, <3>1 DEF ComputeSuspiciousness
  <2>2. TypeOK'
    BY <1>6, <2>1 DEF BenInv, TypeOK, ResolverTypeOK, ComputeSuspiciousness
  <2> QED BY <1>6, <2>2 DEF BenInv, ComputeSuspiciousness
<1>7. CASE RunNewTestcases
  <2>1. /\ Tpass' \in Seq(Testcase) /\ Tfail' \in Seq(Testcase)
        /\ executedTestcase' \subseteq Testcase
        /\ \A testcase \in ToSet(Tpass') : check(testcase, MFS)
    BY <1>7, RoundFacts
  <2>2. /\ suspiciousCombs_old' = suspiciousCombs /\ firstRound' = FALSE
        /\ pc' = "suspect"
        /\ UNCHANGED <<MFS, t, conducted, MFC_identified, healthyCombs, faultyCombs,
                       suspiciousCombs, environment, resets>>
    BY <1>7 DEF RunNewTestcases
  <2>3. TypeOK'
    BY <2>1, <2>2 DEF BenInv, TypeOK, ResolverTypeOK
  <2> QED BY <2>1, <2>2, <2>3 DEF BenInv
<1>8. CASE UNCHANGED vars
  <2>1. ReportsWhatIsShown' <=> ReportsWhatIsShown
    BY <1>8 DEF vars, ReportsWhatIsShown, MFSInTfail, MFSIn
  <2>2. TypeOK'
    BY <1>8 DEF vars, BenInv, TypeOK, ResolverTypeOK
  <2> QED BY <1>8, <2>1, <2>2 DEF vars, BenInv
<1> QED BY <1>1, <1>2, <1>3, <1>4, <1>5, <1>6, <1>7, <1>8 DEF Next, Work

\* The invariant holds throughout, for every list of tables.
THEOREM BenInvHolds == Spec => []BenInv
<1>1. Init => BenInv
  BY BenInvInit
<1>2. BenInv /\ [Next]_vars => BenInv'
  BY BenInvStep
<1> QED BY <1>1, <1>2, PTL DEF Spec

\* The variables keep their types.
THEOREM TypeCorrect == Spec => []TypeOK
<1>1. BenInv => TypeOK
  BY DEF BenInv
<1> QED BY <1>1, BenInvHolds, PTL

\* What conduct returns is complete for the failing test cases it has, and for
\* the strength t, whatever rows the tables have.
THEOREM ReportIsComplete == Spec => [](pc = "idle" /\ conducted => ReportsWhatIsShown)
<1>1. BenInv => (pc = "idle" /\ conducted => ReportsWhatIsShown)
  BY DEF BenInv
<1> QED BY <1>1, BenInvHolds, PTL

-----------------------------------------------------------------------------
(***************************************************************************)
(* What holds when the tables are covering arrays.                         *)
(***************************************************************************)

\* Each combination of t parameters is part of a test case that was run.
Covered ==
    \A comb \in Comb : Cardinality(schemaOf(comb)) = t =>
        \E testcase \in ToSet(Tpass) \cup ToSet(Tfail) : contains(testcase, comb)

\* The rows of a strength cover the combinations of as many parameters.
LEMMA RowsCover ==
    ASSUME TablesCover, NEW k \in 1 .. N, NEW comb \in Comb,
           Cardinality(schemaOf(comb)) = k
    PROVE  \E testcase \in ToSet(testcases(k)) : contains(testcase, comb)
<1> DEFINE all == testcases(k)
<1>1. all \in Seq(Testcase) /\ N \in Nat
  BY testcasesType, NAssumption
<1>2. \A x : x \in ToSet(all) <=> \E r \in 1 .. Len(all) : all[r] = x
  <2> HIDE DEF all
  <2> QED BY <1>1, ToSetMember
<1> DEFINE covers == \E testcase \in ToSet(all) : contains(testcase, comb)
<1>3. ASSUME k >= 2 PROVE covers
  <2>1. k \in 2 .. N
    BY <1>1, <1>3
  <2>2. PICK r \in 1 .. Len(tables[k]) : contains(tables[k][r], comb)
    BY <2>1 DEF TablesCover
  <2>3. all = multiwayCA(k)
    BY <1>3 DEF testcases
  <2>4. Len(tables[k]) \in Nat /\ DOMAIN all = 1 .. Len(tables[k])
    <3>1. tables[k] \in Seq(Comb)
      BY <2>1, TablesAssumption
    <3> QED BY <2>3, <3>1 DEF multiwayCA, ReadRows
  <2>5. contains(all[r], comb)
    BY <2>2, <2>3 DEF multiwayCA, ReadRows, contains
  <2> HIDE DEF all
  <2>6. Len(all) = Len(tables[k])
    BY <1>1, <2>4
  <2> QED BY <1>2, <2>2, <2>5, <2>6
<1>4. ASSUME ~(k >= 2) PROVE covers
  <2>1. k = 1 /\ all = oneWayCA
    BY <1>1, <1>4 DEF testcases
  <2>2. IsFiniteSet(schemaOf(comb)) /\ Cardinality(schemaOf(comb)) = 1
    <3>1. schemaOf(comb) \in SUBSET Params
      BY DEF schemaOf
    <3> QED BY <2>1, <3>1, SchemaSize
  <2>3. PICK i : schemaOf(comb) = {i}
    BY <2>2, FS_Singleton
  <2>4. i \in Params /\ comb[i] \in {0, 1} /\ \A j \in Params : comb[j] # UNKNOWN => j = i
    BY <2>3 DEF schemaOf, Comb
  <2>5. Len(all) = 2 /\ all[1] = [j \in Params |-> 0] /\ all[2] = [j \in Params |-> 1]
    BY <2>1 DEF oneWayCA
  <2>6. all[1] \in ToSet(all) /\ all[2] \in ToSet(all)
    <3>1. 1 \in 1 .. Len(all) /\ 2 \in 1 .. Len(all)
      BY <2>5
    <3> HIDE DEF all
    <3> QED BY <1>2, <3>1
  <2> HIDE DEF all
  <2>7. CASE comb[i] = 0
    <3>1. contains(all[1], comb)
      BY <2>4, <2>5, <2>7 DEF contains
    <3> QED BY <2>6, <3>1
  <2>8. CASE comb[i] = 1
    <3>1. contains(all[2], comb)
      BY <2>4, <2>5, <2>8 DEF contains
    <3> QED BY <2>6, <3>1
  <2> QED BY <2>4, <2>7, <2>8
<1> QED BY <1>3, <1>4

\* Where every combination of t parameters was run, one that is not in a
\* failing test case is in a passing one: new test cases make no combination
\* suspicious.
LEMMA SuspiciousShrinks ==
    ASSUME NEW pass, NEW fail, NEW morePass, NEW moreFail, NEW k,
           pass \subseteq morePass,
           \A comb \in Comb : Cardinality(schemaOf(comb)) = k =>
               \E testcase \in pass \cup fail : contains(testcase, comb)
    PROVE  SuspiciousIn(morePass, moreFail, k) \subseteq SuspiciousIn(pass, fail, k)
BY DEF SuspiciousIn

\* The invariant, strengthened: the suspicious combinations of a round are among
\* those of the round before.
CoverInv ==
    /\ BenInv
    /\ Covered
    /\ pc = "suspect" /\ ~firstRound =>
          SuspiciousIn(ToSet(Tpass), ToSet(Tfail), t) \subseteq suspiciousCombs_old
    /\ pc = "decide" /\ ~firstRound => suspiciousCombs \subseteq suspiciousCombs_old
    /\ pc = "generate" /\ ~firstRound =>
          /\ suspiciousCombs \subseteq suspiciousCombs_old
          /\ Cardinality(suspiciousCombs) # Cardinality(suspiciousCombs_old)

\* The constructors leave it.
LEMMA CoverInvInit ==
    ASSUME TablesCover, Init
    PROVE  CoverInv
<1>1. BenInv
  BY BenInvInit
<1>2. t \in 1 .. N /\ ToSet(testcases(t)) \subseteq ToSet(Tpass) \cup ToSet(Tfail)
  BY LocalizationFacts DEF Init
<1>3. ASSUME NEW comb \in Comb, Cardinality(schemaOf(comb)) = t
      PROVE  \E testcase \in ToSet(Tpass) \cup ToSet(Tfail) : contains(testcase, comb)
  <2>1. \E testcase \in ToSet(testcases(t)) : contains(testcase, comb)
    BY <1>2, <1>3, RowsCover
  <2> QED BY <1>2, <2>1
<1>4. pc \notin {"suspect", "decide", "generate"}
  BY DEF Init
<1> QED BY <1>1, <1>3, <1>4 DEF CoverInv, Covered

\* Every step keeps it.
LEMMA CoverInvStep ==
    ASSUME CoverInv, [Next]_vars
    PROVE  CoverInv'
<1>1. BenInv /\ BenInv'
  BY BenInvStep DEF CoverInv
<1> USE DEF resolverVars, localizationVars, loopVars, inputs, records
<1>2. CASE Conduct
  BY <1>1, <1>2 DEF CoverInv, Covered, Conduct
<1>3. CASE Reset
  BY <1>1, <1>3 DEF CoverInv, Covered, Reset, ResolverReset
<1>4. CASE Suspect
  <2>1. Tpass \in Seq(Testcase) /\ Tfail \in Seq(Testcase)
    BY DEF CoverInv, BenInv, TypeOK, ResolverTypeOK
  <2>2. suspiciousCombs' = SuspiciousIn(ToSet(Tpass), ToSet(Tfail), t)
    BY <1>4, <2>1, SuspiciousFacts DEF Suspect
  <2> QED BY <1>1, <1>4, <2>2 DEF CoverInv, Covered, Suspect
<1>5. CASE IdentifiedNothing
  BY <1>1, <1>5 DEF CoverInv, Covered, IdentifiedNothing
<1>6. CASE DeriveMFC
  BY <1>1, <1>6 DEF CoverInv, Covered, DeriveMFC
<1>7. CASE ComputeSuspiciousness
  BY <1>1, <1>7 DEF CoverInv, Covered, ComputeSuspiciousness, Stable
<1>8. CASE RunNewTestcases
  <2>1. /\ pc = "generate" /\ pc' = "suspect" /\ t' = t
        /\ suspiciousCombs_old' = suspiciousCombs
    BY <1>8 DEF RunNewTestcases
  <2>2. ToSet(Tpass) \subseteq ToSet(Tpass') /\ ToSet(Tfail) \subseteq ToSet(Tfail')
    BY <1>1, <1>8, RoundFacts
  <2>3. Covered'
    BY <2>1, <2>2 DEF CoverInv, Covered
  <2>4. suspiciousCombs = SuspiciousIn(ToSet(Tpass), ToSet(Tfail), t)
    BY <1>1, <2>1 DEF BenInv
  <2>5. SuspiciousIn(ToSet(Tpass'), ToSet(Tfail'), t)
            \subseteq SuspiciousIn(ToSet(Tpass), ToSet(Tfail), t)
    BY <2>2, SuspiciousShrinks DEF CoverInv, Covered
  <2> QED BY <1>1, <2>1, <2>3, <2>4, <2>5 DEF CoverInv
<1>9. CASE UNCHANGED vars
  BY <1>1, <1>9 DEF CoverInv, Covered, vars
<1> QED BY <1>2, <1>3, <1>4, <1>5, <1>6, <1>7, <1>8, <1>9 DEF Next, Work

\* The strengthened invariant holds throughout.
THEOREM CoverInvHolds ==
    ASSUME TablesCover
    PROVE  Spec => []CoverInv
<1>1. Init => CoverInv
  BY CoverInvInit
<1>2. CoverInv /\ [Next]_vars => CoverInv'
  BY CoverInvStep
<1> QED BY <1>1, <1>2, PTL DEF Spec

\* A failure-causing combination of at most t parameters is part of a failing
\* test case.
LEMMA FaultIsShown ==
    ASSUME CoverInv, NEW mf \in MFS, Cardinality(schemaOf(mf)) <= t
    PROVE  mf \in MFSInTfail
<1>1. /\ Tfail \in Seq(Testcase) /\ t \in 1 .. N /\ MFS \in MFSSets
      /\ \A testcase \in ToSet(Tpass) : check(testcase, MFS)
  BY DEF CoverInv, BenInv, TypeOK, ResolverTypeOK
<1>2. mf \in Comb
  BY <1>1, MFSSetsAssumption
<1>3. schemaOf(mf) \in SUBSET Params /\ N \in Nat /\ t \in Nat /\ t <= N
  BY <1>1, NAssumption DEF schemaOf
<1>4. PICK s \in SUBSET Params : schemaOf(mf) \subseteq s /\ Cardinality(s) = t
  BY <1>3, WiderSchema
<1> DEFINE comb == [i \in Params |-> IF i \in s THEN IF mf[i] = UNKNOWN THEN 0 ELSE mf[i]
                                     ELSE UNKNOWN]
<1>5. comb \in Comb /\ schemaOf(comb) = s /\ contains(comb, mf)
  <2>1. comb \in Comb
    BY <1>2 DEF Comb
  <2>2. schemaOf(comb) = s
    BY <1>2 DEF Comb, schemaOf, UNKNOWN
  <2>3. contains(comb, mf)
    BY <1>2, <1>4 DEF contains, schemaOf
  <2> QED BY <2>1, <2>2, <2>3
<1> HIDE DEF comb
<1>6. PICK testcase \in ToSet(Tpass) \cup ToSet(Tfail) : contains(testcase, comb)
  BY <1>4, <1>5 DEF CoverInv, Covered
<1>7. contains(testcase, mf)
  BY <1>5, <1>6, ContainsTransitive
<1>8. testcase \in ToSet(Tfail)
  BY <1>1, <1>6, <1>7 DEF check
<1> QED BY <1>1, <1>7, <1>8, MFSInTfailMember

\* With covering arrays, every real failure-causing combination is shown by a
\* failing row when the strength is the largest of their sizes.
LEMMA AllAreShown ==
    ASSUME CoverInv
    PROVE  EveryFaultIsShown
<1> SUFFICES ASSUME t = max_mfs(MFS) PROVE MFS = MFSInTfail
  BY DEF EveryFaultIsShown
<1>1. Tfail \in Seq(Testcase) /\ MFS \in MFSSets
  BY DEF CoverInv, BenInv, TypeOK, ResolverTypeOK
<1>2. \A mf \in MFS : Cardinality(schemaOf(mf)) <= t
  BY <1>1, max_mfsFacts
<1>3. \A mf \in MFS : mf \in MFSInTfail
  BY <1>2, FaultIsShown
<1>4. \A mf \in MFSInTfail : mf \in MFS
  BY <1>1, MFSInTfailMember
<1> QED BY <1>3, <1>4

\* The arrays show every fault.
THEOREM FaultsAreShown ==
    ASSUME TablesCover
    PROVE  Spec => []EveryFaultIsShown
<1>1. CoverInv => EveryFaultIsShown
  BY AllAreShown
<1> QED BY <1>1, CoverInvHolds, PTL

\* A report that has all real combinations has recall 1, and its f1 is a number.
LEMMA CompleteReport ==
    ASSUME NEW real \in SUBSET Comb, real # {}, NEW found \in SUBSET Comb,
           real \subseteq found
    PROVE  IsOne(recall(real, found)) /\ f1(real, found) # NaN
<1> DEFINE m == Cardinality(real)
           n == Cardinality(found)
<1>1. IsFiniteSet(real) /\ IsFiniteSet(found) /\ found # {}
  BY CombFinite, FS_Subset
<1>2. m \in Nat /\ n \in Nat /\ m # 0 /\ n # 0
  BY <1>1, FS_CardinalityType, FS_EmptySet
<1>3. found \cap real = real /\ real \cap found = real
  OBVIOUS
<1>4. recall(real, found) = <<m, m>> /\ precision(real, found) = <<m, n>>
  BY <1>1, <1>3 DEF recall, precision
<1> HIDE DEF m, n
<1>5. m * n + m * m \in Nat /\ m * n + m * m # 0
  <2>1. m * n \in Nat /\ m * m \in Nat /\ m * m # 0
    BY <1>2
  <2> DEFINE a == m * n
             b == m * m
  <2> HIDE DEF a, b
  <2>2. a + b \in Nat /\ a + b # 0
    BY <2>1 DEF a, b
  <2> QED BY <2>2 DEF a, b
<1>6. f1(real, found) = <<2 * (m * m), m * n + m * m>>
  BY <1>4, <1>5 DEF f1
<1> QED BY <1>2, <1>4, <1>5, <1>6 DEF IsOne, NaN

\* With covering arrays of the strength that evaluation.py asks for, BEN reports
\* every real failure-causing combination.
THEOREM RecallIsFull ==
    ASSUME TablesCover
    PROVE  Spec => []FullRecall
<1>1. ASSUME CoverInv PROVE FullRecall
  <2> SUFFICES ASSUME pc = "idle", conducted
               PROVE  /\ ReportsWhatIsShown
                      /\ t = max_mfs(MFS) => IsOne(getRecall) /\ getF1 # NaN
    BY DEF FullRecall
  <2>1. ReportsWhatIsShown /\ MFS \in MFSSets /\ MFC_identified \subseteq Comb
    BY <1>1 DEF CoverInv, BenInv, TypeOK, ResolverTypeOK
  <2>2. MFS \subseteq Comb /\ MFS # {}
    BY <2>1, MFSSetsAssumption
  <2>3. ASSUME t = max_mfs(MFS) PROVE IsOne(getRecall) /\ getF1 # NaN
    <3>1. MFS = MFSInTfail
      BY <1>1, <2>3, AllAreShown DEF EveryFaultIsShown
    <3>2. \A mf \in MFS : Cardinality(schemaOf(mf)) <= t
      BY <2>1, <2>3, max_mfsFacts
    <3>3. \A mf \in MFSInTfail : Cardinality(schemaOf(mf)) <= t => mf \in MFC_identified
      BY <2>1 DEF ReportsWhatIsShown
    <3>4. \A mf \in MFS : mf \in MFC_identified
      BY <3>1, <3>2, <3>3, Zenon
    <3> QED BY <2>1, <2>2, <3>4, CompleteReport DEF getRecall, getF1
  <2> QED BY <2>1, <2>3
<1> QED BY <1>1, CoverInvHolds, PTL

\* Two sets of suspicious combinations that have the same size are the same set:
\* the comparison of sizes at which conduct stops is one of sets.
THEOREM StopsWhenStable ==
    ASSUME TablesCover
    PROVE  Spec => []StopsOnlyWhenStable
<1>1. ASSUME CoverInv PROVE StopsOnlyWhenStable
  <2> SUFFICES ASSUME pc = "decide", Stable PROVE suspiciousCombs = suspiciousCombs_old
    BY DEF StopsOnlyWhenStable
  <2>1. /\ suspiciousCombs \subseteq suspiciousCombs_old
        /\ suspiciousCombs_old \subseteq Comb
        /\ Cardinality(suspiciousCombs_old) = Cardinality(suspiciousCombs)
    BY <1>1 DEF CoverInv, BenInv, TypeOK, Stable
  <2>2. IsFiniteSet(suspiciousCombs_old)
    BY <2>1, CombFinite, FS_Subset
  <2> QED BY <2>1, <2>2, FS_Subset
<1> QED BY <1>1, CoverInvHolds, PTL

\* What makes the while (true) loop end: a round that does not stop has fewer
\* suspicious combinations than the one before it.
RoundsShrink ==
    pc = "generate" /\ ~firstRound =>
        /\ suspiciousCombs \subseteq suspiciousCombs_old
        /\ Cardinality(suspiciousCombs) \in Nat
        /\ Cardinality(suspiciousCombs) < Cardinality(suspiciousCombs_old)

\* From the second round on, every round is smaller than the last.  This is the
\* measure behind ConductReturns.
THEOREM RoundsAreFewer ==
    ASSUME TablesCover
    PROVE  Spec => []RoundsShrink
<1>1. ASSUME CoverInv PROVE RoundsShrink
  <2> SUFFICES ASSUME pc = "generate", ~firstRound
               PROVE  /\ suspiciousCombs \subseteq suspiciousCombs_old
                      /\ Cardinality(suspiciousCombs) \in Nat
                      /\ Cardinality(suspiciousCombs) < Cardinality(suspiciousCombs_old)
    BY DEF RoundsShrink
  <2> DEFINE m == Cardinality(suspiciousCombs)
             n == Cardinality(suspiciousCombs_old)
  <2>1. /\ suspiciousCombs \subseteq suspiciousCombs_old
        /\ suspiciousCombs_old \subseteq Comb /\ m # n
    BY <1>1 DEF CoverInv, BenInv, TypeOK
  <2>2. IsFiniteSet(suspiciousCombs_old)
    BY <2>1, CombFinite, FS_Subset
  <2>3. IsFiniteSet(suspiciousCombs) /\ m <= n
    BY <2>1, <2>2, FS_Subset
  <2>4. m \in Nat /\ n \in Nat
    BY <2>2, <2>3, FS_CardinalityType
  <2> HIDE DEF m, n
  <2>5. m < n
    BY <2>1, <2>3, <2>4
  <2> QED BY <2>1, <2>4, <2>5 DEF m, n
<1> QED BY <1>1, CoverInvHolds, PTL
=============================================================================
