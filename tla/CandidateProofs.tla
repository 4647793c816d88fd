-------------------------- MODULE CandidateProofs --------------------------
(***************************************************************************)
(* ComFIL reports exactly the failure-causing combinations of the failing  *)
(* test cases, IterAIFL never clears one and covers them all: for every    *)
(* number of parameters, every fault set, every list of failing and every  *)
(* set of passing test cases.                                              *)
(***************************************************************************)
EXTENDS CandidateMethods, CommonProofs

-----------------------------------------------------------------------------
(***************************************************************************)
(* The candidates.                                                         *)
(***************************************************************************)

\* What both resolvers are given: irredundant faults, failing test cases that
\* fail and passing ones that pass.
InputsOK ==
    /\ MFS \in MFSSets
    /\ Tfail \in TestLists
    /\ \A k \in 1 .. Len(Tfail) : ~check(Tfail[k], MFS)
    /\ Tpass \in SUBSET Testcase
    /\ \A tpass \in Tpass : check(tpass, MFS)

\* The inputs as the proofs use them.
LEMMA InputFacts ==
    ASSUME InputsOK
    PROVE  /\ MFS \in SUBSET Comb /\ Irredundant(MFS)
           /\ Tfail \in Seq(Testcase) /\ Len(Tfail) \in Nat /\ Len(Tfail) >= 1
           /\ \A k \in 1 .. Len(Tfail) : Tfail[k] \in Testcase
<1>1. Tfail \in Seq(Testcase) /\ Tfail # <<>>
  BY TestListsAssumption DEF InputsOK
<1>2. Len(Tfail) \in Nat /\ Len(Tfail) >= 1
  BY <1>1
<1> QED BY <1>1, <1>2, MFSSetsAssumption DEF InputsOK

\* powerSet holds the nonempty combinations that the test case contains.
LEMMA PowerSetMembers ==
    ASSUME NEW test \in Testcase, NEW c
    PROVE  c \in powerSet(test) <=> c \in Comb /\ contains(test, c) /\ schemaOf(c) # {}
<1>1. ASSUME c \in powerSet(test)
      PROVE  c \in Comb /\ contains(test, c) /\ schemaOf(c) # {}
  <2>1. PICK k \in 1 .. N : c \in tWayComb(test, k)
    BY <1>1 DEF powerSet
  <2>2. PICK s \in SUBSET Params : Cardinality(s) = k /\ c = getComb(s, test)
    BY <2>1 DEF tWayComb
  <2>3. s # {}
    <3>1. k # 0
      BY NAssumption
    <3> QED BY <2>2, <3>1, FS_EmptySet
  <2>4. c \in Comb /\ contains(test, c)
    BY <2>2, getCombType DEF contains, getComb
  <2>5. schemaOf(c) = s
    BY <2>2 DEF schemaOf, getComb, Testcase, UNKNOWN
  <2> QED BY <2>3, <2>4, <2>5
<1>2. ASSUME c \in Comb, contains(test, c), schemaOf(c) # {}
      PROVE  c \in powerSet(test)
  <2> DEFINE s == schemaOf(c)
  <2>1. s \in SUBSET Params /\ c = getComb(s, test)
    BY <1>2, CombOfSchema DEF schemaOf
  <2> HIDE DEF s
  <2>2. Cardinality(s) \in 1 .. N
    <3>1. IsFiniteSet(s) /\ Cardinality(s) <= N /\ Cardinality(s) \in Nat
      BY <2>1, ParamsFinite, FS_Subset, FS_CardinalityType
    <3>2. Cardinality(s) # 0
      BY <1>2, <3>1, FS_EmptySet DEF s
    <3> QED BY <3>1, <3>2, NAssumption
  <2>3. c \in tWayComb(test, Cardinality(s))
    BY <2>1 DEF tWayComb
  <2> QED BY <2>2, <2>3 DEF powerSet
<1> QED BY <1>1, <1>2

\* The candidates conduct starts from are nonempty combinations of failing test
\* cases, and every real failure-causing combination of Tfail is one.
LEMMA InitialCandidatesFacts ==
    ASSUME InputsOK
    PROVE  /\ InitialCandidates \in SUBSET Comb
           /\ \A c \in InitialCandidates :
                 /\ \E k \in 1 .. Len(Tfail) : contains(Tfail[k], c)
                 /\ \A tpass \in Tpass : ~contains(tpass, c)
           /\ MFSInTfail \subseteq InitialCandidates
           /\ MFSInTfail # {}
<1>1. /\ MFS \in SUBSET Comb /\ Irredundant(MFS) /\ Len(Tfail) \in Nat /\ Len(Tfail) >= 1
      /\ \A k \in 1 .. Len(Tfail) : Tfail[k] \in Testcase
  BY InputFacts
<1>2. \A k \in 1 .. Len(Tfail) : \A c :
          c \in powerSet(Tfail[k])
              <=> c \in Comb /\ contains(Tfail[k], c) /\ schemaOf(c) # {}
  BY <1>1, PowerSetMembers
<1>3. InitialCandidates \in SUBSET Comb
  BY <1>2 DEF InitialCandidates
<1>4. \A c \in InitialCandidates :
          /\ \E k \in 1 .. Len(Tfail) : contains(Tfail[k], c)
          /\ \A tpass \in Tpass : ~contains(tpass, c)
  BY <1>2 DEF InitialCandidates
<1>5. MFSInTfail \subseteq InitialCandidates
  <2> SUFFICES ASSUME NEW k \in 1 .. Len(Tfail), NEW mf \in MFS, contains(Tfail[k], mf)
               PROVE  mf \in InitialCandidates
    BY DEF MFSInTfail, MFSIn
  <2>1. mf \in powerSet(Tfail[k])
    BY <1>1, <1>2 DEF Irredundant
  <2>2. \A tpass \in Tpass : ~contains(tpass, mf)
    BY DEF InputsOK, check
  <2> QED BY <2>1, <2>2 DEF InitialCandidates
<1>6. MFSInTfail # {}
  <2>1. 1 \in 1 .. Len(Tfail)
    BY <1>1
  <2>2. PICK mf \in MFS : contains(Tfail[1], mf)
    BY <2>1 DEF InputsOK, check
  <2>3. mf \in MFSIn(Tfail[1])
    BY <2>2 DEF MFSIn
  <2> QED BY <2>1, <2>3 DEF MFSInTfail
<1> QED BY <1>3, <1>4, <1>5, <1>6

-----------------------------------------------------------------------------
(***************************************************************************)
(* ComFIL.                                                                 *)
(***************************************************************************)

\* Whatever fills the parameters without a safe value, a padded candidate fails
\* if and only if the candidate itself is faulty.
LEMMA PaddingTells ==
    ASSUME MFS \in SUBSET Comb, HasSafeValues(MFS),
           NEW comb \in Comb, NEW test \in Paddings(comb)
    PROVE  /\ check(test, MFS) <=> ~Faulty(comb, MFS)
           /\ contains(test, comb) /\ test \in Testcase
<1>1. ASSUME NEW mf \in MFS PROVE contains(test, mf) <=> contains(comb, mf)
  <2>1. \A i \in Params : mf[i] # UNKNOWN => safeValues[i] # mf[i] /\ safeValues[i] # UNKNOWN
    BY SafeValueDiffers DEF safeValues
  <2>2. \A i \in Params : /\ comb[i] # UNKNOWN => test[i] = comb[i]
                          /\ comb[i] = UNKNOWN /\ safeValues[i] # UNKNOWN
                                 => test[i] = safeValues[i]
    BY DEF Paddings
  <2> HIDE DEF safeValues
  <2> QED BY <2>1, <2>2 DEF contains
<1>2. contains(test, comb) /\ test \in Testcase
  BY DEF Paddings, contains
<1> QED BY <1>1, <1>2 DEF check, Faulty

\* The invariant of ComFIL's loop: nothing real is lost, what has been passed is
\* faulty and is contained in no other candidate, passed or not.
LoopOK ==
    /\ MFC_identified = {}
    /\ HasSafeValues(MFS)
    /\ candidates \subseteq InitialCandidates
    /\ todo \subseteq InitialCandidates
    /\ MFSInTfail \subseteq candidates
    /\ \A c \in candidates \ todo :
          /\ Faulty(c, MFS)
          /\ \A d \in candidates : contains(d, c) => d = c

ComFILInv ==
    /\ TypeOK
    /\ InputsOK
    /\ ~conducted => MFC_identified = {}
    /\ pc = "loop" => LoopOK /\ conducted
    /\ pc = "idle" /\ conducted => MFC_identified = MFSInTfail

\* The inputs stay, and with them the candidates to start from.
LEMMA InputsStay ==
    ASSUME UNCHANGED <<inputs, Tpass>>
    PROVE  /\ MFS' = MFS /\ Tfail' = Tfail /\ Tpass' = Tpass
           /\ InputsOK => InputsOK'
           /\ InitialCandidates' = InitialCandidates
           /\ MFSInTfail' = MFSInTfail
BY DEF inputs, InputsOK, InitialCandidates, powerSet, tWayComb, MFSInTfail, MFSIn

\* ComFIL starts.
LEMMA ComFILConduct == ASSUME ComFILInv, Conduct PROVE ComFILInv'
<1>1. /\ MFS' = MFS /\ Tfail' = Tfail /\ Tpass' = Tpass /\ InputsOK'
      /\ InitialCandidates' = InitialCandidates /\ MFSInTfail' = MFSInTfail
  BY InputsStay DEF ComFILInv, Conduct
<1>2. InitialCandidates \in SUBSET Comb /\ MFSInTfail \subseteq InitialCandidates
  BY InitialCandidatesFacts DEF ComFILInv
<1>3. TypeOK'
  BY <1>1, <1>2 DEF ComFILInv, TypeOK, ResolverTypeOK, Conduct, records
<1>4. pc' = "loop" => LoopOK'
  <2> SUFFICES ASSUME pc' = "loop" PROVE LoopOK'
    OBVIOUS
  <2>1. candidates' = InitialCandidates /\ todo' = InitialCandidates /\ HasSafeValues(MFS)
    BY DEF Conduct, SafeValuesMissing
  <2>2. MFC_identified' = {}
    BY DEF Conduct, ComFILInv
  <2> QED BY <1>1, <1>2, <2>1, <2>2 DEF LoopOK
<1>5. conducted' /\ pc' # "idle"
  BY DEF Conduct
<1> QED BY <1>1, <1>3, <1>4, <1>5 DEF ComFILInv

\* ComFIL tests one candidate or passes one that has been removed.
LEMMA ComFILIterate == ASSUME ComFILInv, Iterate PROVE ComFILInv'
<1>1. /\ MFS' = MFS /\ Tfail' = Tfail /\ Tpass' = Tpass /\ InputsOK'
      /\ InitialCandidates' = InitialCandidates /\ MFSInTfail' = MFSInTfail
  BY InputsStay DEF ComFILInv, Iterate
<1>2. /\ UNCHANGED <<conducted, MFC_identified, pc>> /\ pc = "loop" /\ conducted
      /\ LoopOK /\ InputsOK /\ TypeOK
  BY DEF Iterate, ComFILInv
<1>3. /\ InitialCandidates \in SUBSET Comb /\ MFSInTfail \subseteq MFS
      /\ MFS \in SUBSET Comb /\ Irredundant(MFS)
  BY <1>2, InitialCandidatesFacts, InputFacts DEF MFSInTfail, MFSIn
<1>4. PICK comb \in todo : todo' = todo \ {comb} /\ (Skip(comb) \/ TestCandidate(comb))
  BY DEF Iterate
<1>5. comb \in Comb /\ todo \in SUBSET Comb
  BY <1>2, <1>3 DEF LoopOK
<1>6. CASE Skip(comb)
  <2>1. candidates' = candidates /\ candidates \ todo' = candidates \ todo
        /\ UNCHANGED records /\ todo' \subseteq todo
    BY <1>4, <1>6 DEF Skip
  <2>2. LoopOK'
    BY <1>1, <1>2, <2>1 DEF LoopOK
  <2>3. TypeOK'
    BY <1>1, <1>2, <2>1 DEF TypeOK, ResolverTypeOK, records
  <2> QED BY <1>1, <1>2, <2>2, <2>3 DEF ComFILInv
<1>7. CASE TestCandidate(comb)
  <2>1. comb \in candidates
    BY <1>7 DEF TestCandidate
  <2>2. PICK test \in Paddings(comb) :
            /\ executedTestcase' = executedTestcase \cup {test}
            /\ IF check(test, MFS)
               THEN healthyCombs' = healthyCombs \cup {comb} /\ UNCHANGED faultyCombs
               ELSE faultyCombs' = faultyCombs \cup {comb} /\ UNCHANGED healthyCombs
            /\ candidates' = Remaining(comb, check(test, MFS))
    BY <1>7 DEF TestCandidate
  <2>3. check(test, MFS) <=> ~Faulty(comb, MFS)
    BY <1>2, <1>3, <1>5, <2>2, PaddingTells DEF LoopOK
  <2>4. contains(test, comb) /\ test \in Testcase
    BY <1>2, <1>3, <1>5, <2>2, PaddingTells DEF LoopOK
  <2>5. candidates' \subseteq candidates
    BY <2>2 DEF Remaining
  <2>6. TypeOK'
    <3>1. /\ executedTestcase' \subseteq Testcase /\ healthyCombs' \subseteq Comb
          /\ faultyCombs' \subseteq Comb
      BY <1>2, <1>5, <2>2, <2>4 DEF TypeOK, ResolverTypeOK
    <3>2. candidates' \subseteq Comb /\ todo' \subseteq Comb
      BY <1>2, <1>4, <2>5 DEF TypeOK
    <3> QED BY <1>1, <1>2, <3>1, <3>2 DEF TypeOK, ResolverTypeOK
  <2>7. CASE Faulty(comb, MFS)
    <3>1. candidates' = {c \in candidates : contains(c, comb) => c = comb}
      BY <2>2, <2>3, <2>7 DEF Remaining
    <3>2. MFSInTfail \subseteq candidates'
      <4> SUFFICES ASSUME NEW mf \in MFSInTfail, contains(mf, comb) PROVE mf = comb
        BY <1>2, <3>1 DEF LoopOK
      <4>1. mf \in MFS /\ mf \in Comb
        BY <1>3
      <4>2. PICK other \in MFS : contains(comb, other)
        BY <2>7 DEF Faulty
      <4>3. contains(mf, other)
        BY <4>2, ContainsTransitive
      <4>4. mf = other
        BY <1>3, <4>1, <4>2, <4>3 DEF Irredundant
      <4> QED BY <1>5, <4>1, <4>2, <4>4, ContainsAntisymmetric
    <3>3. ASSUME NEW c \in candidates' \ todo'
          PROVE  Faulty(c, MFS) /\ \A d \in candidates' : contains(d, c) => d = c
      <4>1. CASE c = comb
        BY <2>7, <3>1, <4>1
      <4>2. CASE c # comb
        BY <1>2, <1>4, <2>5, <4>2 DEF LoopOK
      <4> QED BY <4>1, <4>2
    <3>4. LoopOK'
      BY <1>1, <1>2, <1>4, <2>5, <3>2, <3>3 DEF LoopOK
    <3> QED BY <1>1, <1>2, <2>6, <3>4 DEF ComFILInv
  <2>8. CASE ~Faulty(comb, MFS)
    <3>1. candidates' = {c \in candidates : ~contains(comb, c)}
      BY <2>2, <2>3, <2>8 DEF Remaining
    <3>2. MFSInTfail \subseteq candidates'
      BY <1>2, <1>3, <2>8, <3>1 DEF LoopOK, Faulty
    <3>3. comb \notin candidates'
      BY <3>1 DEF contains
    <3>4. LoopOK'
      BY <1>1, <1>2, <1>4, <2>5, <3>2, <3>3 DEF LoopOK
    <3> QED BY <1>1, <1>2, <2>6, <3>4 DEF ComFILInv
  <2> QED BY <2>7, <2>8
<1> QED BY <1>4, <1>6, <1>7

\* ComFIL ends: the candidates that are left are the real ones.
LEMMA ComFILFinish == ASSUME ComFILInv, FinishConduct PROVE ComFILInv'
<1>1. /\ MFS' = MFS /\ Tfail' = Tfail /\ Tpass' = Tpass /\ InputsOK'
      /\ InitialCandidates' = InitialCandidates /\ MFSInTfail' = MFSInTfail
  BY InputsStay DEF ComFILInv, FinishConduct
<1>2. /\ LoopOK /\ InputsOK /\ TypeOK /\ todo = {} /\ pc' = "idle"
      /\ MFC_identified' = MFC_identified \cup candidates
      /\ UNCHANGED <<conducted, records, todo>> /\ candidates' = {} /\ conducted
  BY DEF FinishConduct, ComFILInv
<1>3. ASSUME NEW c \in candidates PROVE c \in MFSInTfail
  <2>1. PICK mf \in MFS : contains(c, mf)
    BY <1>2 DEF LoopOK, Faulty
  <2>2. PICK k \in 1 .. Len(Tfail) : contains(Tfail[k], c)
    BY <1>2, InitialCandidatesFacts DEF LoopOK
  <2>3. mf \in MFSInTfail
    BY <2>1, <2>2, ContainsTransitive DEF MFSInTfail, MFSIn
  <2>4. c = mf
    BY <1>2, <2>1, <2>3 DEF LoopOK
  <2> QED BY <2>3, <2>4
<1>4. MFC_identified' = MFSInTfail
  BY <1>2, <1>3 DEF LoopOK
<1>5. TypeOK'
  BY <1>1, <1>2 DEF TypeOK, ResolverTypeOK, records
<1> QED BY <1>1, <1>2, <1>4, <1>5 DEF ComFILInv

\* Every step of ComFIL keeps its invariant.
LEMMA ComFILStep == ASSUME ComFILInv, Next PROVE ComFILInv'
<1>1. CASE Reset
  <2>1. /\ MFS' = MFS /\ Tfail' = Tfail /\ Tpass' = Tpass /\ InputsOK'
    BY <1>1, InputsStay DEF ComFILInv, Reset, ResolverReset
  <2>2. /\ ~conducted' /\ MFC_identified' = {} /\ pc' = "idle" /\ executedTestcase' = {}
        /\ UNCHANGED <<candidates, todo, healthyCombs, faultyCombs>>
        /\ conducted' \in BOOLEAN
    BY <1>1 DEF Reset, ResolverReset
  <2>3. TypeOK'
    BY <2>1, <2>2 DEF ComFILInv, TypeOK, ResolverTypeOK
  <2> QED BY <2>1, <2>2, <2>3 DEF ComFILInv
<1> QED BY <1>1, ComFILConduct, ComFILIterate, ComFILFinish DEF Next, Work

-----------------------------------------------------------------------------
(***************************************************************************)
(* IterAIFL.                                                               *)
(***************************************************************************)

\* IterAIFL is an instance here; it reads combinations as this module does.
LEMMA SameCombinations ==
    /\ \A a, b : Iter!contains(a, b) = contains(a, b)
    /\ \A c : Iter!schemaOf(c) = schemaOf(c)
    /\ \A test, M : Iter!check(test, M) = check(test, M)
    /\ Iter!InitialCandidates = InitialCandidates
    /\ Iter!MFSInTfail = MFSInTfail
    /\ Iter!Testcase = Testcase /\ Iter!Comb = Comb
    /\ Iter!Params = Params /\ Iter!UNKNOWN = UNKNOWN
<1>1. Iter!Params = Params /\ Iter!UNKNOWN = UNKNOWN
  BY DEF Iter!Params, Params, Iter!UNKNOWN, UNKNOWN
<1>2. /\ \A a, b : Iter!contains(a, b) = contains(a, b)
      /\ \A c : Iter!schemaOf(c) = schemaOf(c)
      /\ Iter!Testcase = Testcase /\ Iter!Comb = Comb
  BY <1>1 DEF Iter!contains, contains, Iter!schemaOf, schemaOf, Iter!Testcase, Testcase,
              Iter!Comb, Comb
<1>3. \A test, M : Iter!check(test, M) = check(test, M)
  BY <1>2 DEF Iter!check, check
<1>4. \A s, test : Iter!getComb(s, test) = getComb(s, test)
  BY <1>1 DEF Iter!getComb, getComb
<1>5. \A test, k : Iter!tWayComb(test, k) = tWayComb(test, k)
  <2>1. \A S : Iter!Cardinality(S) = Cardinality(S)
    BY Zenon DEF Iter!Cardinality, Cardinality
  <2> QED BY <1>1, <1>4, <2>1 DEF Iter!tWayComb, tWayComb
<1>6. \A test : Iter!powerSet(test) = powerSet(test)
  BY <1>5 DEF Iter!powerSet, powerSet
<1>7. Iter!InitialCandidates = InitialCandidates
  BY <1>2, <1>6 DEF Iter!InitialCandidates, InitialCandidates
<1>8. \A test : Iter!MFSIn(test) = MFSIn(test)
  BY <1>2 DEF Iter!MFSIn, MFSIn
<1>9. Iter!MFSInTfail = MFSInTfail
  BY <1>8 DEF Iter!MFSInTfail, MFSInTfail
<1> QED BY <1>1, <1>2, <1>3, <1>7, <1>9

\* No candidate is part of a passing test case that was known or run.
Cleared(set) ==
    \A c \in set : \A test \in Tpass \cup executedTestcase :
        check(test, MFS) => ~contains(test, c)

\* Each failure-causing combination contains one of the set.
Covers(set) == \A mf \in MFSInTfail : \E c \in set : contains(mf, c)

(***************************************************************************)
(* IterAIFL's invariant.  While getMinimal iterates, what it has visited   *)
(* and kept is contained in no other combination of the set: supersets of  *)
(* it are gone, wherever they were in the order.                           *)
(***************************************************************************)
IterAIFLInv ==
    /\ InputsOK
    /\ pc \in {"idle", "round", "tests", "minimal"}
    /\ ~conducted => MFC_identified = {} /\ executedTestcase = {}
    /\ pc \in {"round", "tests"} =>
          /\ conducted /\ MFC_identified = {}
          /\ candidates \subseteq InitialCandidates
          /\ MFSInTfail \subseteq candidates
          /\ Cleared(candidates)
    /\ pc = "minimal" =>
          /\ conducted /\ MFC_identified = {}
          /\ candidates \subseteq InitialCandidates
          /\ Covers(candidates)
          /\ Cleared(candidates)
          /\ \A c \in candidates : \A d \in candidates \ todo : contains(c, d) => c = d
    /\ pc = "idle" /\ conducted =>
          /\ Covers(MFC_identified)
          /\ \A c, d \in MFC_identified : contains(c, d) => c = d
          /\ Cleared(MFC_identified)

\* Every step of IterAIFL keeps its invariant.
LEMMA IterAIFLStep == ASSUME IterAIFLInv, Iter!Next PROVE IterAIFLInv'
<1>1. UNCHANGED <<inputs, Tpass>>
  BY DEF Iter!Next, Iter!Conduct, Iter!Reset, Iter!Work, Iter!BeginRound, Iter!Run,
         Iter!EndRound, Iter!BeginMinimal, Iter!Minimise, Iter!FinishConduct,
         Iter!ResolverReset, Iter!resolverVars,
         Iter!inputs, inputs
<1>2. /\ MFS' = MFS /\ Tfail' = Tfail /\ Tpass' = Tpass /\ InputsOK' /\ InputsOK
      /\ InitialCandidates' = InitialCandidates /\ MFSInTfail' = MFSInTfail
  BY <1>1, InputsStay DEF IterAIFLInv
<1>3. /\ InitialCandidates \in SUBSET Comb /\ MFSInTfail \subseteq InitialCandidates
      /\ MFSInTfail # {} /\ MFSInTfail \subseteq MFS
      /\ \A c \in InitialCandidates : \A tpass \in Tpass : ~contains(tpass, c)
  BY <1>2, InitialCandidatesFacts DEF MFSInTfail, MFSIn
<1>4. CASE Iter!Conduct
  <2>1. /\ candidates' = InitialCandidates /\ pc' = "round" /\ conducted' /\ ~conducted
        /\ UNCHANGED <<MFC_identified, executedTestcase>>
    BY <1>4, SameCombinations DEF Iter!Conduct, Iter!records
  <2>2. MFC_identified = {} /\ executedTestcase = {}
    BY <2>1 DEF IterAIFLInv
  <2>3. Cleared(candidates)'
    BY <1>2, <1>3, <2>1, <2>2 DEF Cleared
  <2> QED BY <1>2, <1>3, <2>1, <2>2, <2>3 DEF IterAIFLInv
<1>5. CASE Iter!Reset
  <2>1. ~conducted' /\ MFC_identified' = {} /\ pc' = "idle" /\ executedTestcase' = {}
    BY <1>5 DEF Iter!Reset, Iter!ResolverReset
  <2> QED BY <1>2, <2>1 DEF IterAIFLInv
<1>6. CASE Iter!BeginRound
  <2>1. /\ pc = "round" /\ pc' = "tests"
        /\ UNCHANGED <<conducted, MFC_identified, executedTestcase, candidates>>
    BY <1>6 DEF Iter!BeginRound, Iter!resolverVars, Iter!records
  <2>2. Cleared(candidates)'
    BY <1>2, <2>1 DEF IterAIFLInv, Cleared
  <2> QED BY <1>2, <2>1, <2>2 DEF IterAIFLInv
<1>7. CASE Iter!Run
  <2>1. /\ pc = "tests" /\ pc' = "tests" /\ UNCHANGED <<conducted, MFC_identified>>
        /\ conducted /\ MFC_identified = {} /\ candidates \subseteq InitialCandidates
        /\ MFSInTfail \subseteq candidates /\ Cleared(candidates)
    BY <1>7 DEF Iter!Run, IterAIFLInv
  <2>2. PICK test \in AT :
            /\ executedTestcase' = executedTestcase \cup {test}
            /\ candidates' = IF check(test, MFS)
                             THEN {c \in candidates : ~contains(test, c)} ELSE candidates
    BY <1>7, SameCombinations DEF Iter!Run, Iter!RemoveContained
  <2>3. Cleared(candidates)'
    BY <1>2, <2>1, <2>2 DEF Cleared
  <2>4. MFSInTfail \subseteq candidates'
    BY <1>3, <2>1, <2>2 DEF check
  <2> QED BY <1>2, <2>1, <2>2, <2>3, <2>4 DEF IterAIFLInv
<1>8. CASE Iter!EndRound
  <2>1. /\ pc = "tests"
        /\ UNCHANGED <<conducted, MFC_identified, executedTestcase, candidates>>
    BY <1>8 DEF Iter!EndRound, Iter!resolverVars, Iter!records
  <2>2. pc' = "round"
    BY <1>3, <1>8, <2>1 DEF Iter!EndRound, IterAIFLInv
  <2>3. Cleared(candidates)'
    BY <1>2, <2>1 DEF IterAIFLInv, Cleared
  <2> QED BY <1>2, <2>1, <2>2, <2>3 DEF IterAIFLInv
<1>9. CASE Iter!BeginMinimal
  <2>1. /\ pc = "round" /\ pc' = "minimal" /\ todo' = candidates
        /\ UNCHANGED <<conducted, MFC_identified, executedTestcase, candidates>>
    BY <1>9 DEF Iter!BeginMinimal, Iter!resolverVars, Iter!records
  <2>2. /\ conducted /\ MFC_identified = {} /\ candidates \subseteq InitialCandidates
        /\ MFSInTfail \subseteq candidates /\ Cleared(candidates)
    BY <2>1 DEF IterAIFLInv
  <2>3. Cleared(candidates)'
    BY <1>2, <2>1, <2>2 DEF Cleared
  <2>4. Covers(candidates)'
    <3>1. \A mf \in MFSInTfail : contains(mf, mf)
      BY DEF contains
    <3> QED BY <1>2, <2>1, <2>2, <3>1 DEF Covers
  <2>5. candidates' \ todo' = {}
    BY <2>1
  <2> QED BY <1>2, <2>1, <2>2, <2>3, <2>4, <2>5 DEF IterAIFLInv
<1>10. CASE Iter!Minimise
  <2>1. /\ pc = "minimal" /\ pc' = "minimal"
        /\ UNCHANGED <<conducted, MFC_identified, executedTestcase>>
    BY <1>10 DEF Iter!Minimise, Iter!resolverVars, Iter!records
  <2>2. /\ conducted /\ MFC_identified = {} /\ candidates \subseteq InitialCandidates
        /\ Covers(candidates) /\ Cleared(candidates)
        /\ \A c \in candidates : \A d \in candidates \ todo : contains(c, d) => c = d
    BY <2>1 DEF IterAIFLInv
  <2>3. PICK comb \in todo :
            /\ todo' = todo \ {comb}
            /\ \/ comb \notin candidates /\ candidates' = candidates
               \/ /\ comb \in candidates
                  /\ candidates' = {c \in candidates : contains(c, comb) => c = comb}
    BY <1>10, SameCombinations DEF Iter!Minimise, Iter!SkipDeleted, Iter!DeleteSupersets
  <2>4. candidates' \subseteq candidates
    BY <2>3
  <2>5. Cleared(candidates)'
    BY <1>2, <2>1, <2>2, <2>4 DEF Cleared
  <2>6. Covers(candidates)'
    <3>1. ASSUME NEW mf \in MFSInTfail PROVE \E c \in candidates' : contains(mf, c)
      <4>1. PICK c \in candidates : contains(mf, c)
        BY <2>2 DEF Covers
      <4>2. CASE c \in candidates'
        BY <4>1, <4>2
      <4>3. CASE c \notin candidates'
        <5>1. comb \in candidates /\ contains(c, comb) /\ comb \in candidates'
          BY <2>3, <4>1, <4>3
        <5>2. contains(mf, comb)
          BY <4>1, <5>1, ContainsTransitive
        <5> QED BY <5>1, <5>2
      <4> QED BY <4>2, <4>3
    <3> QED BY <1>2, <3>1 DEF Covers
  <2>7. ASSUME NEW c \in candidates', NEW d \in candidates' \ todo', contains(c, d)
        PROVE  c = d
    <3>1. CASE d = comb
      BY <2>3, <2>7, <3>1
    <3>2. CASE d # comb
      BY <2>2, <2>3, <2>4, <2>7, <3>2
    <3> QED BY <3>1, <3>2
  <2>8. \A c, d : contains(c, d)' = contains(c, d)
    BY DEF contains
  <2> QED BY <1>2, <2>1, <2>2, <2>4, <2>5, <2>6, <2>7, <2>8 DEF IterAIFLInv
<1>11. CASE Iter!FinishConduct
  <2>1. /\ pc = "minimal" /\ todo = {} /\ pc' = "idle"
        /\ UNCHANGED <<conducted, executedTestcase>>
        /\ MFC_identified' = MFC_identified \cup candidates
    BY <1>11 DEF Iter!FinishConduct, Iter!records
  <2>2. /\ conducted /\ MFC_identified = {} /\ Covers(candidates) /\ Cleared(candidates)
        /\ \A c \in candidates : \A d \in candidates \ todo : contains(c, d) => c = d
    BY <2>1 DEF IterAIFLInv
  <2>3. MFC_identified' = candidates
    BY <2>1, <2>2
  <2>4. /\ Covers(MFC_identified)' /\ Cleared(MFC_identified)'
        /\ \A c, d \in MFC_identified' : contains(c, d) => c = d
    BY <1>2, <2>1, <2>2, <2>3 DEF Covers, Cleared
  <2> QED BY <1>2, <2>1, <2>2, <2>4 DEF IterAIFLInv
<1> QED BY <1>4, <1>5, <1>6, <1>7, <1>8, <1>9, <1>10, <1>11 DEF Iter!Next, Iter!Work

-----------------------------------------------------------------------------
(***************************************************************************)
(* The theorems.                                                           *)
(***************************************************************************)

MethodInv ==
    /\ method \in {"ComFIL", "IterAIFL"}
    /\ method = "ComFIL" => ComFILInv
    /\ method = "IterAIFL" => IterAIFLInv

\* The invariants hold throughout the runs of conduct and reset of the resolver
\* that METHOD_MAP has given.
THEOREM MethodInvHolds == MethodSpec => []MethodInv
<1>1. MethodInit => MethodInv
  <2> SUFFICES ASSUME MethodInit PROVE MethodInv
    OBVIOUS
  <2> USE DEF MethodInit, Init, CandidatesInit, ResolverInit, Constructed
  <2>1. InputsOK
    BY PassSetsAssumption DEF InputsOK
  <2>2. TypeOK
    BY <2>1, InputFacts DEF TypeOK, ResolverTypeOK, InputsOK
  <2> QED BY <2>1, <2>2 DEF MethodInv, ComFILInv, IterAIFLInv
<1>2. MethodInv /\ [MethodNext]_methodVars => MethodInv'
  <2> SUFFICES ASSUME MethodInv, [MethodNext]_methodVars PROVE MethodInv'
    OBVIOUS
  <2>1. CASE ConductComFIL
    BY <2>1, ComFILStep DEF ConductComFIL, MethodInv
  <2>2. CASE ConductIterAIFL
    BY <2>2, IterAIFLStep DEF ConductIterAIFL, MethodInv
  <2>3. CASE UNCHANGED methodVars
    <3> USE <2>3 DEF methodVars, vars, resolverVars, inputs, records
    <3>1. InputsOK => InputsOK'
      BY InputsStay
    <3>2. InitialCandidates' = InitialCandidates /\ MFSInTfail' = MFSInTfail
      BY InputsStay
    <3>3. ComFILInv => ComFILInv'
      BY <3>1, <3>2 DEF ComFILInv, TypeOK, ResolverTypeOK, LoopOK
    <3>4. IterAIFLInv => IterAIFLInv'
      BY <3>1, <3>2 DEF IterAIFLInv, Cleared, Covers
    <3> QED BY <3>3, <3>4 DEF MethodInv
  <2> QED BY <2>1, <2>2, <2>3 DEF MethodNext
<1> QED BY <1>1, <1>2, PTL DEF MethodSpec

\* ComFIL loses no failure-causing combination in its loop, and what it has
\* passed and kept is faulty and minimal.
THEOREM ComFILKeepsAll == MethodSpec => []ComFILKeepsFaults
<1>1. MethodInv => ComFILKeepsFaults
  BY DEF MethodInv, ComFILInv, LoopOK, ComFILKeepsFaults, CandidatesKeepFaults, IsFaulty
<1> QED BY <1>1, MethodInvHolds, PTL

\* ComFIL reports exactly the failure-causing combinations of Tfail.
THEOREM ComFILReportIsExact == MethodSpec => []ComFILIsExact
<1>1. MethodInv => ComFILIsExact
  BY DEF MethodInv, ComFILInv, ComFILIsExact, ExactIdentification
<1> QED BY <1>1, MethodInvHolds, PTL

\* IterAIFL clears no failure-causing combination and never throws.
THEOREM IterAIFLKeepsAll == MethodSpec => []IterAIFLKeepsFaults
<1>1. MethodInv => IterAIFLKeepsFaults
  BY SameCombinations DEF MethodInv, IterAIFLInv, IterAIFLKeepsFaults,
                          Iter!FaultsStaySuspicious
<1> QED BY <1>1, MethodInvHolds, PTL

\* What IterAIFL reports covers the failure-causing combinations, is minimal and
\* agrees with every passing test case.
THEOREM IterAIFLCoversAll == MethodSpec => []IterAIFLCoversFaults
<1>1. MethodInv => IterAIFLCoversFaults
  BY SameCombinations DEF MethodInv, IterAIFLInv, Cleared, IterAIFLCoversFaults,
                          Iter!ReportCoversFaults, Covers
<1> QED BY <1>1, MethodInvHolds, PTL
=============================================================================
