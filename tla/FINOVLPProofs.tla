--------------------------- MODULE FINOVLPProofs ---------------------------
(***************************************************************************)
(* FIC and FICBS report real failure-causing combinations without overlap  *)
(* and miss none that is disjoint from the reported ones, and FICBS finds  *)
(* by bisection what FIC finds parameter by parameter: for every number of *)
(* parameters, every fault set and every list of failing test cases.       *)
(***************************************************************************)
EXTENDS FINOVLPMethods, CommonProofs

-----------------------------------------------------------------------------
(***************************************************************************)
(* The loop of FINOVLP.                                                    *)
(***************************************************************************)
InputsOK ==
    /\ MFS \in MFSSets
    /\ Tfail \in TestLists
    /\ \A k \in 1 .. Len(Tfail) : ~check(Tfail[k], MFS)

ControlOK ==
    /\ pc \in {"tfail", "check", "locate"} => conducted /\ HasSafeValues(MFS)
    /\ pc \in {"check", "locate"} => next <= Len(Tfail)
    /\ pc = "locate" => ~check(tfail, MFS)

LoopInv ==
    /\ LoopTypeOK
    /\ InputsOK
    /\ ControlOK
    /\ FixedIsSettled

\* The inputs as the proofs use them.
LEMMA InputFacts ==
    ASSUME InputsOK
    PROVE  /\ MFS \in SUBSET Comb /\ Irredundant(MFS)
           /\ Tfail \in Seq(Testcase) /\ Len(Tfail) \in Nat /\ Len(Tfail) >= 1
           /\ \A k \in 1 .. Len(Tfail) : Tfail[k] \in Testcase
<1>1. Tfail \in Seq(Testcase) /\ Tfail # <<>>
  BY TestListsAssumption DEF InputsOK
<1>2. Len(Tfail) \in Nat /\ Len(Tfail) >= 1
  BY <1>1
<1> QED BY <1>1, <1>2, MFSSetsAssumption DEF InputsOK

\* What the inputs determine stays with them.
LEMMA InputsStay ==
    ASSUME UNCHANGED inputs
    PROVE  /\ MFS' = MFS /\ Tfail' = Tfail
           /\ InputsOK => InputsOK'
           /\ \A test : MFSIn(test)' = MFSIn(test)
BY DEF inputs, InputsOK, MFSIn

\* A schema and the combination a test case has there.
LEMMA SchemaOfComb ==
    ASSUME NEW test \in Testcase, NEW s \in SUBSET Params
    PROVE  schemaOf(getComb(s, test)) = s /\ contains(test, getComb(s, test))
BY DEF schemaOf, getComb, contains, Testcase, UNKNOWN

\* The calls of the client and the steps of the loop that do not search.
LEMMA OuterStep == ASSUME LoopInv, Outer PROVE LoopInv'
<1>1. UNCHANGED inputs
  BY DEF Outer, Conduct, Reset, ResolverReset, BeginTestcase, FinishConduct, CheckPasses,
         resolverVars
<1>2. /\ MFS' = MFS /\ Tfail' = Tfail /\ InputsOK /\ InputsOK'
      /\ \A test : MFSIn(test)' = MFSIn(test)
  BY <1>1, InputsStay DEF LoopInv
<1>3. /\ next \in 1 .. Len(Tfail) + 1 /\ Len(Tfail) \in Nat
      /\ \A k \in 1 .. Len(Tfail) : Tfail[k] \in Testcase
  BY <1>2, InputFacts DEF LoopInv, LoopTypeOK
<1>4. CASE Conduct
  <2>1. /\ pc' \in {"tfail", "thrown"} /\ (pc' = "tfail" => HasSafeValues(MFS))
        /\ next' = 1 /\ conducted' = TRUE
        /\ UNCHANGED <<MFC_identified, records, tfail, fixedParameters, MFSSet>>
    BY <1>4 DEF Conduct, SafeValuesMissing
  <2>2. LoopTypeOK'
    BY <1>2, <1>3, <2>1 DEF LoopInv, LoopTypeOK, ResolverTypeOK, records
  <2> QED BY <1>2, <2>1, <2>2 DEF LoopInv, ControlOK, FixedIsSettled
<1>5. CASE Reset
  <2>1. /\ pc' = "idle" /\ conducted' = FALSE /\ MFC_identified' = {}
        /\ executedTestcase' = {}
        /\ UNCHANGED <<next, tfail, fixedParameters, MFSSet, healthyCombs, faultyCombs>>
    BY <1>5 DEF Reset, ResolverReset
  <2>2. LoopTypeOK'
    BY <1>2, <2>1 DEF LoopInv, LoopTypeOK, ResolverTypeOK
  <2> QED BY <1>2, <2>1, <2>2 DEF LoopInv, ControlOK, FixedIsSettled
<1>6. CASE BeginTestcase
  <2>1. /\ pc = "tfail" /\ pc' = "check" /\ next <= Len(Tfail) /\ tfail' = Tfail[next]
        /\ fixedParameters' = {} /\ MFSSet' = {}
        /\ UNCHANGED <<conducted, MFC_identified, records, next>>
    BY <1>6 DEF BeginTestcase, resolverVars
  <2>2. LoopTypeOK'
    BY <1>2, <1>3, <2>1 DEF LoopInv, LoopTypeOK, ResolverTypeOK, records
  <2>3. FixedIsSettled'
    BY <1>2, <2>1 DEF FixedIsSettled
  <2> QED BY <1>2, <2>1, <2>2, <2>3 DEF LoopInv, ControlOK
<1>7. CASE FinishConduct
  <2>1. /\ pc' = "idle"
        /\ UNCHANGED <<conducted, MFC_identified, records, next, tfail, fixedParameters, MFSSet>>
    BY <1>7 DEF FinishConduct, resolverVars
  <2>2. LoopTypeOK'
    BY <1>2, <2>1 DEF LoopInv, LoopTypeOK, ResolverTypeOK, records
  <2> QED BY <1>2, <2>1, <2>2 DEF LoopInv, ControlOK, FixedIsSettled
<1>8. CASE CheckPasses
  <2>1. /\ pc = "check" /\ pc' = "tfail" /\ next' = next + 1
        /\ MFC_identified' = MFC_identified \cup MFSSet
        /\ executedTestcase' = executedTestcase \cup {tfail}
        /\ UNCHANGED <<conducted, healthyCombs, faultyCombs, tfail, fixedParameters, MFSSet>>
    BY <1>8 DEF CheckPasses
  <2>2. next + 1 \in 1 .. Len(Tfail) + 1
    BY <1>3, <2>1 DEF LoopInv, ControlOK
  <2>3. LoopTypeOK'
    BY <1>2, <2>1, <2>2 DEF LoopInv, LoopTypeOK, ResolverTypeOK
  <2> QED BY <1>2, <2>1, <2>3 DEF LoopInv, ControlOK, FixedIsSettled
<1> QED BY <1>4, <1>5, <1>6, <1>7, <1>8 DEF Outer

\* The test case still fails and a search begins.
LEMMA CheckFailsStep == ASSUME LoopInv, CheckFails PROVE LoopInv' /\ pc' = "locate"
<1>1. /\ pc = "check" /\ pc' = "locate" /\ ~check(tfail, MFS)
      /\ executedTestcase' = executedTestcase \cup {tfail}
      /\ UNCHANGED <<inputs, conducted, MFC_identified, healthyCombs, faultyCombs,
                     next, tfail, fixedParameters, MFSSet>>
  BY DEF CheckFails
<1>2. /\ MFS' = MFS /\ Tfail' = Tfail /\ InputsOK'
      /\ \A test : MFSIn(test)' = MFSIn(test)
  BY <1>1, InputsStay DEF LoopInv
<1>3. LoopTypeOK'
  BY <1>1, <1>2 DEF LoopInv, LoopTypeOK, ResolverTypeOK
<1>4. FixedIsSettled'
  BY <1>1, <1>2 DEF LoopInv, FixedIsSettled
<1> QED BY <1>1, <1>2, <1>3, <1>4 DEF LoopInv, ControlOK

\* A step of the search leaves the loop alone.
LEMMA SearchingStep ==
    ASSUME LoopInv, UNCHANGED <<inputs, conducted, MFC_identified, loopVars>>,
           healthyCombs' \subseteq Comb, faultyCombs' \subseteq Comb,
           executedTestcase' \subseteq Testcase
    PROVE  LoopInv'
<1>1. UNCHANGED <<pc, next, tfail, fixedParameters, MFSSet>>
  BY DEF loopVars
<1>2. /\ MFS' = MFS /\ Tfail' = Tfail /\ InputsOK'
      /\ \A test : MFSIn(test)' = MFSIn(test)
  BY InputsStay DEF LoopInv
<1>3. LoopTypeOK'
  BY <1>1, <1>2 DEF LoopInv, LoopTypeOK, ResolverTypeOK
<1>4. FixedIsSettled'
  BY <1>1, <1>2 DEF LoopInv, FixedIsSettled
<1> QED BY <1>1, <1>2, <1>3, <1>4 DEF LoopInv, ControlOK

\* What a padded test case tells while a combination is located.
LEMMA LocateFacts ==
    ASSUME LoopInv, pc = "locate"
    PROVE  /\ tfail \in Testcase /\ MFS \in SUBSET Comb /\ HasSafeValues(MFS)
           /\ fixedParameters \in SUBSET Params
           /\ Faulty(getComb(Params, tfail), MFS)
           /\ \A s : Healthy(getComb(s, tfail), tfail) <=> ~Faulty(getComb(s, tfail), MFS)
           /\ \A mf \in MFS : contains(tfail, mf) => schemaOf(mf) \cap fixedParameters = {}
<1>1. /\ tfail \in Testcase /\ MFS \in SUBSET Comb /\ HasSafeValues(MFS)
      /\ fixedParameters \in SUBSET Params /\ ~check(tfail, MFS)
  BY InputFacts DEF LoopInv, LoopTypeOK, ControlOK
<1>2. Faulty(getComb(Params, tfail), MFS)
  BY <1>1, WholeTestcase
<1>3. \A s : Healthy(getComb(s, tfail), tfail) <=> ~Faulty(getComb(s, tfail), MFS)
  BY <1>1, SafePadding DEF Healthy, safeValues
<1>4. \A mf \in MFS : contains(tfail, mf) => schemaOf(mf) \cap fixedParameters = {}
  BY DEF LoopInv, FixedIsSettled, MFSIn
<1> QED BY <1>1, <1>2, <1>3, <1>4

\* The records of a padded test case keep their types.
LEMMA RecordTypes ==
    ASSUME LoopInv, pc = "locate", NEW s, check_with_safevalues(getComb(s, tfail), tfail)
    PROVE  /\ healthyCombs' \subseteq Comb /\ faultyCombs' \subseteq Comb
           /\ executedTestcase' \subseteq Testcase
<1> DEFINE c == getComb(s, tfail)
<1>1. c \in Comb /\ paddingWithSafeValues(c, safeValues, tfail) \in Testcase
  BY LocateFacts, getCombType, PaddingType DEF safeValues
<1>2. check_with_safevalues(c, tfail)
  OBVIOUS
<1> HIDE DEF c
<1> QED BY <1>1, <1>2 DEF check_with_safevalues, LoopInv, LoopTypeOK, ResolverTypeOK

\* A real combination has been located: its parameters become fixed and safe.
LEMMA TakeStep ==
    ASSUME LoopInv, pc = "locate", NEW L \in SUBSET Params, getComb(L, tfail) \in MFS,
           TakeMFS(L), pc' = "check", UNCHANGED <<resolverVars, next>>
    PROVE  LoopInv'
<1> DEFINE mf0 == getComb(L, tfail)
           start == Tfail[next]
<1>1. /\ tfail \in Testcase /\ MFS \in SUBSET Comb /\ HasSafeValues(MFS)
      /\ fixedParameters \in SUBSET Params
  BY LocateFacts
<1>2. /\ MFS' = MFS /\ Tfail' = Tfail /\ next' = next /\ InputsOK'
      /\ \A test : MFSIn(test)' = MFSIn(test)
      /\ UNCHANGED <<conducted, MFC_identified, records>>
  BY InputsStay DEF LoopInv, resolverVars
<1>3. /\ MFSSet' = MFSSet \cup {mf0} /\ fixedParameters' = fixedParameters \cup L
      /\ tfail' = paddingWithSafeValues(getComb(Params \ L, tfail), safeValues, tfail)
  BY DEF TakeMFS
<1>4. /\ MFSSet \subseteq MFSIn(start)
      /\ fixedParameters = UNION {schemaOf(mf) : mf \in MFSSet}
      /\ \A mf \in MFSSet : \A other \in MFSSet \ {mf} :
            schemaOf(mf) \cap schemaOf(other) = {}
      /\ MFSIn(tfail) = {mf \in MFSIn(start) : schemaOf(mf) \cap fixedParameters = {}}
  BY DEF LoopInv, FixedIsSettled
<1>5. schemaOf(mf0) = L /\ contains(tfail, mf0) /\ mf0 \in MFS /\ mf0 \in Comb
  BY <1>1, SchemaOfComb
<1> HIDE DEF mf0, start
<1>6. mf0 \in MFSIn(start) /\ L \cap fixedParameters = {}
  BY <1>4, <1>5 DEF MFSIn
<1>7. tfail' \in Testcase
  BY <1>1, <1>3, PaddingType DEF safeValues
<1>8. \A mf \in MFS : contains(tfail', mf) <=> contains(tfail, mf) /\ schemaOf(mf) \cap L = {}
  <2>1. \A mf \in MFS : contains(tfail', mf) <=> contains(getComb(Params \ L, tfail), mf)
    BY <1>1, <1>3, PaddingContains DEF safeValues
  <2>2. \A mf \in MFS : contains(getComb(Params \ L, tfail), mf)
                            <=> contains(tfail, mf) /\ schemaOf(mf) \subseteq Params \ L
    BY <1>1, PartContains
  <2>3. \A mf \in MFS : schemaOf(mf) \subseteq Params \ L <=> schemaOf(mf) \cap L = {}
    BY DEF schemaOf
  <2> QED BY <2>1, <2>2, <2>3
<1>9. MFSIn(tfail') = {mf \in MFSIn(start) : schemaOf(mf) \cap fixedParameters' = {}}
  <2>1. MFSIn(tfail') = {mf \in MFSIn(tfail) : schemaOf(mf) \cap L = {}}
    BY <1>8 DEF MFSIn
  <2>2. \A mf : schemaOf(mf) \cap fixedParameters' = {}
                  <=> schemaOf(mf) \cap fixedParameters = {} /\ schemaOf(mf) \cap L = {}
    BY <1>3
  <2>3. MFSIn(tfail) = {mf \in MFSIn(start) : schemaOf(mf) \cap fixedParameters = {}}
    BY <1>4
  <2> QED BY <2>1, <2>2, <2>3
<1>10. fixedParameters' = UNION {schemaOf(mf) : mf \in MFSSet'}
  BY <1>3, <1>4, <1>5
<1>11. \A mf \in MFSSet' : \A other \in MFSSet' \ {mf} :
           schemaOf(mf) \cap schemaOf(other) = {}
  BY <1>3, <1>4, <1>5, <1>6
<1>12. FixedIsSettled'
  <2>1. start' = start
    BY <1>2 DEF start
  <2>2. MFSSet' \subseteq MFSIn(start)
    BY <1>3, <1>4, <1>6
  <2>3. MFSIn(tfail)' = MFSIn(tfail')
    BY <1>2 DEF MFSIn
  <2>4. MFSIn(start)' = MFSIn(start)
    BY <1>2, <2>1 DEF MFSIn
  <2> QED BY <1>9, <1>10, <1>11, <2>2, <2>3, <2>4 DEF FixedIsSettled, start
<1>13. LoopTypeOK'
  BY <1>1, <1>2, <1>3, <1>5, <1>7 DEF LoopInv, LoopTypeOK, ResolverTypeOK, records
<1> QED BY <1>2, <1>12, <1>13 DEF LoopInv, ControlOK
-----------------------------------------------------------------------------
(***************************************************************************)
(* FIC.                                                                    *)
(***************************************************************************)

\* FIC is an instance here; it reads combinations as this module does.
LEMMA SameCombinations ==
    /\ Fic!Params = Params /\ Fic!UNKNOWN = UNKNOWN
    /\ \A a, b : Fic!contains(a, b) = contains(a, b)
    /\ \A c : Fic!schemaOf(c) = schemaOf(c)
    /\ \A s, test : Fic!getComb(s, test) = getComb(s, test)
    /\ \A test, M : Fic!check(test, M) = check(test, M)
    /\ \A c : Fic!IsFaulty(c) = IsFaulty(c)
    /\ Fic!SafeValuesMissing = SafeValuesMissing
    /\ Fic!safeValues = safeValues
    /\ \A c, v, test : Fic!paddingWithSafeValues(c, v, test)
                           = paddingWithSafeValues(c, v, test)
    /\ \A c, test : Fic!Healthy(c, test) = Healthy(c, test)
<1>1. Fic!Params = Params /\ Fic!UNKNOWN = UNKNOWN
  BY DEF Fic!Params, Params, Fic!UNKNOWN, UNKNOWN
<1>2. /\ \A a, b : Fic!contains(a, b) = contains(a, b)
      /\ \A c : Fic!schemaOf(c) = schemaOf(c)
      /\ \A s, test : Fic!getComb(s, test) = getComb(s, test)
  BY <1>1 DEF Fic!contains, contains, Fic!schemaOf, schemaOf, Fic!getComb, getComb
<1>3. \A test, M : Fic!check(test, M) = check(test, M)
  BY <1>2 DEF Fic!check, check
<1>4. \A c : Fic!IsFaulty(c) = IsFaulty(c)
  BY <1>2 DEF Fic!IsFaulty, IsFaulty, Fic!Faulty, Faulty
<1>5. \A p, M : Fic!ValuesAt(p, M) = ValuesAt(p, M)
  BY <1>1 DEF Fic!ValuesAt, ValuesAt
<1>6. Fic!SafeValuesMissing = SafeValuesMissing
  BY <1>1, <1>5 DEF Fic!SafeValuesMissing, SafeValuesMissing, Fic!HasSafeValues, HasSafeValues
<1>7. Fic!safeValues = safeValues
  BY <1>1, <1>5 DEF Fic!safeValues, safeValues, Fic!compute_safe_values, compute_safe_values
<1>8. \A c, v, test : Fic!paddingWithSafeValues(c, v, test) = paddingWithSafeValues(c, v, test)
  BY <1>1 DEF Fic!paddingWithSafeValues, paddingWithSafeValues
<1>9. \A c, test : Fic!Healthy(c, test) = Healthy(c, test)
  BY <1>3, <1>7, <1>8 DEF Fic!Healthy, Healthy
<1> QED BY <1>1, <1>2, <1>3, <1>4, <1>6, <1>7, <1>8, <1>9

\* The loop around FIC's search is the loop of this module.
LEMMA SameLoop ==
    /\ Fic!Outer => Outer
    /\ Fic!CheckFails => CheckFails
    /\ \A L : Fic!TakeMFS(L) => TakeMFS(L)
    /\ \A c, test : Fic!check_with_safevalues(c, test) => check_with_safevalues(c, test)
<1> USE DEF Fic!inputs, inputs, Fic!records, records, Fic!resolverVars, resolverVars,
            Fic!loopVars, loopVars
<1>1. Fic!Conduct => Conduct
  BY SameCombinations DEF Fic!Conduct, Conduct
<1>2. Fic!Reset => Reset
  BY DEF Fic!Reset, Reset, Fic!ResolverReset, ResolverReset
<1>3. Fic!BeginTestcase => BeginTestcase
  BY DEF Fic!BeginTestcase, BeginTestcase
<1>4. Fic!FinishConduct => FinishConduct
  BY DEF Fic!FinishConduct, FinishConduct
<1>5. Fic!CheckPasses => CheckPasses
  BY SameCombinations DEF Fic!CheckPasses, CheckPasses
<1>6. Fic!CheckFails => CheckFails
  BY SameCombinations DEF Fic!CheckFails, CheckFails
<1>7. \A L : Fic!TakeMFS(L) => TakeMFS(L)
  BY SameCombinations DEF Fic!TakeMFS, TakeMFS
<1>8. \A c, test : Fic!check_with_safevalues(c, test) => check_with_safevalues(c, test)
  BY SameCombinations DEF Fic!check_with_safevalues, check_with_safevalues
<1> QED BY <1>1, <1>2, <1>3, <1>4, <1>5, <1>6, <1>7, <1>8 DEF Fic!Outer, Outer

\* The parameters that are left when those below k have been tried.
LeftAt(k) == fixedParameters \cup located \cup k .. N - 1

\* What is left fails, and what was put back is in each of its faults.
FICInv ==
    pc = "locate" =>
        /\ i \in 0 .. N
        /\ located \subseteq 0 .. i - 1
        /\ comb = getComb(LeftAt(i), tfail)
        /\ Faulty(comb, MFS)
        /\ \A mf \in MFS : contains(comb, mf) => located \subseteq schemaOf(mf)

\* The parameters left are parameters.
LEMMA LeftIsSchema ==
    ASSUME LoopInv, FICInv, pc = "locate"
    PROVE  located \in SUBSET Params /\ LeftAt(i) \in SUBSET Params
<1>1. fixedParameters \in SUBSET Params /\ i \in 0 .. N /\ located \subseteq 0 .. i - 1
  BY LocateFacts DEF FICInv
<1>2. 0 .. i - 1 \subseteq Params /\ i .. N - 1 \subseteq Params
  BY <1>1, NAssumption DEF Params
<1> QED BY <1>1, <1>2 DEF LeftAt

\* A parameter is tried: it is needed or taken away.
LEMMA TryParameterStep == ASSUME LoopInv, FICInv, Fic!TryParameter PROVE LoopInv' /\ FICInv'
<1> DEFINE without == [comb EXCEPT ![i] = UNKNOWN]
           K == LeftAt(i)
           J == LeftAt(i) \ {i}
<1>1. /\ pc = "locate" /\ i < N /\ i \notin fixedParameters
      /\ check_with_safevalues(without, tfail)
      /\ comb' = IF Healthy(without, tfail) THEN comb ELSE without
      /\ located' = IF Healthy(without, tfail) THEN located \cup {i} ELSE located
      /\ i' = i + 1 /\ UNCHANGED <<inputs, conducted, MFC_identified, loopVars>>
  BY SameCombinations, SameLoop DEF Fic!TryParameter, Fic!inputs, inputs, Fic!loopVars, loopVars
<1>2. /\ tfail \in Testcase /\ MFS \in SUBSET Comb
      /\ \A s : Healthy(getComb(s, tfail), tfail) <=> ~Faulty(getComb(s, tfail), MFS)
  BY <1>1, LocateFacts
<1>3. /\ i \in 0 .. N /\ located \subseteq 0 .. i - 1 /\ comb = getComb(K, tfail)
      /\ Faulty(comb, MFS)
      /\ \A mf \in MFS : contains(comb, mf) => located \subseteq schemaOf(mf)
  BY <1>1 DEF FICInv
<1>4. i \in Params /\ i + 1 \in 0 .. N
  BY <1>1, <1>3, NAssumption DEF Params
<1>5. without = getComb(J, tfail)
  BY <1>3, <1>4 DEF getComb
<1>6. i \notin located /\ i .. N - 1 = {i} \cup i + 1 .. N - 1 /\ i \notin i + 1 .. N - 1
  BY <1>1, <1>3, NAssumption
<1>7. J = fixedParameters \cup located \cup i + 1 .. N - 1
      /\ K = fixedParameters \cup (located \cup {i}) \cup i + 1 .. N - 1
  BY <1>1, <1>6 DEF LeftAt
<1>8. UNCHANGED <<pc, tfail, fixedParameters, MFS>>
  BY <1>1 DEF loopVars, inputs
<1> HIDE DEF without, J, K
<1>9. LoopInv'
  BY <1>1, <1>5, RecordTypes, SearchingStep
<1>10. Healthy(without, tfail) <=> ~Faulty(without, MFS)
  BY <1>2, <1>5
<1>11. \A p \in 0 .. i - 1 : p \in 0 .. (i + 1) - 1
  BY <1>3
<1>12. CASE Faulty(without, MFS)
  <2>1. comb' = without /\ located' = located
    BY <1>1, <1>10, <1>12
  <2>2. LeftAt(i)' = J
    BY <1>1, <1>7, <1>8, <2>1 DEF LeftAt
  <2>3. \A mf \in MFS : contains(without, mf) => contains(comb, mf)
    <3>1. contains(comb, without)
      BY <1>3, <1>5, SchemaOrder DEF J, K
    <3> QED BY <3>1, ContainsTransitive
  <2> QED BY <1>1, <1>3, <1>4, <1>5, <1>8, <1>9, <1>11, <1>12, <2>1, <2>2, <2>3 DEF FICInv
<1>13. CASE ~Faulty(without, MFS)
  <2>1. comb' = comb /\ located' = located \cup {i}
    BY <1>1, <1>10, <1>13
  <2>2. LeftAt(i)' = K
    BY <1>1, <1>7, <1>8, <2>1 DEF LeftAt
  <2>3. ASSUME NEW mf \in MFS, contains(comb, mf) PROVE i \in schemaOf(mf)
    <3>1. contains(tfail, mf) /\ schemaOf(mf) \subseteq K
      BY <1>2, <1>3, <2>3, PartContains
    <3>2. ~(contains(tfail, mf) /\ schemaOf(mf) \subseteq J)
      BY <1>2, <1>5, <1>13, PartContains DEF Faulty
    <3> QED BY <3>1, <3>2 DEF J, K
  <2>4. located' \subseteq 0 .. (i + 1) - 1
    BY <1>3, <1>11, <2>1
  <2> QED BY <1>1, <1>3, <1>4, <1>8, <1>9, <2>1, <2>2, <2>3, <2>4 DEF FICInv
<1> QED BY <1>12, <1>13

\* Every step of FIC keeps the two invariants.
LEMMA FICStep == ASSUME LoopInv, FICInv, Fic!Next PROVE LoopInv' /\ FICInv'
<1>1. CASE Fic!Outer /\ UNCHANGED Fic!locateVars
  <2>1. Outer
    BY <1>1, SameLoop
  <2>2. pc' # "locate"
    BY <2>1 DEF Outer, Conduct, Reset, BeginTestcase, FinishConduct, CheckPasses
  <2> QED BY <2>1, <2>2, OuterStep DEF FICInv
<1>2. CASE Fic!StartLocating
  <2>1. CheckFails /\ i' = 0 /\ comb' = tfail /\ located' = {}
    BY <1>2, SameLoop DEF Fic!StartLocating
  <2>2. LoopInv' /\ pc' = "locate"
    BY <2>1, CheckFailsStep
  <2>3. tfail' = tfail /\ fixedParameters' = fixedParameters /\ MFS' = MFS
        /\ ~check(tfail, MFS)
    BY <2>1 DEF CheckFails, inputs
  <2>4. /\ tfail \in Testcase /\ fixedParameters \in SUBSET Params
        /\ Faulty(getComb(Params, tfail), MFS)
    BY <2>3, InputFacts, WholeTestcase DEF LoopInv, LoopTypeOK
  <2>5. LeftAt(i)' = Params
    BY <2>1, <2>3, <2>4 DEF LeftAt, Params
  <2>6. getComb(Params, tfail) = tfail
    BY <2>3, <2>4 DEF getComb, Testcase
  <2>7. 0 \in 0 .. N
    BY NAssumption
  <2> QED BY <2>1, <2>2, <2>3, <2>4, <2>5, <2>6, <2>7 DEF FICInv
<1>3. CASE Fic!SkipFixed
  <2>1. /\ pc = "locate" /\ i < N /\ i \in fixedParameters /\ i' = i + 1
        /\ UNCHANGED <<comb, located, resolverVars, loopVars>>
    BY <1>3 DEF Fic!SkipFixed, Fic!resolverVars, resolverVars, Fic!inputs, inputs,
                Fic!records, records, Fic!loopVars, loopVars
  <2>2. UNCHANGED <<pc, tfail, fixedParameters, MFS, inputs, conducted, MFC_identified>>
        /\ UNCHANGED <<healthyCombs, faultyCombs, executedTestcase>>
    BY <2>1 DEF resolverVars, records, inputs, loopVars
  <2>3. LoopInv'
    BY <2>1, <2>2, SearchingStep DEF LoopInv, LoopTypeOK, ResolverTypeOK
  <2>4. i \in 0 .. N /\ located \subseteq 0 .. i - 1
    BY <2>1 DEF FICInv
  <2>5. i + 1 \in 0 .. N /\ i .. N - 1 = {i} \cup i + 1 .. N - 1 /\ 0 .. i - 1 \subseteq 0 .. (i + 1) - 1
    BY <2>1, <2>4, NAssumption
  <2>6. LeftAt(i)' = LeftAt(i)
    BY <2>1, <2>2, <2>5 DEF LeftAt
  <2> QED BY <2>1, <2>2, <2>3, <2>4, <2>5, <2>6 DEF FICInv
<1>4. CASE Fic!TryParameter
  BY <1>4, TryParameterStep
<1>5. CASE Fic!EndLocating
  <2>1. /\ pc = "locate" /\ i = N /\ TakeMFS(located) /\ pc' = "check"
        /\ UNCHANGED <<resolverVars, next>>
    BY <1>5, SameLoop DEF Fic!EndLocating, Fic!resolverVars, resolverVars, Fic!inputs, inputs,
                          Fic!records, records
  <2>2. /\ tfail \in Testcase /\ MFS \in SUBSET Comb
        /\ \A mf \in MFS : contains(tfail, mf) => schemaOf(mf) \cap fixedParameters = {}
    BY <2>1, LocateFacts
  <2>3. LeftAt(i) = fixedParameters \cup located
    <3>1. i .. N - 1 = {}
      BY <2>1, NAssumption
    <3> QED BY <3>1 DEF LeftAt
  <2>4. PICK mf \in MFS : contains(comb, mf)
    BY <2>1 DEF FICInv, Faulty
  <2>5. contains(tfail, mf) /\ schemaOf(mf) \subseteq fixedParameters \cup located
    BY <2>1, <2>2, <2>3, <2>4, PartContains DEF FICInv
  <2>6. located \subseteq schemaOf(mf)
    BY <2>1, <2>4 DEF FICInv
  <2>7. schemaOf(mf) = located
    BY <2>2, <2>5, <2>6
  <2>8. getComb(located, tfail) \in MFS
    BY <2>2, <2>5, <2>7, CombOfSchema
  <2>9. located \in SUBSET Params
    BY <2>1, LeftIsSchema
  <2>10. LoopInv'
    BY <2>1, <2>8, <2>9, TakeStep
  <2> QED BY <2>1, <2>10 DEF FICInv
<1> QED BY <1>1, <1>2, <1>3, <1>4, <1>5 DEF Fic!Next

\* The invariant implies what the run checks of FIC.
LEMMA FICInvImplies == ASSUME LoopInv, FICInv PROVE Fic!LocatedIsNeeded
<1> SUFFICES ASSUME pc = "locate"
             PROVE  /\ Fic!IsFaulty(comb)
                    /\ \A mf \in MFS : Fic!contains(comb, mf) => located \subseteq Fic!schemaOf(mf)
                    /\ Fic!schemaOf(comb) = fixedParameters \cup located \cup i .. N - 1
  BY DEF Fic!LocatedIsNeeded
<1>1. schemaOf(comb) = LeftAt(i)
  BY LocateFacts, LeftIsSchema, SchemaOfComb DEF FICInv
<1> QED BY <1>1, SameCombinations DEF FICInv, LeftAt, IsFaulty

-----------------------------------------------------------------------------
(***************************************************************************)
(* FICBS.                                                                  *)
(***************************************************************************)

\* The free parameters below p; their number is the position of p in the list.
FreeBelow(p) == {q \in freeParameters : q < p}

\* Without the parameters of s the test case still fails.
FailsWithout(s) == Faulty(getComb(Params \ s, tfail), MFS)

\* Each located parameter is one that the test case cannot lose once the free
\* parameters below it are gone.
LocatedOK ==
    /\ locatedFaultyBits \subseteq Params \ fixedParameters
    /\ freeParameters = Params \ (fixedParameters \cup locatedFaultyBits)
    /\ \A p \in locatedFaultyBits :
          FailsWithout(FreeBelow(p)) /\ ~FailsWithout(FreeBelow(p) \cup {p})

\* The bounds of the bisection and what the tests have told about them.
BisectionOK ==
    /\ left \in Nat
    /\ right \in Int
    /\ left <= right + 1
    /\ right <= Cardinality(freeParameters) - 1
    /\ FailsWithout(UpTo(left - 1))
    /\ IF ans = -1 THEN right = Cardinality(freeParameters) - 1
       ELSE ans = right + 1 /\ ~FailsWithout(UpTo(ans))

FICBSInv == pc = "locate" => LocatedOK /\ BisectionOK

\* Positions in the list of free parameters.
LEMMA RankFacts ==
    ASSUME freeParameters \in SUBSET Params
    PROVE  /\ IsFiniteSet(freeParameters) /\ Cardinality(freeParameters) \in Nat
           /\ \A p \in freeParameters :
                 /\ p \in Int
                 /\ Cardinality(FreeBelow(p)) \in Nat
                 /\ Cardinality(FreeBelow(p)) < Cardinality(freeParameters)
           /\ \A p, q \in freeParameters :
                 p < q <=> Cardinality(FreeBelow(p)) < Cardinality(FreeBelow(q))
<1>1. IsFiniteSet(freeParameters) /\ Cardinality(freeParameters) \in Nat
  BY ParamsFinite, FS_Subset, FS_CardinalityType
<1>2. \A p \in freeParameters : p \in Int
  BY NAssumption DEF Params
<1>3. \A p \in freeParameters :
          IsFiniteSet(FreeBelow(p)) /\ Cardinality(FreeBelow(p)) \in Nat
  <2> SUFFICES ASSUME NEW p \in freeParameters
               PROVE  IsFiniteSet(FreeBelow(p)) /\ Cardinality(FreeBelow(p)) \in Nat
    OBVIOUS
  <2>1. FreeBelow(p) \in SUBSET freeParameters
    BY DEF FreeBelow
  <2> QED BY <1>1, <2>1, FS_Subset, FS_CardinalityType
<1>4. ASSUME NEW p \in freeParameters
      PROVE  Cardinality(FreeBelow(p)) < Cardinality(freeParameters)
  <2>1. FreeBelow(p) \in SUBSET freeParameters /\ p \notin FreeBelow(p)
    BY <1>2 DEF FreeBelow
  <2>2. /\ Cardinality(FreeBelow(p)) <= Cardinality(freeParameters)
        /\ Cardinality(freeParameters) = Cardinality(FreeBelow(p))
               => freeParameters = FreeBelow(p)
    BY <1>1, <2>1, FS_Subset
  <2> QED BY <1>1, <1>3, <2>1, <2>2
<1>5. ASSUME NEW p \in freeParameters, NEW q \in freeParameters, p < q
      PROVE  Cardinality(FreeBelow(p)) < Cardinality(FreeBelow(q))
  <2>1. FreeBelow(p) \in SUBSET FreeBelow(q) /\ p \notin FreeBelow(p) /\ p \in FreeBelow(q)
    BY <1>2, <1>5 DEF FreeBelow
  <2>2. /\ Cardinality(FreeBelow(p)) <= Cardinality(FreeBelow(q))
        /\ Cardinality(FreeBelow(q)) = Cardinality(FreeBelow(p))
               => FreeBelow(q) = FreeBelow(p)
    BY <1>3, <2>1, FS_Subset
  <2> QED BY <1>3, <2>1, <2>2
<1>6. ASSUME NEW p \in freeParameters, NEW q \in freeParameters,
             Cardinality(FreeBelow(p)) < Cardinality(FreeBelow(q))
      PROVE  p < q
  <2>1. p = q \/ p < q \/ q < p
    BY <1>2
  <2>2. ~(q < p)
    BY <1>3, <1>5, <1>6
  <2>3. p # q
    BY <1>3, <1>6
  <2> QED BY <2>1, <2>2, <2>3
<1> QED BY <1>1, <1>2, <1>3, <1>4, <1>5, <1>6

\* The two operators on the list, in terms of positions.
LEMMA ListFacts ==
    ASSUME freeParameters \in SUBSET Params
    PROVE  /\ UpTo(-1) = {} /\ At(-1) = {}
           /\ UpTo(Cardinality(freeParameters) - 1) = freeParameters
           /\ \A k \in Int : UpTo(k) \subseteq freeParameters
           /\ \A k \in Int : UpTo(k) = UpTo(k - 1) \cup At(k)
<1> DEFINE Rank(p) == Cardinality(FreeBelow(p))
<1>1. \A k : UpTo(k) = {p \in freeParameters : Rank(p) <= k}
             /\ At(k) = {p \in freeParameters : Rank(p) = k}
  BY DEF UpTo, At, FreeBelow
<1>2. \A p \in freeParameters : Rank(p) \in Nat /\ Rank(p) < Cardinality(freeParameters)
  BY RankFacts
<1>3. Cardinality(freeParameters) \in Nat
  BY RankFacts
<1> HIDE DEF Rank
<1>4. UpTo(-1) = {} /\ At(-1) = {}
  BY <1>1, <1>2
<1>5. UpTo(Cardinality(freeParameters) - 1) = freeParameters
  <2>1. \A p \in freeParameters : Rank(p) <= Cardinality(freeParameters) - 1
    BY <1>2, <1>3
  <2> QED BY <1>1, <2>1
<1>6. \A k \in Int : UpTo(k) \subseteq freeParameters
  BY <1>1
<1>7. \A k \in Int : UpTo(k) = UpTo(k - 1) \cup At(k)
  <2>1. \A k \in Int : \A p \in freeParameters :
            Rank(p) <= k <=> Rank(p) <= k - 1 \/ Rank(p) = k
    BY <1>2
  <2> QED BY <1>1, <2>1
<1> QED BY <1>4, <1>5, <1>6, <1>7

\* A position that adds a parameter to those before it is the position of one.
LEMMA PositionFacts ==
    ASSUME freeParameters \in SUBSET Params, NEW k \in Int, UpTo(k) # UpTo(k - 1)
    PROVE  \E p \in freeParameters :
              /\ At(k) = {p}
              /\ UpTo(k - 1) = FreeBelow(p)
              /\ UpTo(k) = FreeBelow(p) \cup {p}
<1> DEFINE Rank(p) == Cardinality(FreeBelow(p))
<1>1. UpTo(k) = UpTo(k - 1) \cup At(k)
  BY ListFacts
<1>2. PICK p \in freeParameters : Rank(p) = k
  BY <1>1 DEF At, FreeBelow
<1>3. \A q \in freeParameters : q \in Int /\ Rank(q) \in Nat
  BY RankFacts
<1>4. \A q \in freeParameters : q < p <=> Rank(q) < Rank(p)
  BY RankFacts
<1>5. \A q \in freeParameters : p < q <=> Rank(p) < Rank(q)
  BY RankFacts
<1>6. At(k) = {q \in freeParameters : Rank(q) = k}
      /\ UpTo(k - 1) = {q \in freeParameters : Rank(q) <= k - 1}
  BY DEF At, UpTo, FreeBelow
<1> HIDE DEF Rank
<1>7. At(k) = {p}
  <2>1. \A q \in freeParameters : Rank(q) = k => q = p
    BY <1>2, <1>3, <1>4, <1>5
  <2> QED BY <1>2, <1>6, <2>1
<1>8. UpTo(k - 1) = FreeBelow(p)
  <2>1. \A q \in freeParameters : Rank(q) <= k - 1 <=> q < p
    BY <1>2, <1>3, <1>4
  <2> QED BY <1>6, <2>1 DEF FreeBelow
<1> QED BY <1>1, <1>7, <1>8

\* The answer of the bisection is the first parameter that the test case cannot
\* lose after those before it.
LEMMA AnswerFacts ==
    ASSUME LoopInv, FICBSInv, pc = "locate", left > right, ans # -1
    PROVE  \E p \in freeParameters :
              /\ At(ans) = {p}
              /\ FailsWithout(FreeBelow(p))
              /\ ~FailsWithout(FreeBelow(p) \cup {p})
<1>1. LocatedOK /\ BisectionOK
  BY DEF FICBSInv
<1>2. freeParameters \in SUBSET Params
  BY <1>1 DEF LocatedOK
<1>3. ans = left /\ ans \in Int /\ FailsWithout(UpTo(ans - 1)) /\ ~FailsWithout(UpTo(ans))
  BY <1>1 DEF BisectionOK
<1>4. UpTo(ans) # UpTo(ans - 1)
  BY <1>3
<1>5. PICK p \in freeParameters : /\ At(ans) = {p}
                                  /\ UpTo(ans - 1) = FreeBelow(p)
                                  /\ UpTo(ans) = FreeBelow(p) \cup {p}
  BY <1>2, <1>3, <1>4, PositionFacts
<1> QED BY <1>3, <1>5

\* Without an answer, no free parameter is needed any more.
LEMMA NoAnswerFacts ==
    ASSUME LoopInv, FICBSInv, pc = "locate", left > right, ans = -1
    PROVE  FailsWithout(freeParameters)
<1>1. LocatedOK /\ BisectionOK
  BY DEF FICBSInv
<1>2. freeParameters \in SUBSET Params
  BY <1>1 DEF LocatedOK
<1>3. Cardinality(freeParameters) \in Nat
  BY <1>2, RankFacts
<1>4. left - 1 = Cardinality(freeParameters) - 1 /\ FailsWithout(UpTo(left - 1))
  BY <1>1, <1>3 DEF BisectionOK
<1> QED BY <1>2, <1>4, ListFacts

\* A test case that fails without s fails without less.
LEMMA FailsWithLess ==
    ASSUME LoopInv, pc = "locate", NEW r, NEW s, r \subseteq s, FailsWithout(s)
    PROVE  FailsWithout(r)
<1>1. Params \ s \subseteq Params \ r
  OBVIOUS
<1>2. tfail \in Testcase /\ MFS \in SUBSET Comb
  BY LocateFacts
<1> QED BY <1>1, <1>2, FaultyMonotone DEF FailsWithout

\* The parameter found is behind those located before.
LEMMA LocatedInOrder ==
    ASSUME LoopInv, pc = "locate", LocatedOK, NEW p \in freeParameters,
           ~FailsWithout(FreeBelow(p) \cup {p}), NEW l \in locatedFaultyBits
    PROVE  l < p
<1>1. l \in Int /\ p \in Int /\ l # p
  BY NAssumption DEF LocatedOK, Params
<1> SUFFICES ASSUME p < l PROVE FALSE
  BY <1>1
<1>2. FreeBelow(p) \cup {p} \subseteq FreeBelow(l)
  <2>1. \A q \in freeParameters : q \in Int
    BY NAssumption DEF LocatedOK, Params
  <2>2. \A q \in Int : q < p => q < l
    BY <1>1
  <2> QED BY <2>1, <2>2 DEF FreeBelow
<1>3. FailsWithout(FreeBelow(l))
  BY DEF LocatedOK
<1> QED BY <1>2, <1>3, FailsWithLess

\* No parameter stands before the first position.
LEMMA NoneBefore ==
    ASSUME NEW S \in SUBSET Params
    PROVE  {p \in S : Cardinality({q \in S : q < p}) <= -1} = {}
<1> SUFFICES ASSUME NEW p \in S PROVE Cardinality({q \in S : q < p}) \in Nat
  OBVIOUS
<1>1. {q \in S : q < p} \in SUBSET Params
  OBVIOUS
<1> QED BY <1>1, ParamsFinite, FS_Subset, FS_CardinalityType

\* The bisection over a new list begins with nothing known.
LEMMA BisectionOpens ==
    ASSUME NEW free \in SUBSET Params, OpenBisection(free), FailsWithout({})'
    PROVE  BisectionOK'
<1>1. /\ freeParameters' = free /\ left' = 0 /\ ans' = -1
      /\ right' = Cardinality(free) - 1
  BY DEF OpenBisection
<1>2. Cardinality(free) \in Nat
  BY ParamsFinite, FS_Subset, FS_CardinalityType
<1>3. UpTo(left - 1)' = {}
  <2>1. left' - 1 = -1
    BY <1>1
  <2> QED BY <1>1, <2>1, NoneBefore DEF UpTo
<1>4. FailsWithout(UpTo(left - 1))'
  BY <1>3 DEF FailsWithout
<1> QED BY <1>1, <1>2, <1>4 DEF BisectionOK

\* A search of FICBS begins.
LEMMA StartLocatingStep ==
    ASSUME LoopInv, StartLocating
    PROVE  LoopInv' /\ FICBSInv'
<1>1. /\ CheckFails /\ OpenBisection(Params \ fixedParameters)
      /\ locatedFaultyBits' = {}
  BY DEF StartLocating
<1>2. LoopInv' /\ pc' = "locate"
  BY <1>1, CheckFailsStep
<1>3. /\ tfail' = tfail /\ MFS' = MFS /\ fixedParameters' = fixedParameters
      /\ ~check(tfail, MFS)
  BY <1>1 DEF CheckFails, inputs
<1>4. FailsWithout({})'
  <2>1. Faulty(getComb(Params, tfail), MFS)
    BY <1>3, InputFacts, WholeTestcase DEF LoopInv, LoopTypeOK
  <2>2. Params \ {} = Params
    OBVIOUS
  <2> QED BY <1>3, <2>1, <2>2 DEF FailsWithout
<1>5. BisectionOK'
  <2>1. Params \ fixedParameters \in SUBSET Params
    OBVIOUS
  <2> QED BY <1>1, <1>4, <2>1, BisectionOpens
<1>6. LocatedOK'
  BY <1>1, <1>3 DEF LocatedOK, OpenBisection
<1> QED BY <1>2, <1>5, <1>6 DEF FICBSInv

\* What the located parameters are does not change while the bisection goes on.
LEMMA BisectStep ==
    ASSUME LoopInv, FICBSInv, Bisect
    PROVE  LoopInv' /\ FICBSInv'
<1> DEFINE mid == left + (right - left) \div 2
           c == getComb(Params \ UpTo(mid), tfail)
<1>1. /\ pc = "locate" /\ left <= right /\ check_with_safevalues(c, tfail)
      /\ left'  = IF Healthy(c, tfail) THEN left ELSE mid + 1
      /\ right' = IF Healthy(c, tfail) THEN mid - 1 ELSE right
      /\ ans'   = IF Healthy(c, tfail) THEN mid ELSE ans
      /\ UNCHANGED <<inputs, conducted, MFC_identified, loopVars,
                     freeParameters, locatedFaultyBits>>
  BY DEF Bisect
<1>2. LocatedOK /\ BisectionOK
  BY <1>1 DEF FICBSInv
<1>3. UNCHANGED <<pc, tfail, fixedParameters, MFS>>
  BY <1>1 DEF loopVars, inputs
<1>4. LoopInv'
  BY <1>1, RecordTypes, SearchingStep
<1>5. LocatedOK'
  BY <1>1, <1>2, <1>3 DEF LocatedOK, FailsWithout, FreeBelow
<1>6. mid \in Int /\ left <= mid /\ mid <= right
  BY <1>1, <1>2 DEF BisectionOK
<1>7. Healthy(c, tfail) <=> ~FailsWithout(UpTo(mid))
  BY <1>1, LocateFacts DEF FailsWithout
<1>8. /\ FailsWithout(UpTo(left - 1))' = FailsWithout(UpTo(left' - 1))
      /\ FailsWithout(UpTo(ans))' = FailsWithout(UpTo(ans'))
  BY <1>1, <1>3 DEF FailsWithout, UpTo
<1>9. Cardinality(freeParameters) \in Nat
  BY <1>2, RankFacts DEF LocatedOK
<1> HIDE DEF mid, c
<1>10. BisectionOK'
  <2>1. CASE Healthy(c, tfail)
    <3>1. left' = left /\ right' = mid - 1 /\ ans' = mid /\ ~FailsWithout(UpTo(ans'))
      BY <1>1, <1>7, <2>1
    <3>2. /\ left \in Nat /\ right \in Int /\ right <= Cardinality(freeParameters) - 1
          /\ FailsWithout(UpTo(left' - 1))
      BY <1>2, <3>1 DEF BisectionOK
    <3>3. /\ mid - 1 \in Int /\ left <= (mid - 1) + 1 /\ mid # -1 /\ mid = (mid - 1) + 1
          /\ mid - 1 <= Cardinality(freeParameters) - 1
      BY <1>6, <1>9, <3>2
    <3> QED BY <1>1, <1>8, <3>1, <3>2, <3>3 DEF BisectionOK
  <2>2. CASE ~Healthy(c, tfail)
    <3>1. /\ left' = mid + 1 /\ right' = right /\ ans' = ans /\ left' - 1 = mid
          /\ FailsWithout(UpTo(left' - 1))
      BY <1>1, <1>6, <1>7, <2>2
    <3> QED BY <1>1, <1>2, <1>6, <1>8, <1>9, <3>1 DEF BisectionOK
  <2> QED BY <2>1, <2>2
<1> QED BY <1>4, <1>5, <1>10 DEF FICBSInv

\* The bisection has an answer: it is located and no longer free.
LEMMA FixParameterStep ==
    ASSUME LoopInv, FICBSInv, FixParameter
    PROVE  LoopInv' /\ FICBSInv'
<1>1. /\ pc = "locate" /\ left > right /\ ans # -1
      /\ locatedFaultyBits' = locatedFaultyBits \cup At(ans)
      /\ OpenBisection(freeParameters \ At(ans))
      /\ UNCHANGED <<resolverVars, loopVars>>
  BY DEF FixParameter
<1>2. LocatedOK /\ freeParameters \in SUBSET Params
  BY <1>1 DEF FICBSInv, LocatedOK
<1>3. /\ UNCHANGED <<pc, tfail, fixedParameters, MFS, inputs, conducted, MFC_identified>>
      /\ UNCHANGED <<healthyCombs, faultyCombs, executedTestcase>>
  BY <1>1 DEF resolverVars, records, inputs, loopVars
<1>4. LoopInv'
  BY <1>1, <1>3, SearchingStep DEF LoopInv, LoopTypeOK, ResolverTypeOK
<1>5. PICK p \in freeParameters : /\ At(ans) = {p}
                                  /\ FailsWithout(FreeBelow(p))
                                  /\ ~FailsWithout(FreeBelow(p) \cup {p})
  BY <1>1, AnswerFacts
<1>6. /\ locatedFaultyBits' = locatedFaultyBits \cup {p}
      /\ freeParameters' = freeParameters \ {p}
      /\ p \in Params \ fixedParameters
  BY <1>1, <1>2, <1>5 DEF OpenBisection, LocatedOK
<1>7. \A l \in locatedFaultyBits \cup {p} : FreeBelow(l)' = FreeBelow(l)
  <2>1. \A l \in locatedFaultyBits : l < p
    BY <1>1, <1>2, <1>5, LocatedInOrder
  <2>2. p \in Int /\ \A l \in locatedFaultyBits : l \in Int
    BY <1>2, NAssumption DEF LocatedOK, Params
  <2>3. \A l \in locatedFaultyBits \cup {p} : ~(p < l)
    BY <2>1, <2>2
  <2> QED BY <1>6, <2>3 DEF FreeBelow
<1>8. \A l \in locatedFaultyBits \cup {p} :
          /\ FailsWithout(FreeBelow(l))' = FailsWithout(FreeBelow(l))
          /\ FailsWithout(FreeBelow(l) \cup {l})' = FailsWithout(FreeBelow(l) \cup {l})
  BY <1>3, <1>7 DEF FailsWithout
<1>9. LocatedOK'
  <2>1. \A l \in locatedFaultyBits \cup {p} :
            FailsWithout(FreeBelow(l)) /\ ~FailsWithout(FreeBelow(l) \cup {l})
    BY <1>2, <1>5 DEF LocatedOK
  <2>2. /\ locatedFaultyBits' \subseteq Params \ fixedParameters'
        /\ freeParameters' = Params \ (fixedParameters' \cup locatedFaultyBits')
    BY <1>2, <1>3, <1>6 DEF LocatedOK
  <2> QED BY <1>6, <1>8, <2>1, <2>2 DEF LocatedOK
<1>10. BisectionOK'
  <2>1. FailsWithout({})
    BY <1>1, <1>5, FailsWithLess
  <2>2. FailsWithout({})'
    BY <1>3, <2>1 DEF FailsWithout
  <2>3. freeParameters \ At(ans) \in SUBSET Params
    BY <1>2
  <2> QED BY <1>1, <2>2, <2>3, BisectionOpens
<1> QED BY <1>4, <1>9, <1>10 DEF FICBSInv

\* The bisection has no answer: what was located is a real combination.
LEMMA EndLocatingStep ==
    ASSUME LoopInv, FICBSInv, EndLocating
    PROVE  LoopInv' /\ FICBSInv'
<1>1. /\ pc = "locate" /\ left > right /\ ans = -1 /\ TakeMFS(locatedFaultyBits)
      /\ pc' = "check" /\ UNCHANGED <<resolverVars, next>>
  BY DEF EndLocating
<1>2. LocatedOK /\ freeParameters \in SUBSET Params /\ locatedFaultyBits \in SUBSET Params
  BY <1>1 DEF FICBSInv, LocatedOK
<1>3. /\ tfail \in Testcase /\ MFS \in SUBSET Comb
      /\ \A mf \in MFS : contains(tfail, mf) => schemaOf(mf) \cap fixedParameters = {}
  BY <1>1, LocateFacts
<1>4. PICK mf \in MFS : contains(getComb(Params \ freeParameters, tfail), mf)
  BY <1>1, NoAnswerFacts DEF FailsWithout, Faulty
<1>5. contains(tfail, mf) /\ schemaOf(mf) \subseteq Params \ freeParameters
  BY <1>3, <1>4, PartContains
<1>6. schemaOf(mf) \subseteq locatedFaultyBits
  BY <1>2, <1>3, <1>5 DEF LocatedOK
<1>7. ASSUME NEW l \in locatedFaultyBits PROVE l \in schemaOf(mf)
  <2>1. ~Faulty(getComb(Params \ (FreeBelow(l) \cup {l}), tfail), MFS)
    BY <1>2 DEF LocatedOK, FailsWithout
  <2>2. ~(schemaOf(mf) \subseteq Params \ (FreeBelow(l) \cup {l}))
    BY <1>3, <1>5, <2>1, PartContains DEF Faulty
  <2> QED BY <1>5, <2>2 DEF FreeBelow
<1>8. getComb(locatedFaultyBits, tfail) \in MFS
  <2>1. schemaOf(mf) = locatedFaultyBits
    BY <1>6, <1>7
  <2> QED BY <1>3, <1>5, <2>1, CombOfSchema
<1>9. LoopInv'
  BY <1>1, <1>2, <1>8, TakeStep
<1> QED BY <1>1, <1>9 DEF FICBSInv

\* Every step of FICBS keeps the two invariants.
LEMMA FICBSStep == ASSUME LoopInv, FICBSInv, Next PROVE LoopInv' /\ FICBSInv'
<1>1. CASE Outer /\ UNCHANGED locateVars
  <2>1. pc' # "locate"
    BY <1>1 DEF Outer, Conduct, Reset, BeginTestcase, FinishConduct, CheckPasses
  <2> QED BY <1>1, <2>1, OuterStep DEF FICBSInv
<1> QED BY <1>1, StartLocatingStep, BisectStep, FixParameterStep, EndLocatingStep DEF Next

\* What FIC keeps is a subset of the parameters, computed one by one.
LEMMA KeptByFICSteps ==
    /\ KeptByFIC \in [0 .. N -> SUBSET Params]
    /\ KeptByFIC[0] = Params
    /\ \A k \in 1 .. N :
          KeptByFIC[k] =
              IF \/ k - 1 \in fixedParameters
                 \/ ~IsFaulty(getComb(KeptByFIC[k - 1] \ {k - 1}, tfail))
              THEN KeptByFIC[k - 1] ELSE KeptByFIC[k - 1] \ {k - 1}
<1> DEFINE Def(h, k) ==
        IF k = 0 THEN Params
        ELSE LET kept    == h[k - 1]
                 without == kept \ {k - 1}
             IN IF k - 1 \in fixedParameters \/ ~IsFaulty(getComb(without, tfail))
                THEN kept ELSE without
    Step(j, kept) == IF \/ j \in fixedParameters
                        \/ ~IsFaulty(getComb(kept \ {j}, tfail))
                     THEN kept ELSE kept \ {j}
    step == [j \in Nat |-> [kept \in SUBSET Params |-> Step(j, kept)]]
<1>1. step \in [Nat -> [SUBSET Params -> SUBSET Params]]
  <2>1. \A j \in Nat : \A kept \in SUBSET Params : Step(j, kept) \in SUBSET Params
    OBVIOUS
  <2> HIDE DEF Step
  <2> QED BY <2>1
<1>2. \A j \in Nat : \A kept \in SUBSET Params : step[j][kept] = Step(j, kept)
  <2> HIDE DEF Step
  <2> QED OBVIOUS
<1>3. PICK h \in [0 .. N -> SUBSET Params] :
          h[0] = Params /\ \A k \in 1 .. N : h[k] = step[k - 1][h[k - 1]]
  <2> HIDE DEF step
  <2> DEFINE S == SUBSET Params
  <2>1. Params \in S /\ N \in Nat /\ step \in [Nat -> [S -> S]]
    BY <1>1, NAssumption
  <2> HIDE DEF S
  <2>2. \E h \in [0 .. N -> S] : Stepwise(h, Params, step, N)
    BY <2>1, StepwiseFunction
  <2> QED BY <2>2 DEF S, Stepwise
<1> HIDE DEF step
<1>4. \A k \in 1 .. N : h[k] = Step(k - 1, h[k - 1])
  <2> SUFFICES ASSUME NEW k \in 1 .. N PROVE h[k] = Step(k - 1, h[k - 1])
    OBVIOUS
  <2>1. k - 1 \in Nat /\ k - 1 \in 0 .. N
    BY NAssumption
  <2>2. h[k - 1] \in SUBSET Params
    BY <2>1
  <2> HIDE DEF Step
  <2> QED BY <1>2, <1>3, <2>1, <2>2
<1>5. \A k \in 0 .. N : h[k] = Def(h, k)
  <2> SUFFICES ASSUME NEW k \in 0 .. N PROVE h[k] = Def(h, k)
    OBVIOUS
  <2>1. CASE k = 0
    BY <1>3, <2>1
  <2>2. CASE k # 0
    <3>1. k \in 1 .. N
      BY <2>2
    <3> QED BY <1>4, <2>2, <3>1
  <2> QED BY <2>1, <2>2
<1> HIDE DEF Def
<1>6. h = [k \in 0 .. N |-> Def(h, k)]
  BY <1>5
<1>7. KeptByFIC = CHOOSE g : g = [k \in 0 .. N |-> Def(g, k)]
  BY DEF KeptByFIC, Def
<1>8. KeptByFIC = [k \in 0 .. N |-> Def(KeptByFIC, k)]
  BY <1>6, <1>7, Zenon
<1>9. KeptByFIC[0] = Params
  <2>1. 0 \in 0 .. N /\ Def(KeptByFIC, 0) = Params
    BY NAssumption DEF Def
  <2> QED BY <1>8, <2>1, Zenon
<1>10. \A k \in 1 .. N : KeptByFIC[k] = Step(k - 1, KeptByFIC[k - 1])
  <2> SUFFICES ASSUME NEW k \in 1 .. N
               PROVE  KeptByFIC[k] = Step(k - 1, KeptByFIC[k - 1])
    OBVIOUS
  <2>1. k \in 0 .. N /\ k # 0
    BY NAssumption
  <2>2. KeptByFIC[k] = Def(KeptByFIC, k)
    BY <1>8, <2>1, Zenon
  <2> QED BY <2>1, <2>2 DEF Def
<1>11. KeptByFIC \in [0 .. N -> SUBSET Params]
  <2> DEFINE A == {k \in Nat : k <= N => KeptByFIC[k] \in SUBSET Params}
  <2>1. 0 \in A
    BY <1>9
  <2>2. ASSUME NEW k \in A PROVE k + 1 \in A
    <3> SUFFICES ASSUME k + 1 <= N PROVE KeptByFIC[k + 1] \in SUBSET Params
      OBVIOUS
    <3>1. k <= N /\ k + 1 \in 1 .. N /\ (k + 1) - 1 = k
      BY NAssumption
    <3>2. KeptByFIC[k] \in SUBSET Params
      BY <3>1
    <3>3. KeptByFIC[k + 1] = Step(k, KeptByFIC[k])
      BY <1>10, <3>1
    <3> QED BY <3>2, <3>3
  <2>3. A = Nat
    <3>1. A \in SUBSET Nat
      OBVIOUS
    <3> HIDE DEF A
    <3> QED BY <2>1, <2>2, <3>1, NatSetInduction
  <2>4. \A k \in 0 .. N : KeptByFIC[k] \in SUBSET Params
    BY <2>3, NAssumption
  <2>5. KeptByFIC = [k \in 0 .. N |-> KeptByFIC[k]]
    BY <1>8, Zenon
  <2> QED BY <2>4, <2>5
<1> QED BY <1>9, <1>10, <1>11

\* A parameter that FIC has tried stays as FIC left it.
LEMMA KeptLater ==
    ASSUME NEW y \in Params, NEW x \in y + 1 .. N
    PROVE  y \in KeptByFIC[x] <=> y \in KeptByFIC[y + 1]
<1> DEFINE A == {n \in Nat : y + 1 <= n /\ n <= N =>
                                (y \in KeptByFIC[n] <=> y \in KeptByFIC[y + 1])}
<1>1. y \in Nat /\ N \in Nat /\ x \in Nat
  BY NAssumption DEF Params
<1>2. 0 \in A
  BY <1>1
<1>3. ASSUME NEW n \in A PROVE n + 1 \in A
  <2> SUFFICES ASSUME y + 1 <= n + 1, n + 1 <= N
               PROVE  y \in KeptByFIC[n + 1] <=> y \in KeptByFIC[y + 1]
    OBVIOUS
  <2>1. CASE n = y
    BY <2>1
  <2>2. CASE n # y
    <3>1. y + 1 <= n /\ n <= N /\ n + 1 \in 1 .. N /\ (n + 1) - 1 = n
      BY <1>1, <2>2
    <3>2. y \in KeptByFIC[n] <=> y \in KeptByFIC[y + 1]
      BY <3>1
    <3>3. \/ KeptByFIC[n + 1] = KeptByFIC[n]
          \/ KeptByFIC[n + 1] = KeptByFIC[n] \ {n}
      BY <3>1, KeptByFICSteps
    <3> QED BY <2>2, <3>2, <3>3
  <2> QED BY <2>1, <2>2
<1>4. A = Nat
  <2>1. A \in SUBSET Nat
    OBVIOUS
  <2> HIDE DEF A
  <2> QED BY <1>2, <1>3, <2>1, NatSetInduction
<1>5. y + 1 <= x /\ x <= N
  BY <1>1
<1> QED BY <1>1, <1>4, <1>5

\* Up to a parameter below which the free ones can go, FIC drops exactly these.
LEMMA FICFollows ==
    ASSUME LoopInv, pc = "locate", LocatedOK, NEW q \in 0 .. N,
           FailsWithout(FreeBelow(q))
    PROVE  KeptByFIC[q] = Params \ FreeBelow(q)
<1> DEFINE A == {n \in Nat : n <= q => KeptByFIC[n] = Params \ FreeBelow(n)}
<1>1. q \in Nat /\ N \in Nat /\ q <= N /\ \A p \in Params : p \in Nat
  BY NAssumption DEF Params
<1>2. 0 \in A
  <2>1. FreeBelow(0) = {}
    BY <1>1 DEF FreeBelow, LocatedOK
  <2> QED BY <2>1, KeptByFICSteps
<1>3. ASSUME NEW n \in A PROVE n + 1 \in A
  <2> SUFFICES ASSUME n + 1 <= q
               PROVE  KeptByFIC[n + 1] = Params \ FreeBelow(n + 1)
    OBVIOUS
  <2>1. n \in Params /\ n + 1 \in 1 .. N /\ (n + 1) - 1 = n /\ n <= q
    BY <1>1 DEF Params
  <2>2. KeptByFIC[n] = Params \ FreeBelow(n)
    BY <2>1
  <2>3. KeptByFIC[n + 1] =
            IF \/ n \in fixedParameters
               \/ ~IsFaulty(getComb(KeptByFIC[n] \ {n}, tfail))
            THEN KeptByFIC[n] ELSE KeptByFIC[n] \ {n}
    BY <2>1, KeptByFICSteps
  <2>4. IsFaulty(getComb(KeptByFIC[n] \ {n}, tfail))
            <=> FailsWithout(FreeBelow(n) \cup {n})
    <3>1. KeptByFIC[n] \ {n} = Params \ (FreeBelow(n) \cup {n})
      BY <2>2
    <3> QED BY <3>1 DEF IsFaulty, FailsWithout
  <2>5. \A p \in Params : p < n + 1 <=> p < n \/ p = n
    BY <1>1
  <2>6. CASE n \in freeParameters
    <3>1. FreeBelow(n + 1) = FreeBelow(n) \cup {n}
      BY <2>1, <2>5, <2>6 DEF FreeBelow, LocatedOK
    <3>2. FreeBelow(n + 1) \subseteq FreeBelow(q)
      <4>1. \A p \in Params : p < n + 1 => p < q
        BY <1>1
      <4> QED BY <4>1 DEF FreeBelow, LocatedOK
    <3>3. FailsWithout(FreeBelow(n) \cup {n})
      BY <3>1, <3>2, FailsWithLess
    <3>4. n \notin fixedParameters
      BY <2>6 DEF LocatedOK
    <3> QED BY <2>2, <2>3, <2>4, <3>1, <3>3, <3>4
  <2>7. CASE n \notin freeParameters
    <3>1. FreeBelow(n + 1) = FreeBelow(n)
      BY <2>5, <2>7 DEF FreeBelow, LocatedOK
    <3>2. n \in fixedParameters \/ ~FailsWithout(FreeBelow(n) \cup {n})
      BY <2>1, <2>7 DEF LocatedOK
    <3> QED BY <2>2, <2>3, <2>4, <3>1, <3>2
  <2> QED BY <2>6, <2>7
<1>4. A = Nat
  <2>1. A \in SUBSET Nat
    OBVIOUS
  <2> HIDE DEF A
  <2> QED BY <1>2, <1>3, <2>1, NatSetInduction
<1> QED BY <1>1, <1>4

\* FIC puts back a parameter that the test case cannot lose after those before it.
LEMMA FICPutsBack ==
    ASSUME LoopInv, pc = "locate", LocatedOK, NEW p \in Params,
           FailsWithout(FreeBelow(p)), ~FailsWithout(FreeBelow(p) \cup {p})
    PROVE  /\ p \in KeptByFIC[N]
           /\ \A q \in FreeBelow(p) : q \notin KeptByFIC[N]
<1>1. /\ p \in Nat /\ N \in Nat /\ p \in 0 .. N /\ p + 1 \in 1 .. N /\ (p + 1) - 1 = p
      /\ N \in p + 1 .. N
  BY NAssumption DEF Params
<1>2. KeptByFIC[p] = Params \ FreeBelow(p)
  BY <1>1, FICFollows
<1>3. p \in KeptByFIC[p] /\ KeptByFIC[p] \ {p} = Params \ (FreeBelow(p) \cup {p})
  BY <1>1, <1>2 DEF FreeBelow
<1>4. ~IsFaulty(getComb(KeptByFIC[p] \ {p}, tfail))
  BY <1>3 DEF IsFaulty, FailsWithout
<1>5. KeptByFIC[p + 1] =
          IF \/ p \in fixedParameters
             \/ ~IsFaulty(getComb(KeptByFIC[p] \ {p}, tfail))
          THEN KeptByFIC[p] ELSE KeptByFIC[p] \ {p}
  BY <1>1, KeptByFICSteps
<1>6. p \in KeptByFIC[N]
  BY <1>1, <1>3, <1>4, <1>5, KeptLater
<1>7. ASSUME NEW q \in FreeBelow(p) PROVE q \notin KeptByFIC[N]
  <2>1. q \in Params /\ q < p /\ q \notin KeptByFIC[p]
    BY <1>2 DEF FreeBelow, LocatedOK
  <2>2. p \in q + 1 .. N /\ N \in q + 1 .. N
    BY <1>1, <2>1 DEF Params
  <2> QED BY <2>1, <2>2, KeptLater
<1> QED BY <1>6, <1>7

\* The invariant implies that the bisection answers what FIC would find.
LEMMA FICBSInvImplies == ASSUME LoopInv, FICBSInv PROVE SameAsFIC
<1> DEFINE ofFIC == KeptByFIC[N] \ fixedParameters
           open == ofFIC \ locatedFaultyBits
<1> SUFFICES ASSUME pc = "locate"
             PROVE  /\ locatedFaultyBits \subseteq ofFIC
                    /\ left > right => At(ans) = {p \in open : \A q \in open : p <= q}
  BY DEF SameAsFIC
<1>1. LocatedOK /\ BisectionOK
  BY DEF FICBSInv
<1>2. KeptByFIC[N] \in SUBSET Params
  <2>1. N \in 0 .. N
    BY NAssumption
  <2> QED BY <2>1, KeptByFICSteps
<1>3. freeParameters \in SUBSET Params /\ open \subseteq freeParameters
  BY <1>1, <1>2 DEF LocatedOK
<1>4. \A p \in freeParameters : p \in Nat
  BY <1>3, NAssumption DEF Params
<1>5. ASSUME NEW l \in locatedFaultyBits PROVE l \in ofFIC
  <2>1. /\ l \in Params /\ l \notin fixedParameters
        /\ FailsWithout(FreeBelow(l)) /\ ~FailsWithout(FreeBelow(l) \cup {l})
    BY <1>1 DEF LocatedOK
  <2> QED BY <1>1, <2>1, FICPutsBack
<1>6. ASSUME left > right PROVE At(ans) = {p \in open : \A q \in open : p <= q}
  <2>1. CASE ans = -1
    <3>1. FailsWithout(freeParameters)
      BY <1>6, <2>1, NoAnswerFacts
    <3>2. N \in 0 .. N /\ FreeBelow(N) = freeParameters
      <4>1. \A p \in Params : p < N
        BY NAssumption DEF Params
      <4> QED BY <1>3, <4>1, NAssumption DEF FreeBelow
    <3>3. KeptByFIC[N] = Params \ freeParameters
      BY <1>1, <3>1, <3>2, FICFollows
    <3>4. open = {}
      BY <1>3, <3>3
    <3>5. At(ans) = {}
      BY <1>3, <2>1, ListFacts
    <3> HIDE DEF open
    <3> QED BY <3>4, <3>5
  <2>2. CASE ans # -1
    <3>1. PICK p \in freeParameters : /\ At(ans) = {p}
                                      /\ FailsWithout(FreeBelow(p))
                                      /\ ~FailsWithout(FreeBelow(p) \cup {p})
      BY <1>6, <2>2, AnswerFacts
    <3>2. p \in Params /\ p \notin fixedParameters /\ p \notin locatedFaultyBits
      BY <1>1 DEF LocatedOK
    <3>3. /\ p \in KeptByFIC[N]
          /\ \A q \in FreeBelow(p) : q \notin KeptByFIC[N]
      BY <1>1, <3>1, <3>2, FICPutsBack
    <3>4. p \in open
      BY <3>2, <3>3
    <3>5. \A q \in open : ~(q < p)
      BY <1>3, <3>3 DEF FreeBelow
    <3> HIDE DEF open
    <3>6. \A q \in open : q \in Nat
      BY <1>3, <1>4
    <3>7. \A q \in open : p <= q
      BY <3>4, <3>5, <3>6
    <3>8. \A q \in open : q <= p => q = p
      BY <3>4, <3>6, <3>7
    <3> QED BY <3>1, <3>4, <3>7, <3>8
  <2> QED BY <2>1, <2>2
<1> QED BY <1>5, <1>6

-----------------------------------------------------------------------------
(***************************************************************************)
(* The two methods behind one name.                                        *)
(***************************************************************************)
MethodInv ==
    /\ method \in {"FIC", "FICBS"}
    /\ LoopInv
    /\ method = "FIC" => FICInv
    /\ method = "FICBS" => FICBSInv

\* The resolver has been constructed and nothing is being located.
LEMMA InitHolds == MethodInit => MethodInv
<1> SUFFICES ASSUME MethodInit PROVE MethodInv
  OBVIOUS
<1>1. /\ MFS \in MFSSets /\ Tfail \in TestLists /\ Constructed
      /\ \A k \in 1 .. Len(Tfail) : ~check(Tfail[k], MFS)
      /\ pc = "idle" /\ next = 1 /\ tfail = Tfail[1]
      /\ fixedParameters = {} /\ MFSSet = {} /\ method \in {"FIC", "FICBS"}
  BY DEF MethodInit, Init, LoopInit, ResolverInit
<1>2. InputsOK
  BY <1>1 DEF InputsOK
<1>3. /\ MFS \in SUBSET Comb /\ Tfail \in Seq(Testcase) /\ Len(Tfail) \in Nat
      /\ Len(Tfail) >= 1 /\ \A k \in 1 .. Len(Tfail) : Tfail[k] \in Testcase
  BY <1>2, InputFacts
<1>4. LoopTypeOK
  <2>1. next \in 1 .. Len(Tfail) + 1 /\ Tfail[1] \in Testcase
    BY <1>1, <1>3
  <2> QED BY <1>1, <1>3, <2>1 DEF LoopTypeOK, ResolverTypeOK, Constructed
<1>5. ControlOK /\ FixedIsSettled /\ FICInv /\ FICBSInv
  BY <1>1 DEF ControlOK, FixedIsSettled, FICInv, FICBSInv
<1> QED BY <1>1, <1>2, <1>4, <1>5 DEF MethodInv, LoopInv

\* Every step of either method keeps the invariant.
LEMMA StepKeeps == MethodInv /\ [MethodNext]_methodVars => MethodInv'
<1> SUFFICES ASSUME MethodInv, [MethodNext]_methodVars PROVE MethodInv'
  OBVIOUS
<1>1. CASE ConductFIC
  <2>1. method = "FIC" /\ method' = method /\ Fic!Next
    BY <1>1 DEF ConductFIC
  <2> QED BY <2>1, FICStep DEF MethodInv
<1>2. CASE ConductFICBS
  <2>1. method = "FICBS" /\ method' = method /\ Next
    BY <1>2 DEF ConductFICBS
  <2> QED BY <2>1, FICBSStep DEF MethodInv
<1>3. CASE UNCHANGED methodVars
  <2>1. UNCHANGED <<method, i, comb, located, MFS, Tfail, conducted, MFC_identified,
                    healthyCombs, faultyCombs, executedTestcase, pc, next, tfail,
                    fixedParameters, MFSSet, freeParameters, locatedFaultyBits,
                    left, right, ans>>
    BY <1>3 DEF methodVars, vars, resolverVars, inputs, records, loopVars, locateVars
  <2>2. UNCHANGED <<inputs, loopVars>>
    BY <2>1 DEF inputs, loopVars
  <2>3. LoopInv'
    BY <2>1, <2>2, SearchingStep DEF MethodInv, LoopInv, LoopTypeOK, ResolverTypeOK
  <2>4. FICInv => FICInv'
    BY <2>1 DEF FICInv, LeftAt
  <2>5. FICBSInv => FICBSInv'
    BY <2>1 DEF FICBSInv, LocatedOK, BisectionOK, FailsWithout, FreeBelow, UpTo
  <2> QED BY <2>1, <2>3, <2>4, <2>5 DEF MethodInv
<1> QED BY <1>1, <1>2, <1>3 DEF MethodNext

\* The inductive invariant holds in every state of both methods.
THEOREM MethodInvHolds == MethodSpec => []MethodInv
BY InitHolds, StepKeeps, PTL DEF MethodSpec

\* What FIC and FICBS have located so far is real and without overlap, and no
\* failure-causing combination left in the test case uses a fixed parameter.
THEOREM FixedStaysSettled == MethodSpec => []FixedIsSettled
<1>1. MethodInv => FixedIsSettled
  BY DEF MethodInv, LoopInv
<1> QED BY <1>1, MethodInvHolds, PTL

\* FIC puts back only parameters of every failure-causing combination that is
\* left.
THEOREM FICLocatesNeeded == MethodSpec => []FICLocatedIsNeeded
<1>1. MethodInv => FICLocatedIsNeeded
  BY FICInvImplies DEF MethodInv, FICLocatedIsNeeded
<1> QED BY <1>1, MethodInvHolds, PTL

\* FICBS answers by bisection the parameter that FIC would put back next.
THEOREM FICBSAgreesWithFIC == MethodSpec => []FICBSSameAsFIC
<1>1. MethodInv => FICBSSameAsFIC
  BY FICBSInvImplies DEF MethodInv, FICBSSameAsFIC
<1> QED BY <1>1, MethodInvHolds, PTL

-----------------------------------------------------------------------------
(***************************************************************************)
(* The safety part of the abstract specification.                          *)
(***************************************************************************)

\* The abstract specification reads combinations as this module does.
LEMMA SameAbstractCombinations ==
    /\ \A M : Abstract!HasSafeValues(M) = HasSafeValues(M)
    /\ \A a, b : Abstract!contains(a, b) = contains(a, b)
    /\ \A c : Abstract!schemaOf(c) = schemaOf(c)
BY DEF Abstract!HasSafeValues, HasSafeValues, Abstract!ValuesAt, ValuesAt,
       Abstract!contains, contains, Abstract!schemaOf, schemaOf,
       Abstract!Params, Params, Abstract!UNKNOWN, UNKNOWN

\* When the test case passes, what was located is an allowed report.
LEMMA PassedIsReport ==
    ASSUME LoopInv, pc = "check", check(tfail, MFS)
    PROVE  MFSSet \in Abstract!Reports(Tfail[next])
<1> DEFINE real == {mf \in MFS : contains(Tfail[next], mf)}
<1>1. /\ MFSSet \subseteq real
      /\ fixedParameters = UNION {schemaOf(mf) : mf \in MFSSet}
      /\ \A mf \in MFSSet : \A other \in MFSSet \ {mf} :
            schemaOf(mf) \cap schemaOf(other) = {}
      /\ MFSIn(tfail) = {mf \in real : schemaOf(mf) \cap fixedParameters = {}}
  BY DEF LoopInv, FixedIsSettled, MFSIn
<1>2. MFSIn(tfail) = {}
  BY DEF check, MFSIn
<1>3. real = {mf \in MFS : Abstract!contains(Tfail[next], mf)}
  BY SameAbstractCombinations
<1> HIDE DEF real
<1>4. \A mf \in real : \E c \in MFSSet : schemaOf(mf) \cap schemaOf(c) # {}
  <2> SUFFICES ASSUME NEW mf \in real
               PROVE  \E c \in MFSSet : schemaOf(mf) \cap schemaOf(c) # {}
    OBVIOUS
  <2>1. PICK p \in schemaOf(mf) : p \in fixedParameters
    BY <1>1, <1>2
  <2>2. PICK c \in MFSSet : p \in schemaOf(c)
    BY <1>1, <2>1
  <2> QED BY <2>1, <2>2
<1>5. /\ \A c, other \in MFSSet : c # other => Abstract!Disjoint(c, other)
      /\ \A mf \in real : \E c \in MFSSet : ~Abstract!Disjoint(mf, c)
  BY <1>1, <1>4, SameAbstractCombinations DEF Abstract!Disjoint
<1> QED BY <1>1, <1>3, <1>5 DEF Abstract!Reports

\* The calls of the client and the ends of the loops are steps of the promise.
LEMMA OuterIsAbstract ==
    ASSUME LoopInv, Outer
    PROVE  [Abstract!Next]_(Abstract!vars)
<1>1. Len(Tfail) \in Nat /\ next \in 1 .. Len(Tfail) + 1
  BY InputFacts DEF LoopInv, LoopTypeOK
<1>2. CASE Conduct
  <2>1. Abstract!Start
    BY <1>2, SameAbstractCombinations DEF Conduct, Abstract!Start, SafeValuesMissing, inputs
  <2> QED BY <2>1 DEF Abstract!Next
<1>3. CASE Reset
  <2>1. Abstract!Reset
    BY <1>3 DEF Reset, ResolverReset, Abstract!Reset, inputs
  <2> QED BY <2>1 DEF Abstract!Next
<1>4. CASE BeginTestcase
  BY <1>4 DEF BeginTestcase, resolverVars, inputs, Abstract!vars
<1>5. CASE FinishConduct
  <2>1. next - 1 = Len(Tfail)
    BY <1>1, <1>5 DEF FinishConduct
  <2>2. Abstract!Finish
    BY <1>5, <2>1 DEF FinishConduct, Abstract!Finish, resolverVars, inputs
  <2> QED BY <2>2 DEF Abstract!Next
<1>6. CASE CheckPasses
  <2>1. /\ pc = "check" /\ pc' = "tfail" /\ check(tfail, MFS) /\ next' = next + 1
        /\ MFC_identified' = MFC_identified \cup MFSSet
        /\ MFS' = MFS /\ Tfail' = Tfail /\ conducted' = conducted
    BY <1>6 DEF CheckPasses, inputs
  <2>2. next - 1 < Len(Tfail) /\ (next + 1) - 1 = (next - 1) + 1 /\ (next - 1) + 1 = next
    BY <1>1, <2>1 DEF LoopInv, ControlOK
  <2>3. MFSSet \in Abstract!Reports(Tfail[next])
    BY <2>1, PassedIsReport
  <2>4. Abstract!Examine
    BY <2>1, <2>2, <2>3 DEF Abstract!Examine
  <2> QED BY <2>4 DEF Abstract!Next
<1> QED BY <1>2, <1>3, <1>4, <1>5, <1>6 DEF Outer

\* A step of the search is not seen from outside.
LEMMA SearchIsSilent ==
    ASSUME UNCHANGED <<inputs, conducted, MFC_identified, next>>,
           pc \in {"check", "locate"}, pc' \in {"check", "locate"}
    PROVE  UNCHANGED Abstract!vars
BY DEF Abstract!vars, inputs

\* Every step of either method is a step of the promise or a stutter.
LEMMA StepIsAbstract ==
    ASSUME MethodInv, [MethodNext]_methodVars
    PROVE  [Abstract!Next]_(Abstract!vars)
<1>1. LoopInv
  BY DEF MethodInv
<1>2. CASE Fic!Next
  <2>1. CASE Fic!Outer
    BY <1>1, <2>1, SameLoop, OuterIsAbstract
  <2>2. CASE \/ Fic!StartLocating \/ Fic!SkipFixed \/ Fic!TryParameter \/ Fic!EndLocating
    <3>1. /\ UNCHANGED <<inputs, conducted, MFC_identified, next>>
          /\ pc \in {"check", "locate"} /\ pc' \in {"check", "locate"}
      BY <2>2 DEF Fic!StartLocating, Fic!CheckFails, Fic!SkipFixed, Fic!TryParameter,
                  Fic!EndLocating, Fic!resolverVars, Fic!inputs, inputs, Fic!loopVars
    <3> QED BY <3>1, SearchIsSilent
  <2> QED BY <1>2, <2>1, <2>2 DEF Fic!Next
<1>3. CASE Next
  <2>1. CASE Outer
    BY <1>1, <2>1, OuterIsAbstract
  <2>2. CASE StartLocating \/ Bisect \/ FixParameter \/ EndLocating
    <3>1. /\ UNCHANGED <<inputs, conducted, MFC_identified, next>>
          /\ pc \in {"check", "locate"} /\ pc' \in {"check", "locate"}
      BY <2>2 DEF StartLocating, CheckFails, Bisect, FixParameter, EndLocating,
                  resolverVars, inputs, loopVars
    <3> QED BY <3>1, SearchIsSilent
  <2> QED BY <1>3, <2>1, <2>2 DEF Next
<1>4. CASE UNCHANGED methodVars
  BY <1>4 DEF methodVars, vars, resolverVars, inputs, loopVars, Abstract!vars
<1> QED BY <1>2, <1>3, <1>4 DEF MethodNext, ConductFIC, ConductFICBS

\* Seen from outside, FIC and FICBS examine one failing test case after the other
\* and report of each a set of real combinations without overlap that no further
\* real one is disjoint from.
THEOREM ImplementsSafety == MethodSpec => Abstract!Safety
<1>1. MethodInit => Abstract!Init
  BY DEF MethodInit, Init, LoopInit, ResolverInit, Constructed, Abstract!Init
<1>2. MethodInv /\ [MethodNext]_methodVars => [Abstract!Next]_(Abstract!vars)
  BY StepIsAbstract
<1> QED BY <1>1, <1>2, MethodInvHolds, PTL DEF MethodSpec, Abstract!Safety
=============================================================================
