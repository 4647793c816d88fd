---------------------------- MODULE SOFOTProofs ----------------------------
(***************************************************************************)
(* With safe values SOFOT reports, for each failing test case, what its    *)
(* failure-causing combinations have in common; without them it never      *)
(* relates a parameter that they do not share.                             *)
(***************************************************************************)
EXTENDS SOFOT, CommonProofs

InputsOK ==
    /\ MFS \in MFSSets
    /\ Tfail \in TestLists
    /\ \A k \in 1 .. Len(Tfail) : ~check(Tfail[k], MFS)

\* What is reported for the first n failing test cases.
CommonParts(n) ==
    {getComb(CommonPart(Tfail[k]), Tfail[k]) :
         k \in {l \in 1 .. n : CommonPart(Tfail[l]) # {}}}

\* The inner loop works on a copy of the test case that is whole again after
\* each round, and has related only what the faults share, with safe values
\* all of it up to the counter.
ParamOK ==
    pc = "param" =>
        /\ next <= Len(Tfail)
        /\ t = Tfail[next]
        /\ related \subseteq CommonPart(t)
        /\ ~SafeValuesMissing => related = {p \in CommonPart(t) : p < i}

ReportOK ==
    /\ ~conducted => MFC_identified = {}
    /\ pc \in {"tfail", "param"} => conducted
    /\ ~SafeValuesMissing /\ conducted =>
          MFC_identified = CommonParts(IF pc = "idle" THEN Len(Tfail) ELSE next - 1)

Inv ==
    /\ TypeOK
    /\ InputsOK
    /\ ParamOK
    /\ ReportOK

\* The inputs as the proofs use them.
LEMMA InputFacts ==
    ASSUME InputsOK
    PROVE  /\ MFS \in SUBSET Comb /\ Irredundant(MFS)
           /\ Tfail \in Seq(Testcase) /\ Len(Tfail) \in Nat /\ Len(Tfail) >= 1
           /\ \A k \in 1 .. Len(Tfail) : Tfail[k] \in Testcase
<1>1. Tfail \in Seq(Testcase) /\ Tfail # <<>>
  BY TestListsAssumption DEF InputsOK
<1>2. Len(Tfail) \in Nat /\ Len(Tfail) >= 1
  BY <1>1
<1> QED BY <1>1, <1>2, MFSSetsAssumption DEF InputsOK

\* The test case without one parameter is healthy when all its faults use it.
LEMMA TakingAwayTells ==
    ASSUME InputsOK, ~SafeValuesMissing, NEW test \in Testcase, NEW p \in Params
    PROVE  Healthy(getComb(Params \ {p}, test), test) <=> p \in CommonPart(test)
<1>1. MFS \in SUBSET Comb
  BY InputFacts
<1>2. Healthy(getComb(Params \ {p}, test), test)
          <=> ~Faulty(getComb(Params \ {p}, test), MFS)
  BY <1>1, SafePadding DEF Healthy, safeValues, SafeValuesMissing
<1>3. \A mf \in MFS : contains(getComb(Params \ {p}, test), mf)
                          <=> contains(test, mf) /\ p \notin schemaOf(mf)
  <2>1. \A mf \in MFS : schemaOf(mf) \subseteq Params \ {p} <=> p \notin schemaOf(mf)
    BY DEF schemaOf
  <2> QED BY <1>1, <2>1, PartContains
<1> QED BY <1>2, <1>3 DEF Faulty, CommonPart, MFSIn

\* A flip after which the test case passes hits a parameter of every fault.
LEMMA FlippingTells ==
    ASSUME NEW test \in Testcase, NEW p \in Params,
           check([test EXCEPT ![p] = 1 - @], MFS)
    PROVE  p \in CommonPart(test)
<1> SUFFICES ASSUME NEW mf \in MFS, contains(test, mf), p \notin schemaOf(mf)
             PROVE  contains([test EXCEPT ![p] = 1 - @], mf)
  BY DEF CommonPart, MFSIn, check
<1>1. \A j \in Params : j # p => [test EXCEPT ![p] = 1 - @][j] = test[j]
  BY DEF Testcase
<1> QED BY <1>1 DEF contains, schemaOf

\* What the inputs determine stays with them.
LEMMA InputsStay ==
    ASSUME UNCHANGED inputs
    PROVE  /\ MFS' = MFS /\ Tfail' = Tfail
           /\ InputsOK => InputsOK'
           /\ SafeValuesMissing' = SafeValuesMissing
           /\ \A test : CommonPart(test)' = CommonPart(test)
           /\ \A n : CommonParts(n)' = CommonParts(n)
<1>1. MFS' = MFS /\ Tfail' = Tfail
  BY DEF inputs
<1>2. \A test : CommonPart(test)' = CommonPart(test)
  BY <1>1 DEF CommonPart, MFSIn
<1> QED BY <1>1, <1>2 DEF InputsOK, SafeValuesMissing, CommonParts, CommonPart, MFSIn

\* The report grows by the common part of the test case, if there is one.
LEMMA CommonPartsGrow ==
    ASSUME NEW n \in Nat
    PROVE  CommonParts(n + 1) = CommonParts(n) \cup
               (IF CommonPart(Tfail[n + 1]) = {} THEN {}
                ELSE {getComb(CommonPart(Tfail[n + 1]), Tfail[n + 1])})
<1>1. 1 .. n + 1 = (1 .. n) \cup {n + 1}
  OBVIOUS
<1> HIDE DEF CommonPart
<1> QED BY <1>1, Zenon DEF CommonParts

\* The two ways of the inner loop.
LEMMA ParameterStep == ASSUME Inv, TakeAway \/ Flip PROVE Inv'
<1>1. /\ UNCHANGED <<inputs, conducted, MFC_identified, pc, next, t>> /\ pc = "param"
      /\ i < N /\ i' = i + 1
  BY DEF TakeAway, Flip
<1>2. /\ MFS' = MFS /\ Tfail' = Tfail /\ InputsOK /\ InputsOK'
      /\ SafeValuesMissing' = SafeValuesMissing
      /\ CommonPart(t)' = CommonPart(t) /\ \A n : CommonParts(n)' = CommonParts(n)
  BY <1>1, InputsStay DEF Inv
<1>3. /\ next <= Len(Tfail) /\ t = Tfail[next] /\ t \in Testcase /\ i \in Params
      /\ related \subseteq CommonPart(t)
      /\ ~SafeValuesMissing => related = {p \in CommonPart(t) : p < i}
      /\ i \in 0 .. N /\ i + 1 \in 0 .. N
  BY <1>1, NAssumption DEF Inv, TypeOK, ParamOK, Params
<1>4. CommonPart(t) \subseteq Params
  BY DEF CommonPart
<1>5. \A p \in Params : p < i + 1 <=> p < i \/ p = i
  BY <1>3 DEF Params
<1>6. MFS \in SUBSET Comb
  BY <1>2, InputFacts
<1>7. /\ related' \subseteq CommonPart(t)
      /\ ~SafeValuesMissing => related' = {p \in CommonPart(t) : p < i + 1}
      /\ healthyCombs' \subseteq Comb /\ faultyCombs' \subseteq Comb
      /\ executedTestcase' \subseteq Testcase
  <2>1. CASE TakeAway
    <3> DEFINE comb == getComb(Params \ {i}, t)
    <3>1. /\ check_with_safevalues(comb, t) /\ ~SafeValuesMissing
          /\ related' = IF Healthy(comb, t) THEN related \cup {i} ELSE related
      BY <1>3, <2>1 DEF TakeAway
    <3>2. Healthy(comb, t) <=> i \in CommonPart(t)
      BY <1>2, <1>3, <3>1, TakingAwayTells
    <3>3. comb \in Comb /\ paddingWithSafeValues(comb, safeValues, t) \in Testcase
      BY <1>3, getCombType, PaddingType DEF safeValues
    <3> HIDE DEF comb
    <3>4. related' = {p \in CommonPart(t) : p < i + 1}
      BY <1>3, <1>4, <1>5, <3>1, <3>2
    <3> QED BY <3>1, <3>3, <3>4 DEF check_with_safevalues, Inv, TypeOK, ResolverTypeOK
  <2>2. CASE Flip
    <3> DEFINE flipped == [t EXCEPT ![i] = 1 - @]
    <3>1. /\ executedTestcase' = executedTestcase \cup {flipped} /\ SafeValuesMissing
          /\ related' = IF check(flipped, MFS) THEN related \cup {i} ELSE related
          /\ UNCHANGED <<healthyCombs, faultyCombs>>
      BY <2>2 DEF Flip
    <3>2. check(flipped, MFS) => i \in CommonPart(t)
      BY <1>3, FlippingTells
    <3>3. flipped \in Testcase
      BY <1>3 DEF Testcase
    <3> HIDE DEF flipped
    <3> QED BY <1>3, <3>1, <3>2, <3>3 DEF Inv, TypeOK, ResolverTypeOK
  <2> QED BY <2>1, <2>2
<1>8. TypeOK'
  BY <1>1, <1>2, <1>3, <1>4, <1>7 DEF Inv, TypeOK, ResolverTypeOK
<1>9. ParamOK'
  BY <1>1, <1>2, <1>3, <1>7 DEF ParamOK
<1>10. ReportOK'
  BY <1>1, <1>2 DEF Inv, ReportOK
<1> QED BY <1>2, <1>8, <1>9, <1>10 DEF Inv

\* The report of a test case whose parameters have all been tried.
LEMMA EndTestcaseStep == ASSUME Inv, EndTestcase PROVE Inv'
<1>1. /\ UNCHANGED <<inputs, conducted, records, t, i, related>> /\ pc = "param"
      /\ i = N /\ pc' = "tfail" /\ next' = next + 1
      /\ MFC_identified' = IF related = {} THEN MFC_identified
                           ELSE MFC_identified \cup {getComb(related, Tfail[next])}
  BY DEF EndTestcase
<1>2. /\ MFS' = MFS /\ Tfail' = Tfail /\ InputsOK /\ InputsOK'
      /\ SafeValuesMissing' = SafeValuesMissing
      /\ \A n : CommonParts(n)' = CommonParts(n)
  BY <1>1, InputsStay DEF Inv
<1>3. /\ next <= Len(Tfail) /\ t = Tfail[next] /\ t \in Testcase
      /\ ~SafeValuesMissing => related = {p \in CommonPart(t) : p < i}
      /\ next \in 1 .. Len(Tfail) + 1 /\ Len(Tfail) \in Nat
  BY <1>1, <1>2, InputFacts DEF Inv, TypeOK, ParamOK
<1>4. ASSUME ~SafeValuesMissing PROVE related = CommonPart(t)
  <2>1. \A p \in CommonPart(t) : p < N
    BY NAssumption DEF CommonPart, Params
  <2> QED BY <1>1, <1>3, <1>4, <2>1
<1>5. ASSUME ~SafeValuesMissing PROVE MFC_identified' = CommonParts(next' - 1)
  <2>1. MFC_identified = CommonParts(next - 1)
    BY <1>1, <1>5 DEF Inv, ReportOK
  <2>2. next - 1 \in Nat /\ (next - 1) + 1 = next /\ next' - 1 = next
    BY <1>1, <1>3
  <2>3. CommonParts(next) = CommonParts(next - 1) \cup
            (IF CommonPart(Tfail[next]) = {} THEN {}
             ELSE {getComb(CommonPart(Tfail[next]), Tfail[next])})
    BY <2>2, CommonPartsGrow
  <2> QED BY <1>1, <1>3, <1>4, <1>5, <2>1, <2>2, <2>3
<1>6. MFC_identified' \subseteq Comb
  BY <1>1, <1>3, getCombType DEF Inv, TypeOK, ResolverTypeOK
<1>7. TypeOK'
  BY <1>1, <1>2, <1>3, <1>6 DEF Inv, TypeOK, ResolverTypeOK, records
<1>8. conducted
  BY <1>1 DEF Inv, ReportOK
<1> QED BY <1>1, <1>2, <1>5, <1>7, <1>8 DEF Inv, ParamOK, ReportOK

\* The calls of the client and the steps between test cases.
LEMMA OuterStep ==
    ASSUME Inv, Conduct \/ Reset \/ BeginTestcase \/ FinishConduct
    PROVE  Inv'
<1>1. UNCHANGED inputs
  BY DEF Conduct, Reset, ResolverReset, BeginTestcase, FinishConduct, resolverVars
<1>2. /\ MFS' = MFS /\ Tfail' = Tfail /\ InputsOK /\ InputsOK'
      /\ SafeValuesMissing' = SafeValuesMissing
      /\ \A n : CommonParts(n)' = CommonParts(n)
      /\ \A test : CommonPart(test)' = CommonPart(test)
  BY <1>1, InputsStay DEF Inv
<1>3. /\ next \in 1 .. Len(Tfail) + 1 /\ Len(Tfail) \in Nat /\ Len(Tfail) >= 1
      /\ \A k \in 1 .. Len(Tfail) : Tfail[k] \in Testcase
  BY <1>2, InputFacts DEF Inv, TypeOK
<1>4. CASE Conduct
  <2>1. /\ pc' = "tfail" /\ next' = 1 /\ conducted' = TRUE /\ ~conducted
        /\ UNCHANGED <<MFC_identified, records, t, i, related>>
    BY <1>4 DEF Conduct
  <2>2. MFC_identified = {} /\ CommonParts(next' - 1) = {}
    <3>1. 1 .. next' - 1 = {}
      BY <2>1
    <3> QED BY <2>1, <3>1 DEF Inv, ReportOK, CommonParts
  <2>3. TypeOK'
    BY <1>2, <1>3, <2>1 DEF Inv, TypeOK, ResolverTypeOK, records
  <2> QED BY <1>2, <2>1, <2>2, <2>3 DEF Inv, ParamOK, ReportOK
<1>5. CASE Reset
  <2>1. /\ pc' = "idle" /\ conducted' = FALSE /\ MFC_identified' = {}
        /\ executedTestcase' = {} /\ UNCHANGED <<next, t, i, related, healthyCombs, faultyCombs>>
    BY <1>5 DEF Reset, ResolverReset, loopVars
  <2>2. TypeOK'
    BY <1>2, <2>1 DEF Inv, TypeOK, ResolverTypeOK
  <2> QED BY <1>2, <2>1, <2>2 DEF Inv, ParamOK, ReportOK
<1>6. CASE BeginTestcase
  <2>1. /\ pc = "tfail" /\ pc' = "param" /\ next <= Len(Tfail) /\ t' = Tfail[next] /\ i' = 0
        /\ related' = {} /\ UNCHANGED <<conducted, MFC_identified, records, next>>
    BY <1>6 DEF BeginTestcase, resolverVars
  <2>2. \A p \in CommonPart(t') : ~(p < i')
    BY <2>1, NAssumption DEF CommonPart, Params
  <2>3. TypeOK'
    BY <1>2, <1>3, <2>1, NAssumption DEF Inv, TypeOK, ResolverTypeOK, records
  <2>4. ParamOK'
    BY <1>2, <2>1, <2>2 DEF ParamOK
  <2>5. ReportOK'
    BY <1>2, <2>1 DEF Inv, ReportOK
  <2> QED BY <1>2, <2>3, <2>4, <2>5 DEF Inv
<1>7. CASE FinishConduct
  <2>1. /\ pc = "tfail" /\ pc' = "idle" /\ next > Len(Tfail)
        /\ UNCHANGED <<conducted, MFC_identified, records, next, t, i, related>>
    BY <1>7 DEF FinishConduct, resolverVars
  <2>2. next - 1 = Len(Tfail)
    BY <1>3, <2>1
  <2>3. TypeOK'
    BY <1>2, <2>1 DEF Inv, TypeOK, ResolverTypeOK, records
  <2> QED BY <1>2, <2>1, <2>2, <2>3 DEF Inv, ParamOK, ReportOK
<1> QED BY <1>4, <1>5, <1>6, <1>7

-----------------------------------------------------------------------------
(***************************************************************************)
(* The theorems.                                                           *)
(***************************************************************************)

\* Inv holds throughout every run of SOFOTFaultResolver.conduct and reset.
THEOREM InvHolds == Spec => []Inv
<1>1. Init => Inv
  <2> SUFFICES ASSUME Init PROVE Inv
    OBVIOUS
  <2> USE DEF Init, ResolverInit, Constructed
  <2>1. InputsOK
    BY DEF InputsOK
  <2>2. TypeOK
    <3>1. /\ MFS \in SUBSET Comb /\ Tfail \in Seq(Testcase) /\ Tfail[1] \in Testcase
          /\ 1 \in 1 .. Len(Tfail) + 1 /\ 0 \in 0 .. N
      BY <2>1, InputFacts, NAssumption
    <3>2. ResolverTypeOK
      BY <3>1 DEF ResolverTypeOK
    <3> QED BY <3>1, <3>2 DEF TypeOK
  <2> QED BY <2>1, <2>2 DEF Inv, ParamOK, ReportOK
<1>2. Inv /\ [Next]_vars => Inv'
  <2> SUFFICES ASSUME Inv, [Next]_vars PROVE Inv'
    OBVIOUS
  <2>1. CASE UNCHANGED vars
    <3> USE <2>1 DEF vars, loopVars, resolverVars, records
    <3>1. InputsOK' /\ TypeOK'
      BY InputsStay DEF Inv, TypeOK, ResolverTypeOK, inputs
    <3>2. ParamOK' /\ ReportOK'
      BY InputsStay DEF Inv, ParamOK, ReportOK, inputs
    <3> QED BY <3>1, <3>2 DEF Inv
  <2> QED BY <2>1, OuterStep, ParameterStep, EndTestcaseStep DEF Next, Work
<1> QED BY <1>1, <1>2, PTL DEF Spec

\* The variables of SOFOT keep their types; the mutable test case always fixes
\* every parameter again when a round has ended.
THEOREM TypeCorrect == Spec => []TypeOK
<1>1. Inv => TypeOK
  BY DEF Inv
<1> QED BY <1>1, InvHolds, PTL

\* With safe values conduct reports the common parts, for every failing test case.
THEOREM CommonPartsReported == Spec => []ReportsCommonPart
<1>1. Inv => ReportsCommonPart
  BY DEF Inv, ReportOK, CommonParts, ReportsCommonPart
<1> QED BY <1>1, InvHolds, PTL

\* With safe values or without, only parameters that all faults of the test case
\* share are related to its failure.
THEOREM RelatedIsShared == Spec => []NothingUnrelated
<1>1. Inv => NothingUnrelated
  BY DEF Inv, ParamOK, NothingUnrelated
<1> QED BY <1>1, InvHolds, PTL
=============================================================================
