---------------------------- MODULE FaultResolver ----------------------------
(***************************************************************************)
(* What every fault resolver inherits from AbstractFaultResolver, together *)
(* with the Checker it runs its additional test cases on.                  *)
(*                                                                         *)
(* A resolver is built for one faulty program: MFS are the real minimal    *)
(* failure-causing combinations the Checker knows, Tfail the test cases    *)
(* that fail on it, and safeValues the row that computeSafeValue.py        *)
(* derived from MFS.  For a program without safe values no row exists and  *)
(* there is nothing to pass to setSafeValues: a resolver built for it      *)
(* keeps the null that conduct tests for.                                  *)
(*                                                                         *)
(* Where Tfail comes from is said by two modules that extend this one:     *)
(* FailingTests (any list of failing test cases) and FaultLocalization     *)
(* (the failing rows of a covering array).                                 *)
(*                                                                         *)
(* healthyCombs, faultyCombs and executedTestcase are only asked for       *)
(* membership and for their size as sets, so they are sets here.           *)
(* Checker.counter is written and never read, and is left out.             *)
(***************************************************************************)
EXTENDS Combinations, Sequences, FiniteSets

CONSTANT MFSSets    \* the fault sets a program may have

ASSUME MFSSetsAssumption ==
    \A M \in MFSSets : M \subseteq Comb /\ M # {} /\ Irredundant(M)

VARIABLES
    MFS,              \* Checker.MFS
    Tfail,            \* Tfail
    conducted,        \* conducted
    MFC_identified,   \* MFC_identified
    healthyCombs,     \* healthyCombs
    faultyCombs,      \* faultyCombs
    executedTestcase  \* Checker.executedTestcase

inputs       == <<MFS, Tfail>>
records      == <<healthyCombs, faultyCombs, executedTestcase>>
resolverVars == <<inputs, conducted, MFC_identified, records>>

safeValues == compute_safe_values(MFS)

\* safeValues == null
SafeValuesMissing == ~HasSafeValues(MFS)

ResolverTypeOK ==
    /\ MFS \subseteq Comb
    /\ Tfail \in Seq(Testcase)
    /\ conducted \in BOOLEAN
    /\ MFC_identified \subseteq Comb
    /\ healthyCombs \subseteq Comb
    /\ faultyCombs \subseteq Comb
    /\ executedTestcase \subseteq Testcase

-----------------------------------------------------------------------------
\* What the constructors of the resolver and of its Checker leave.
Constructed ==
    /\ conducted = FALSE
    /\ MFC_identified = {}
    /\ healthyCombs = {}
    /\ faultyCombs = {}
    /\ executedTestcase = {}

\* testcase.tWayComb(t): its combinations of t parameters.
tWayComb(testcase, t) ==
    {getComb(s, testcase) : s \in {r \in SUBSET Params : Cardinality(r) = t}}

\* reset(): the combinations recorded so far stay.
ResolverReset ==
    /\ conducted' = FALSE
    /\ executedTestcase' = {}
    /\ MFC_identified' = {}
    /\ UNCHANGED <<inputs, healthyCombs, faultyCombs>>

\* The answer of check_with_safevalues(comb, tfail): TRUE when comb is healthy.
Healthy(comb, tfail) ==
    check(paddingWithSafeValues(comb, safeValues, tfail), MFS)

\* Mutant: only faulty combinations are recorded.
CheckForgetsHealthy(comb, tfail) ==
    /\ executedTestcase' = executedTestcase
           \cup {paddingWithSafeValues(comb, safeValues, tfail)}
    /\ faultyCombs'  = IF Healthy(comb, tfail)
                       THEN faultyCombs ELSE faultyCombs \cup {comb}
    /\ UNCHANGED healthyCombs

\* The changes check_with_safevalues(comb, tfail) makes.
check_with_safevalues(comb, tfail) ==
    /\ executedTestcase' = executedTestcase
           \cup {paddingWithSafeValues(comb, safeValues, tfail)}
    /\ healthyCombs' = IF Healthy(comb, tfail)
                       THEN healthyCombs \cup {comb} ELSE healthyCombs
    /\ faultyCombs'  = IF Healthy(comb, tfail)
                       THEN faultyCombs ELSE faultyCombs \cup {comb}

\* checkPending(comb): the recorded checks do not decide comb.
checkPending(comb) ==
    /\ \A healthyComb \in healthyCombs : ~contains(healthyComb, comb)
    /\ \A faultyComb \in faultyCombs : ~contains(comb, faultyComb)

-----------------------------------------------------------------------------
(***************************************************************************)
(* What the resolvers are measured against.                                *)
(***************************************************************************)

\* A combination causes failures when it contains a real one.
IsFaulty(comb) == Faulty(comb, MFS)

\* The real failure-causing combinations of one test case.
MFSIn(tfail) == {mf \in MFS : contains(tfail, mf)}

\* The real failure-causing combinations that some failing test case shows.
MFSInTfail == UNION {MFSIn(Tfail[k]) : k \in 1 .. Len(Tfail)}
=============================================================================
