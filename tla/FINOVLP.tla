------------------------------ MODULE FINOVLP ------------------------------
(***************************************************************************)
(* FaultResolver/FINOVLP/FINOVLPFaultResolver: as long as the test case    *)
(* fails, locate one failure-causing combination in it, report it, and     *)
(* replace its values by safe ones.  How one combination is located is     *)
(* left to the subclasses FIC and FICBS.                                   *)
(*                                                                         *)
(* The mutable tfail of the method FINOVLP is passed to Checker.check and  *)
(* stays in the HashSet executedTestcase while its values change.  Here    *)
(* executedTestcase holds the test cases that were run; the size that the  *)
(* code reports may count some of them twice.                              *)
(***************************************************************************)
EXTENDS FailingTests

VARIABLES
    pc,              \* where control is
    next,            \* position in Tfail of the loop of conduct_with_safevalues
    tfail,           \* the mutable test case
    fixedParameters, \* the parameters of the combinations located so far
    MFSSet           \* those combinations

loopVars == <<pc, next, tfail, fixedParameters, MFSSet>>

LoopTypeOK ==
    /\ ResolverTypeOK
    /\ pc \in {"idle", "tfail", "check", "locate", "thrown"}
    /\ next \in 1 .. Len(Tfail) + 1
    /\ tfail \in Testcase
    /\ fixedParameters \subseteq Params
    /\ MFSSet \subseteq Comb

LoopInit ==
    /\ ResolverInit
    /\ pc = "idle"
    /\ next = 1
    /\ tfail = Tfail[1]
    /\ fixedParameters = {}
    /\ MFSSet = {}

-----------------------------------------------------------------------------
\* conduct(): conducted is set before the null check.
Conduct ==
    /\ pc = "idle"
    /\ ~conducted
    /\ conducted' = TRUE
    /\ pc' = IF SafeValuesMissing THEN "thrown" ELSE "tfail"
    /\ next' = 1
    /\ UNCHANGED <<inputs, MFC_identified, records, tfail, fixedParameters, MFSSet>>

Reset ==
    /\ pc \in {"idle", "thrown"}
    /\ ResolverReset
    /\ pc' = "idle"
    /\ UNCHANGED <<next, tfail, fixedParameters, MFSSet>>

\* FINOVLP(_tfail) sets out on a copy of the test case.
BeginTestcase ==
    /\ pc = "tfail"
    /\ next <= Len(Tfail)
    /\ tfail' = Tfail[next]
    /\ fixedParameters' = {}
    /\ MFSSet' = {}
    /\ pc' = "check"
    /\ UNCHANGED <<resolverVars, next>>

FinishConduct ==
    /\ pc = "tfail"
    /\ next > Len(Tfail)
    /\ pc' = "idle"
    /\ UNCHANGED <<resolverVars, next, tfail, fixedParameters, MFSSet>>

\* The loop condition: the test case still fails and a search begins.
CheckFails ==
    /\ pc = "check"
    /\ ~check(tfail, MFS)
    /\ executedTestcase' = executedTestcase \cup {tfail}
    /\ pc' = "locate"
    /\ UNCHANGED <<inputs, conducted, MFC_identified, healthyCombs, faultyCombs,
                   next, tfail, fixedParameters, MFSSet>>

\* Mutant: the report of the previous test case is overwritten.
CheckPassesOverwrites ==
    /\ pc = "check"
    /\ check(tfail, MFS)
    /\ executedTestcase' = executedTestcase \cup {tfail}
    /\ MFC_identified' = MFSSet
    /\ next' = next + 1
    /\ pc' = "tfail"
    /\ UNCHANGED <<inputs, conducted, healthyCombs, faultyCombs,
                   tfail, fixedParameters, MFSSet>>

\* The loop condition: the test case passes and FINOVLP returns MFSSet.
CheckPasses ==
    /\ pc = "check"
    /\ check(tfail, MFS)
    /\ executedTestcase' = executedTestcase \cup {tfail}
    /\ MFC_identified' = MFC_identified \cup MFSSet
    /\ next' = next + 1
    /\ pc' = "tfail"
    /\ UNCHANGED <<inputs, conducted, healthyCombs, faultyCombs,
                   tfail, fixedParameters, MFSSet>>

\* Mutant: the located values stay in the test case.
TakeWithoutPadding(located) ==
    /\ MFSSet' = MFSSet \cup {getComb(located, tfail)}
    /\ fixedParameters' = fixedParameters \cup located
    /\ UNCHANGED tfail

\* The rest of the loop body once locateOneMFC has returned the combination of
\* the located parameters: they become fixed and take their safe values, or
\* the opposite value where the safe value is unknown.
TakeMFS(located) ==
    /\ MFSSet' = MFSSet \cup {getComb(located, tfail)}
    /\ fixedParameters' = fixedParameters \cup located
    /\ tfail' = paddingWithSafeValues(getComb(Params \ located, tfail),
                                      safeValues, tfail)

-----------------------------------------------------------------------------
\* The loop makes progress on real faults: what is in MFSSet is real and without
\* overlap, and no failure-causing combination that is left in the test case
\* uses a parameter that is already fixed, although fixed ones are never
\* searched again.
FixedIsSettled ==
    pc \in {"check", "locate"} =>
        /\ MFSSet \subseteq MFSIn(Tfail[next])
        /\ fixedParameters = UNION {schemaOf(mf) : mf \in MFSSet}
        /\ \A mf \in MFSSet : \A other \in MFSSet \ {mf} :
              schemaOf(mf) \cap schemaOf(other) = {}
        /\ MFSIn(tfail) = {mf \in MFSIn(Tfail[next]) :
                               schemaOf(mf) \cap fixedParameters = {}}

Abstract == INSTANCE NonOverlapping WITH
    examined <- next - 1,
    status   <- CASE pc = "idle"   -> "idle"
                  [] pc = "thrown" -> "failed"
                  [] OTHER         -> "busy"

\* FINOVLP reports, for one failing test case after the other, a set of real
\* failure-causing combinations without overlap that misses no disjoint one,
\* and conduct returns.
ImplementsNonOverlapping == Abstract!Spec
=============================================================================
