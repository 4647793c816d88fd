-------------------------- MODULE CandidateMethods --------------------------
(***************************************************************************)
(* The two resolvers that narrow candidates down, behind the names that    *)
(* Main accepts: the entries "ComFIL" and "IterAIFL" of METHOD_MAP.  The   *)
(* resolver that Main has created stays the same until the program ends.   *)
(***************************************************************************)
EXTENDS ComFIL

\* The lists on which ComFIL is studied: a HashSet is iterated in any order, and
\* the number of orders bounds what can be explored.
CONSTANT ComFILTests

VARIABLES
    method,        \* args[1] of Main
    strength, AT   \* the locals of IterAIFL's conduct; its getMinimal uses todo

Iter == INSTANCE IterAIFL

methodVars == <<vars, method, strength, AT>>

\* METHOD_MAP.get(methodName) has given the constructor of the resolver.
MethodInit ==
    /\ Init
    /\ Iter!RoundInit
    /\ \/ method = "ComFIL" /\ Tfail \in ComFILTests
       \/ method = "IterAIFL"

ConductComFIL ==
    /\ method = "ComFIL"
    /\ Next
    /\ UNCHANGED <<method, strength, AT>>

ConductIterAIFL ==
    /\ method = "IterAIFL"
    /\ Iter!Next
    /\ UNCHANGED method

MethodNext == ConductComFIL \/ ConductIterAIFL

\* conduct runs to its end on the calling thread; clients need not call it.
MethodWork ==
    /\ pc \notin {"idle", "thrown"}
    /\ MethodNext

MethodSpec == MethodInit /\ [][MethodNext]_methodVars /\ WF_methodVars(MethodWork)

-----------------------------------------------------------------------------
(***************************************************************************)
(* Properties.                                                             *)
(***************************************************************************)

\* ComFIL: while candidates are removed in the order of a HashSet, no real
\* failure-causing combination is lost and no superfluous one stays
\* (ComFILFaultResolver.conduct).
ComFILKeepsFaults == method = "ComFIL" => CandidatesKeepFaults

\* ComFIL: the report is exactly the set of real failure-causing combinations
\* of the failing test cases, whatever the order and the random padding.
ComFILIsExact == method = "ComFIL" => ExactIdentification

\* IterAIFL: no real failure-causing combination is ever cleared, and the
\* exception "Implementation is wrong" is never thrown.
IterAIFLKeepsFaults == method = "IterAIFL" => Iter!FaultsStaySuspicious

\* IterAIFL: each real failure-causing combination contains a reported one, and
\* the report is minimal and agrees with every test case that passed.
IterAIFLCoversFaults == method = "IterAIFL" => Iter!ReportCoversFaults
=============================================================================
