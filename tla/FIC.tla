-------------------------------- MODULE FIC --------------------------------
(***************************************************************************)
(* FaultResolver/FINOVLP/FICFaultResovler: locateOneMFC takes the free     *)
(* parameters away one by one and puts those back whose removal makes the  *)
(* test case pass.                                                         *)
(***************************************************************************)
EXTENDS FINOVLP

VARIABLES
    i,       \* the loop counter of locateOneMFC
    comb,    \* the combination that is left
    located  \* the local MFS

locateVars == <<i, comb, located>>
vars == <<resolverVars, loopVars, locateVars>>

TypeOK ==
    /\ LoopTypeOK
    /\ i \in 0 .. N
    /\ comb \in Comb
    /\ located \subseteq Params

LocateInit ==
    /\ i = 0
    /\ comb = tfail
    /\ located = {}

Init == LoopInit /\ LocateInit

\* locateOneMFC(tfail, fixedParameters) is called.
StartLocating ==
    /\ CheckFails
    /\ i' = 0
    /\ comb' = tfail
    /\ located' = {}

SkipFixed ==
    /\ pc = "locate"
    /\ i < N
    /\ i \in fixedParameters
    /\ i' = i + 1
    /\ UNCHANGED <<resolverVars, loopVars, comb, located>>

\* Mutant: a needed parameter is not put back.
TryParameterForgets ==
    /\ pc = "locate"
    /\ i < N
    /\ i \notin fixedParameters
    /\ LET without == [comb EXCEPT ![i] = UNKNOWN] IN
       /\ check_with_safevalues(without, tfail)
       /\ comb' = without
       /\ located' = IF Healthy(without, tfail) THEN located \cup {i} ELSE located
    /\ i' = i + 1
    /\ UNCHANGED <<inputs, conducted, MFC_identified, loopVars>>

TryParameter ==
    /\ pc = "locate"
    /\ i < N
    /\ i \notin fixedParameters
    /\ LET without == [comb EXCEPT ![i] = UNKNOWN] IN
       /\ check_with_safevalues(without, tfail)
       /\ comb' = IF Healthy(without, tfail) THEN comb ELSE without
       /\ located' = IF Healthy(without, tfail) THEN located \cup {i} ELSE located
    /\ i' = i + 1
    /\ UNCHANGED <<inputs, conducted, MFC_identified, loopVars>>

EndLocating ==
    /\ pc = "locate"
    /\ i = N
    /\ TakeMFS(located)
    /\ pc' = "check"
    /\ UNCHANGED <<resolverVars, next, locateVars>>

-----------------------------------------------------------------------------
Outer == Conduct \/ Reset \/ BeginTestcase \/ FinishConduct \/ CheckPasses

Next == \/ Outer /\ UNCHANGED locateVars
        \/ StartLocating
        \/ SkipFixed
        \/ TryParameter
        \/ EndLocating

\* conduct runs to its end on the calling thread; clients need not call it.
Work == /\ pc \notin {"idle", "thrown"}
        /\ Next

Spec == Init /\ [][Next]_vars /\ WF_vars(Work)

-----------------------------------------------------------------------------
\* What is left while parameters are taken away still fails, and every parameter
\* that was put back is in each failure-causing combination of what is left, so
\* the search cannot mix two combinations.
LocatedIsNeeded ==
    pc = "locate" =>
        /\ IsFaulty(comb)
        /\ \A mf \in MFS : contains(comb, mf) => located \subseteq schemaOf(mf)
        /\ schemaOf(comb) = fixedParameters \cup located \cup i .. N - 1
=============================================================================
