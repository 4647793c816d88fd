------------------------------- MODULE FICBS -------------------------------
(***************************************************************************)
(* FaultResolver/FINOVLP/FICBSFaultResolver: locateOneMFC of the base      *)
(* class calls locateOneFixedParameter until it answers -1; FICBS finds    *)
(* the parameter by bisection over the free ones.                          *)
(*                                                                         *)
(* freeParameters is a list in ascending order from which elements are     *)
(* removed, hence a set here; its k-th element is the one of rank k.       *)
(***************************************************************************)
EXTENDS FINOVLP

VARIABLES
    freeParameters,    \* the locals of locateOneMFC
    locatedFaultyBits,
    left, right, ans   \* the locals of locateOneFixedParameter

locateVars == <<freeParameters, locatedFaultyBits, left, right, ans>>
vars == <<resolverVars, loopVars, locateVars>>

TypeOK ==
    /\ LoopTypeOK
    /\ freeParameters \subseteq Params
    /\ locatedFaultyBits \subseteq Params
    /\ left \in 0 .. N
    /\ right \in -1 .. N - 1
    /\ ans \in -1 .. N - 1

Init ==
    /\ LoopInit
    /\ freeParameters = {}
    /\ locatedFaultyBits = {}
    /\ left = 0
    /\ right = -1
    /\ ans = -1

\* locateOneFixedParameter is called on the free parameters.
OpenBisection(free) ==
    /\ freeParameters' = free
    /\ left' = 0
    /\ right' = Cardinality(free) - 1
    /\ ans' = -1

StartLocating ==
    /\ CheckFails
    /\ OpenBisection(Params \ fixedParameters)
    /\ locatedFaultyBits' = {}

\* freeParameters.get(k), as a singleton, and get(0) .. get(k).
At(k)   == {p \in freeParameters : Cardinality({q \in freeParameters : q < p}) = k}
UpTo(k) == {p \in freeParameters : Cardinality({q \in freeParameters : q < p}) <= k}

\* Mutant: the middle stays in the interval's lower half.
BisectBelow ==
    LET mid  == left + (right - left) \div 2
        comb == getComb(Params \ UpTo(mid), tfail)
    IN /\ pc = "locate"
       /\ left <= right
       /\ check_with_safevalues(comb, tfail)
       /\ left'  = IF Healthy(comb, tfail) THEN left ELSE mid + 1
       /\ right' = IF Healthy(comb, tfail) THEN mid - 1 ELSE right
       /\ ans'   = IF Healthy(comb, tfail) THEN mid - 1 ELSE ans
       /\ UNCHANGED <<inputs, conducted, MFC_identified, loopVars,
                      freeParameters, locatedFaultyBits>>

\* One round of the while loop: the free parameters up to the middle are taken
\* away.
Bisect ==
    LET mid  == left + (right - left) \div 2
        comb == getComb(Params \ UpTo(mid), tfail)
    IN /\ pc = "locate"
       /\ left <= right
       /\ check_with_safevalues(comb, tfail)
       /\ left'  = IF Healthy(comb, tfail) THEN left ELSE mid + 1
       /\ right' = IF Healthy(comb, tfail) THEN mid - 1 ELSE right
       /\ ans'   = IF Healthy(comb, tfail) THEN mid ELSE ans
       /\ UNCHANGED <<inputs, conducted, MFC_identified, loopVars,
                      freeParameters, locatedFaultyBits>>

\* An index comes back: the parameter is located and no longer free.
FixParameter ==
    /\ pc = "locate"
    /\ left > right
    /\ ans # -1
    /\ locatedFaultyBits' = locatedFaultyBits \cup At(ans)
    /\ OpenBisection(freeParameters \ At(ans))
    /\ UNCHANGED <<resolverVars, loopVars>>

EndLocating ==
    /\ pc = "locate"
    /\ left > right
    /\ ans = -1
    /\ TakeMFS(locatedFaultyBits)
    /\ pc' = "check"
    /\ UNCHANGED <<resolverVars, next, locateVars>>

-----------------------------------------------------------------------------
Outer == Conduct \/ Reset \/ BeginTestcase \/ FinishConduct \/ CheckPasses

Next == \/ Outer /\ UNCHANGED locateVars
        \/ StartLocating
        \/ Bisect
        \/ FixParameter
        \/ EndLocating

\* conduct runs to its end on the calling thread; clients need not call it.
Work == /\ pc \notin {"idle", "thrown"}
        /\ Next

Spec == Init /\ [][Next]_vars /\ WF_vars(Work)

-----------------------------------------------------------------------------
(***************************************************************************)
(* Properties.                                                             *)
(***************************************************************************)

\* What FIC keeps after trying the parameters below k one by one.
KeptByFIC[k \in 0 .. N] ==
    IF k = 0 THEN Params
    ELSE LET kept    == KeptByFIC[k - 1]
             without == kept \ {k - 1}
         IN IF k - 1 \in fixedParameters \/ ~IsFaulty(getComb(without, tfail))
            THEN kept ELSE without

\* The bisection locates, parameter by parameter, the combination that FIC finds
\* with one test per parameter: its answer is the next parameter FIC would put
\* back, although the free parameters it has passed stay in the list and are
\* taken away again in every later round.
SameAsFIC ==
    pc = "locate" =>
        LET ofFIC == KeptByFIC[N] \ fixedParameters
            open  == ofFIC \ locatedFaultyBits
        IN /\ locatedFaultyBits \subseteq ofFIC
           /\ left > right =>
                 At(ans) = {p \in open : \A q \in open : p <= q}
=============================================================================
