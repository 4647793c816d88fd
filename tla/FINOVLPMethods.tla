--------------------------- MODULE FINOVLPMethods ---------------------------
(***************************************************************************)
(* The two subclasses of FINOVLPFaultResolver behind the names that Main   *)
(* accepts: the entries "FIC" and "FICBS" of METHOD_MAP.  The resolver     *)
(* that Main has created stays the same until the program ends.            *)
(***************************************************************************)
EXTENDS FICBS

VARIABLES
    method,            \* args[1] of Main
    i, comb, located   \* the locals of FIC's locateOneMFC

Fic == INSTANCE FIC

methodVars == <<vars, method, i, comb, located>>

\* METHOD_MAP.get(methodName) has given the constructor of the resolver.
MethodInit ==
    /\ Init
    /\ Fic!LocateInit
    /\ method \in {"FIC", "FICBS"}

ConductFIC ==
    /\ method = "FIC"
    /\ Fic!Next
    /\ UNCHANGED <<method, locateVars>>

ConductFICBS ==
    /\ method = "FICBS"
    /\ Next
    /\ UNCHANGED <<method, i, comb, located>>

MethodNext == ConductFIC \/ ConductFICBS

\* conduct runs to its end on the calling thread; clients need not call it.
MethodWork ==
    /\ pc \notin {"idle", "thrown"}
    /\ MethodNext

MethodSpec == MethodInit /\ [][MethodNext]_methodVars /\ WF_methodVars(MethodWork)

-----------------------------------------------------------------------------
(***************************************************************************)
(* Properties.                                                             *)
(***************************************************************************)

\* FIC: what is left while parameters are taken away still fails, and every
\* parameter that was put back is in each failure-causing combination of what is
\* left (FICFaultResovler.locateOneMFC).
FICLocatedIsNeeded == method = "FIC" => Fic!LocatedIsNeeded

\* FICBS: the bisection answers, with fewer tests, the parameter that FIC would
\* put back next (FICBSFaultResolver.locateOneFixedParameter).
FICBSSameAsFIC == method = "FICBS" => SameAsFIC
=============================================================================
