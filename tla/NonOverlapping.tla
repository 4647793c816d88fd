--------------------------- MODULE NonOverlapping ---------------------------
(***************************************************************************)
(* What FINOVLP promises its client (the name is short for finding non-    *)
(* overlapping failure-causing combinations): for each failing test case   *)
(* it reports real minimal failure-causing combinations that share no      *)
(* parameter, and overlooks none that is disjoint from all the reported    *)
(* ones.  FIC and FICBS implement it.                                      *)
(***************************************************************************)
EXTENDS Combinations, Sequences

VARIABLES
    MFS,             \* the real failure-causing combinations
    Tfail,           \* the failing test cases
    conducted,       \* conduct has been called since the last reset
    MFC_identified,  \* the combinations reported
    examined,        \* how many test cases have been dealt with
    status           \* "idle", "busy" or "failed"

vars == <<MFS, Tfail, conducted, MFC_identified, examined, status>>

Disjoint(comb, other) == schemaOf(comb) \cap schemaOf(other) = {}

\* The sets of combinations that may be reported for the test case t.
Reports(t) ==
    LET real == {mf \in MFS : contains(t, mf)} IN
    {S \in SUBSET real :
        /\ \A comb, other \in S : comb # other => Disjoint(comb, other)
        /\ \A mf \in real : \E comb \in S : ~Disjoint(mf, comb)}

Init ==
    /\ conducted = FALSE
    /\ MFC_identified = {}
    /\ examined = 0
    /\ status = "idle"

Start ==
    /\ status = "idle"
    /\ ~conducted
    /\ conducted' = TRUE
    /\ examined' = 0
    /\ status' = IF HasSafeValues(MFS) THEN "busy" ELSE "failed"
    /\ UNCHANGED <<MFS, Tfail, MFC_identified>>

Examine ==
    /\ status = "busy"
    /\ examined < Len(Tfail)
    /\ examined' = examined + 1
    /\ \E S \in Reports(Tfail[examined + 1]) :
           MFC_identified' = MFC_identified \cup S
    /\ UNCHANGED <<MFS, Tfail, conducted, status>>

Finish ==
    /\ status = "busy"
    /\ examined = Len(Tfail)
    /\ status' = "idle"
    /\ UNCHANGED <<MFS, Tfail, conducted, MFC_identified, examined>>

Reset ==
    /\ status # "busy"
    /\ conducted' = FALSE
    /\ MFC_identified' = {}
    /\ status' = "idle"
    /\ UNCHANGED <<MFS, Tfail, examined>>

Next == Start \/ Examine \/ Finish \/ Reset

Safety == Init /\ [][Next]_vars

Spec == Safety /\ WF_vars(Examine \/ Finish)
=============================================================================
