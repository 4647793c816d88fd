--------------------------- MODULE Identification ---------------------------
(***************************************************************************)
(* What a resolver that leaves nothing undecided promises its client: one  *)
(* failing test case after the other, it reports exactly the real minimal  *)
(* failure-causing combinations that the test case contains.  How the      *)
(* combinations are found is left open.  NoPend and TRT implement it.      *)
(***************************************************************************)
EXTENDS Combinations, Sequences

VARIABLES
    MFS,             \* the real failure-causing combinations
    Tfail,           \* the failing test cases
    conducted,       \* conduct has been called since the last reset
    MFC_identified,  \* the combinations reported
    examined,        \* how many test cases have been dealt with
    status           \* "idle", "busy" or "failed"

vars == <<MFS, Tfail, conducted, MFC_identified, examined, status>>

Init ==
    /\ conducted = FALSE
    /\ MFC_identified = {}
    /\ examined = 0
    /\ status = "idle"

\* conduct() sets out, or fails at once when there are no safe values.
Start ==
    /\ status = "idle"
    /\ ~conducted
    /\ conducted' = TRUE
    /\ examined' = 0
    /\ status' = IF HasSafeValues(MFS) THEN "busy" ELSE "failed"
    /\ UNCHANGED <<MFS, Tfail, MFC_identified>>

Examine ==
    /\ status = "busy"
    /\ examined < Len(Tfail)
    /\ examined' = examined + 1
    /\ MFC_identified' = MFC_identified
           \cup {mf \in MFS : contains(Tfail[examined + 1], mf)}
    /\ UNCHANGED <<MFS, Tfail, conducted, status>>

Finish ==
    /\ status = "busy"
    /\ examined = Len(Tfail)
    /\ status' = "idle"
    /\ UNCHANGED <<MFS, Tfail, conducted, MFC_identified, examined>>

Reset ==
    /\ status # "busy"
    /\ conducted' = FALSE
    /\ MFC_identified' = {}
    /\ status' = "idle"
    /\ UNCHANGED <<MFS, Tfail, examined>>

Next == Start \/ Examine \/ Finish \/ Reset

Safety == Init /\ [][Next]_vars

Spec == Safety /\ WF_vars(Examine \/ Finish)
=============================================================================
