------------------------------ MODULE Measure ------------------------------
(***************************************************************************)
(* Util/Measure: how well a report agrees with the real failure-causing    *)
(* combinations.  The ratios of the code are kept as pairs <<numerator,    *)
(* denominator>>; both arguments are sets, because the rows of a -mfs.csv  *)
(* file are distinct and a report is a HashSet.                            *)
(***************************************************************************)
EXTENDS Integers, FiniteSets

One == <<1, 1>>

\* 0.0 / 0.0 in floating point.
NaN == <<0, 0>>

recall(MFC_real, MFC_identified) ==
    IF MFC_real = {} THEN One
    ELSE <<Cardinality(MFC_identified \cap MFC_real), Cardinality(MFC_real)>>

precision(MFC_real, MFC_identified) ==
    IF MFC_identified = {} THEN One
    ELSE <<Cardinality(MFC_real \cap MFC_identified), Cardinality(MFC_identified)>>

\* 2 * recall * precision / (recall + precision), which is NaN for 0 / 0.
f1(MFC_real, MFC_identified) ==
    LET r == recall(MFC_real, MFC_identified)
        p == precision(MFC_real, MFC_identified)
        product == r[1] * p[1]
        sum     == r[1] * p[2] + p[1] * r[2]
    IN IF sum = 0 THEN NaN ELSE <<2 * product, sum>>

\* The ratio q is exactly 1.
IsOne(q) == q[1] = q[2] /\ q # NaN
=============================================================================
