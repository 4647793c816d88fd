---- MODULE MCEvaluation ----
\* A small evaluation: NoPend's output has every key, that of BEN lacks the
\* proportion of pending schemas.
EXTENDS Evaluation

TwoMethods == <<"BEN", "NoPend">>
OneSubject == <<"dia">>
TwoKeys    == <<"time", "pendingSchemaProportion">>

BENOmits == {<<"BEN", "pendingSchemaProportion">>}
====
