---- MODULE MCCandidates ----
\* Small instances of ComFIL and IterAIFL.
EXTENDS CandidateMethods, SmallPrograms

\* One failing test case of any kind.
OneTest == {<<t>> : t \in Testcase}
====
