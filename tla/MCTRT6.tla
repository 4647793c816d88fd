---- MODULE MCTRT6 ----
\* A wide instance of TRT: one failing test case whose every value is needed.
EXTENDS TRT

Alternating  == [i \in Params |-> (i + 1) % 2]
WholeTestMFS == {{Alternating}}
OneTestList  == {<<Alternating>>}
====
