---- MODULE MCTRT ----
\* Small instances of TRT.
EXTENDS TRT, SmallPrograms
====
