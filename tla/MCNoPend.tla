---- MODULE MCNoPend ----
\* Small instances of NoPend.
EXTENDS NoPend, SmallPrograms
====
