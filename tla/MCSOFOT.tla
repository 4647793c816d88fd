---- MODULE MCSOFOT ----
\* Small instances of SOFOT.
EXTENDS SOFOT, SmallPrograms
====
