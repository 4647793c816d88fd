---- MODULE MCFINOVLP ----
\* Small instances of FIC and FICBS.
EXTENDS FINOVLPMethods, SmallPrograms
====
