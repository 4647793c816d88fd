---- MODULE MCBEN4 ----
\* The instance with four parameters: its tables are covering arrays.
EXTENDS MCBEN

ASSUME TablesOfFourCover == TablesCover
====
