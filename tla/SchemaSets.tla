----------------------------- MODULE SchemaSets -----------------------------
(***************************************************************************)
(* Schemas (Common/Schema: a BitSet over the parameters) as sets, and the  *)
(* monotone schema sets of Common/MonotoneSchemaSet as sets of schemas.    *)
(* The Java class keeps a LinkedList; MonotoneSchemaSet models the list    *)
(* and is checked against the definitions of this module.                  *)
(***************************************************************************)
EXTENDS Integers, FiniteSets

\* The members of S that include no other member of S, and dually.
Minimal(S) == {s \in S : \A r \in S : r \subseteq s => r = s}
Maximal(S) == {s \in S : \A r \in S : s \subseteq r => r = s}

\* Mutant: the schemas that include the new one are not removed.
AddMinimalKeepsSupersets(S, newschema) ==
    IF \E cur \in S : cur \subseteq newschema THEN S ELSE S \cup {newschema}

\* add of a set built with isMinimal = true.
addMinimal(S, newschema) ==
    IF \E cur \in S : cur \subseteq newschema
    THEN S
    ELSE {cur \in S : ~(newschema \subseteq cur)} \cup {newschema}

\* add of a set built with isMinimal = false.
addMaximal(S, newschema) ==
    IF \E cur \in S : newschema \subseteq cur
    THEN S
    ELSE {cur \in S : ~(cur \subseteq newschema)} \cup {newschema}

\* Mutant: the results are put together without add.
AppendAll(S, T) == S \cup T

\* A loop that adds every schema of T to S.
addAllMinimal(S, T) == Minimal(S \cup T)
addAllMaximal(S, T) == Maximal(S \cup T)

\* complement(universe) of a monotone set.
complement(S, universe) == {universe \ s : s \in S}

HittingSets(S) == {h \in SUBSET UNION S : \A s \in S : h \cap s # {}}

\* getMHS: the minimal hitting sets of the schemas of S.
getMHS(S) == Minimal(HittingSets(S))

\* getMHS throws IllegalArgumentException.
getMHSThrows(S) == S = {} \/ S = {{}}

-----------------------------------------------------------------------------
\* Mutant: a schema that is both maximal and minimal makes no chain.
ProperChains(tops, bottoms) ==
    {c \in [max : tops, min : bottoms] : c.min \subseteq c.max /\ c.min # c.max}

(***************************************************************************)
(* NoPend.getLongestChain.  A chain is a top schema max with a bottom      *)
(* schema min that it includes.  The code keeps the first of the longest   *)
(* in list order; the list order is abstracted, any longest one may be     *)
(* returned.  The empty set is the null that the code returns.             *)
(***************************************************************************)
Chains(tops, bottoms) ==
    {c \in [max : tops, min : bottoms] : c.min \subseteq c.max}

ChainLength(c) == Cardinality(c.max) - Cardinality(c.min) + 1

LongestChains(tops, bottoms) ==
    LET all == Chains(tops, bottoms) IN
    {c \in all : \A d \in all : ChainLength(d) <= ChainLength(c)}

\* getLongestChain throws RuntimeException.
getLongestChainThrows(tops, bottoms) == tops = {} \/ bottoms = {}

-----------------------------------------------------------------------------
(***************************************************************************)
(* A schema within universe is pending while no healthy schema of CMaxP    *)
(* includes it and it includes no faulty schema of CMinF.                  *)
(***************************************************************************)
IsPending(s, CMinF, CMaxP) ==
    /\ \A f \in CMinF : ~(f \subseteq s)
    /\ \A h \in CMaxP : ~(s \subseteq h)

PendingSchemas(universe, CMinF, CMaxP) ==
    {s \in SUBSET universe : IsPending(s, CMinF, CMaxP)}
=============================================================================
