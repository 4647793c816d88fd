-------------------------------- MODULE TRT --------------------------------
(***************************************************************************)
(* FaultResolver/NoPend/TRTFaultResolver and its table FaultResolver/      *)
(* NoPend/TRT: the tuple relationship tree keeps the status of all 2^N     *)
(* schemas of a failing test case in two BitSets, healthy and faulty.      *)
(*                                                                         *)
(* A BitSet indexed by schema2int is the set of the schemas whose bit is   *)
(* set.  The depth-first walks of the class visit the same schemas in any  *)
(* order, so a walk is the set of schemas it reaches.                      *)
(***************************************************************************)
EXTENDS ChainSearch, FailingTests

VARIABLES
    pc,      \* where control is
    next,    \* position in Tfail of the loop of conduct_with_safevalues
    healthy, faulty,  \* the status of the schemas
    flag,             \* the schemas marked as visited
    topSchemas        \* the local of conduct_with_safevalues

tableVars == <<healthy, faulty, flag, topSchemas>>
vars == <<resolverVars, pc, next, tableVars, searchVars>>

tfail == Tfail[next]

TypeOK ==
    /\ ResolverTypeOK
    /\ pc \in {"idle", "tfail", "loop", "chain", "search", "thrown"}
    /\ next \in 1 .. Len(Tfail) + 1
    /\ healthy \subseteq Schema
    /\ faulty \subseteq Schema
    /\ flag \subseteq Schema
    /\ topSchemas \subseteq Schema
    /\ SearchTypeOK

-----------------------------------------------------------------------------
(***************************************************************************)
(* The table.                                                              *)
(***************************************************************************)
\* 1 << k
Bit[k \in 0 .. N] == IF k = 0 THEN 1 ELSE 2 * Bit[k - 1]

schema2int(schema) ==
    LET res[k \in 0 .. N] ==
            IF k = 0 THEN 0
            ELSE res[k - 1] + (IF k - 1 \in schema THEN Bit[k - 1] ELSE 0)
    IN res[N]

\* BitSet.size() of flag: the bits its 64-bit words hold, at least 2^N.
flagSize == 64 * ((Bit[N] + 63) \div 64)

\* getTopSchemas clears the bits below flag.size().
AllCleared(marked) == {s \in marked : schema2int(s) >= flagSize}

\* Mutant: the marks of the last walk are not cleared.
NotCleared(marked) == marked

\* getBottomSchemas and getMFS clear the bits below flag.size() - 1.
LastKept(marked) == {s \in marked : schema2int(s) >= flagSize - 1}

\* The schemas that the loop of a walk down or up turns to next.
Down == [s \in Schema |-> {s \ {i} : i \in s}]
Up   == [s \in Schema |-> {s \cup {i} : i \in Params \ s}]

\* The schemas a walk from `from` reaches, going on from those in Through and
\* turning back at those already in `marked`.  Layer by layer: a schema has at
\* most N parameters to lose or to gain.
Reached(from, marked, Through, towards) ==
    LET layer[k \in 0 .. N] ==
            IF k = 0 THEN {from} \ marked
            ELSE LET last == layer[k - 1] IN
                 last \cup ((UNION {towards[s] : s \in last \cap Through}) \ marked)
    IN layer[N]

\* Mutant: the status is not passed on to the subschemas.
SetHealthyOnly(schema) == healthy \cup {schema}

\* setHealthy and setFaulty stop at schemas that already have the status.
setHealthy(schema) == healthy \cup Reached(schema, healthy, Schema, Down)
setFaulty(schema)  == faulty \cup Reached(schema, faulty, Schema, Up)

\* getTopSchemas walks down through the faulty schemas to pending ones.
TopWalk       == Reached(Params, AllCleared(flag), faulty \ healthy, Down)
getTopSchemas == Maximal(TopWalk \ (healthy \cup faulty))

\* getBottomSchemas walks up through the healthy schemas to pending ones.
BottomWalk       == Reached({}, LastKept(flag), healthy \ faulty, Up)
getBottomSchemas == Minimal(BottomWalk \ (healthy \cup faulty))

\* getMFS walks up through the schemas that are not faulty to faulty ones.
MFSWalk == Reached({}, LastKept(flag), Schema \ faulty, Up)

getMFS == Minimal(MFSWalk \cap faulty)

-----------------------------------------------------------------------------
Init ==
    /\ ResolverInit
    /\ pc = "idle"
    /\ next = 1
    /\ healthy = {}
    /\ faulty = {}
    /\ flag = {}
    /\ topSchemas = {}
    /\ SearchInit

\* conduct(): as in NoPend, conducted is set before the null check.
Conduct ==
    /\ pc = "idle"
    /\ ~conducted
    /\ conducted' = TRUE
    /\ pc' = IF SafeValuesMissing THEN "thrown" ELSE "tfail"
    /\ next' = 1
    /\ UNCHANGED <<inputs, MFC_identified, records, tableVars, searchVars>>

Reset ==
    /\ pc \in {"idle", "thrown"}
    /\ ResolverReset
    /\ pc' = "idle"
    /\ UNCHANGED <<next, tableVars, searchVars>>

\* new TRT(n): the test case is faulty and the empty schema healthy.
BeginTestcase ==
    /\ pc = "tfail"
    /\ next <= Len(Tfail)
    /\ healthy' = {{}}
    /\ faulty' = {Params}
    /\ flag' = {}
    /\ pc' = "loop"
    /\ UNCHANGED <<resolverVars, next, topSchemas, searchVars>>

FinishConduct ==
    /\ pc = "tfail"
    /\ next > Len(Tfail)
    /\ pc' = "idle"
    /\ UNCHANGED <<resolverVars, next, tableVars, searchVars>>

\* The loop opens with a walk for the top schemas.
FindTops ==
    /\ pc = "loop"
    /\ topSchemas' = getTopSchemas
    /\ flag' = AllCleared(flag) \cup TopWalk
    /\ pc' = "chain"
    /\ UNCHANGED <<resolverVars, next, healthy, faulty, searchVars>>

\* Mutant: the report of the previous test case is overwritten.
EndTestcaseOverwrites ==
    /\ pc = "chain"
    /\ topSchemas = {}
    /\ MFC_identified' = {getComb(s, tfail) : s \in getMFS}
    /\ healthy' = {}
    /\ faulty' = {}
    /\ flag' = {}
    /\ next' = next + 1
    /\ pc' = "tfail"
    /\ UNCHANGED <<inputs, conducted, records, topSchemas, searchVars>>

\* Nothing is pending: the minimal faulty schemas are reported.
EndTestcase ==
    /\ pc = "chain"
    /\ topSchemas = {}
    /\ MFC_identified' = MFC_identified \cup {getComb(s, tfail) : s \in getMFS}
    /\ healthy' = {}
    /\ faulty' = {}
    /\ flag' = {}
    /\ next' = next + 1
    /\ pc' = "tfail"
    /\ UNCHANGED <<inputs, conducted, records, topSchemas, searchVars>>

\* The maximum of a longest chain is tested, a healthy one enters the table.
TestMaximum(c) ==
    LET comb == getComb(c.max, tfail) IN
    /\ check_with_safevalues(comb, tfail)
    /\ IF Healthy(comb, tfail)
       THEN /\ healthy' = setHealthy(c.max)
            /\ pc' = "loop"
            /\ UNCHANGED searchVars
       ELSE /\ pc' = "search"
            /\ OpenSearch(c)
            /\ UNCHANGED healthy

\* The round goes on; an empty set of bottom schemas or of chains throws.
Iterate ==
    /\ pc = "chain"
    /\ topSchemas # {}
    /\ \E bottomSchemas \in {getBottomSchemas} :
          IF Chains(topSchemas, bottomSchemas) = {}
          THEN /\ pc' = "thrown"
               /\ UNCHANGED <<healthy, records, searchVars>>
          ELSE \E c \in LongestChains(topSchemas, bottomSchemas) : TestMaximum(c)
    /\ flag' = LastKept(flag) \cup BottomWalk
    /\ topSchemas' = {}
    /\ UNCHANGED <<inputs, conducted, MFC_identified, next, faulty>>

\* Mutant: the chain is one step ahead.
ChainAhead(c, k) ==
    c.min \cup {i \in c.max \ c.min :
                   Cardinality({j \in c.max \ c.min : j < i}) <= k}

\* chain.get(k): min and the k lowest parameters of max that min lacks.
ChainAt(c, k) ==
    c.min \cup {i \in c.max \ c.min :
                   Cardinality({j \in c.max \ c.min : j < i}) < k}

SearchStep ==
    /\ pc = "search"
    /\ StepSearch(ChainAt(chain, mid), tfail)
    /\ UNCHANGED <<inputs, conducted, MFC_identified, pc, next, tableVars>>

SearchEnd ==
    /\ pc = "search"
    /\ CloseSearch
    /\ pc' = "loop"
    /\ IF result = -1
       THEN healthy' = setHealthy(chain.max) /\ UNCHANGED faulty
       ELSE faulty' = setFaulty(ChainAt(chain, result)) /\ UNCHANGED healthy
    /\ UNCHANGED <<resolverVars, next, flag, topSchemas>>

-----------------------------------------------------------------------------
Work == \/ BeginTestcase
        \/ FinishConduct
        \/ FindTops
        \/ Iterate
        \/ EndTestcase
        \/ SearchStep
        \/ SearchEnd

Next == Conduct \/ Reset \/ Work

\* conduct runs to its end on the calling thread.
Fairness == WF_vars(Work)

Spec == Init /\ [][Next]_vars /\ Fairness

-----------------------------------------------------------------------------
(***************************************************************************)
(* Properties.                                                             *)
(***************************************************************************)

\* Healthy is closed under subschemas, faulty under superschemas, no schema is
\* both, and each entry is true of the program: the early returns of setHealthy
\* and setFaulty never leave part of a cone unmarked.
TableSound ==
    pc \in {"loop", "chain", "search"} =>
        /\ \A s \in healthy : SUBSET s \subseteq healthy
        /\ \A s \in faulty : \A i \in Params : s \cup {i} \in faulty
        /\ \A s \in healthy : ~IsFaulty(getComb(s, tfail))
        /\ \A s \in faulty : IsFaulty(getComb(s, tfail))

\* The walks find what they are for, the maximal and the minimal pending schemas
\* and in the end the minimal faulty ones, although each one starts from what
\* the walks before it left in flag.
WalksComplete ==
    pc = "chain" =>
        LET pending == Schema \ (healthy \cup faulty)
        IN /\ topSchemas = Maximal(pending)
           /\ getBottomSchemas = Minimal(pending)
           /\ pending = {} => getMFS = Minimal(faulty)

\* The chain under search is pending from end to end and the bisection keeps
\* its interval.
SearchInvariant ==
    pc = "search" =>
        /\ Bisecting(ChainAt, tfail)
        /\ \A k \in 0 .. LastIndex(chain) :
              ChainAt(chain, k) \notin healthy \cup faulty

\* The runtime checks "Bottom schemas should not be empty" and "Longest chain
\* should not be empty" never fire.
ThrowsOnlyWithoutSafeValues ==
    pc = "thrown" => SafeValuesMissing

\* Once conduct has returned, MFC_identified holds exactly the real
\* failure-causing combinations of the failing test cases.
ExactIdentification ==
    pc = "idle" /\ conducted => MFC_identified = MFSInTfail

(***************************************************************************)
(* The resolver implements Identification.                                 *)
(***************************************************************************)
Abstract == INSTANCE Identification WITH
    examined <- next - 1,
    status   <- CASE pc = "idle"   -> "idle"
                  [] pc = "thrown" -> "failed"
                  [] OTHER         -> "busy"

\* Seen from outside, each failing test case is settled in one exact step.
ImplementsIdentification == Abstract!Spec
=============================================================================
