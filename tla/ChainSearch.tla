----------------------------- MODULE ChainSearch -----------------------------
(***************************************************************************)
(* binarySearch(max, min, tfail) of NoPendFaultResolver and of             *)
(* TRTFaultResolver: test the maximum of a chain and, when it is faulty,   *)
(* bisect for the smallest faulty schema.  The two classes differ in the   *)
(* order in which the chain climbs from min to max, their ChainAt.         *)
(***************************************************************************)
EXTENDS FaultResolver, SchemaSets

VARIABLES
    chain,               \* binarySearch's max and min
    left, right, result  \* its locals

searchVars == <<chain, left, right, result>>

NoChain == [max |-> {}, min |-> {}]

SearchTypeOK ==
    /\ chain \in [max : Schema, min : Schema]
    /\ left \in 0 .. N + 1
    /\ right \in -1 .. N
    /\ result \in -1 .. N

SearchInit ==
    /\ chain = NoChain
    /\ left = 0
    /\ right = -1
    /\ result = -1

\* The last index of the list that binarySearch builds for the chain.
LastIndex(c) == Cardinality(c.max) - Cardinality(c.min)

\* The bisection starts over the whole chain.
OpenSearch(c) ==
    /\ chain' = c
    /\ left' = 0
    /\ right' = LastIndex(c)
    /\ result' = -1

mid == left + (right - left) \div 2

\* Mutant: a faulty middle stays inside the interval.
StepSearchKeepsMiddle(schema, tfail) ==
    LET comb == getComb(schema, tfail)
    IN /\ left <= right
       /\ check_with_safevalues(comb, tfail)
       /\ left'   = IF Healthy(comb, tfail) THEN mid + 1 ELSE left
       /\ right'  = IF Healthy(comb, tfail) THEN right ELSE mid
       /\ result' = IF Healthy(comb, tfail) THEN result ELSE mid
       /\ UNCHANGED chain

\* One round of the while loop tests the schema in the middle, chain.get(mid).
StepSearch(schema, tfail) ==
    LET comb == getComb(schema, tfail)
    IN /\ left <= right
       /\ check_with_safevalues(comb, tfail)
       /\ left'   = IF Healthy(comb, tfail) THEN mid + 1 ELSE left
       /\ right'  = IF Healthy(comb, tfail) THEN right ELSE mid - 1
       /\ result' = IF Healthy(comb, tfail) THEN result ELSE mid
       /\ UNCHANGED chain

\* binarySearch returns and its locals are gone.
CloseSearch ==
    /\ left > right
    /\ chain' = NoChain
    /\ left' = 0
    /\ right' = -1
    /\ result' = -1

\* What the bisection relies on while it runs: the chain climbs from min to
\* max, its maximum is faulty, everything below left is healthy, everything
\* above right is faulty, and result names the smallest one found.
Bisecting(At(_, _), tfail) ==
    LET FaultyAt(k) == IsFaulty(getComb(At(chain, k), tfail))
    IN /\ At(chain, 0) = chain.min
       /\ At(chain, LastIndex(chain)) = chain.max
       /\ FaultyAt(LastIndex(chain))
       /\ \A k \in 0 .. left - 1 : ~FaultyAt(k)
       /\ \A k \in right + 1 .. LastIndex(chain) : FaultyAt(k)
       /\ result = IF right = LastIndex(chain) THEN -1 ELSE right + 1
=============================================================================
