-------------------------- MODULE MonotoneSchemaSet --------------------------
(***************************************************************************)
(* Common/MonotoneSchemaSet as it is written: a linked list that add()     *)
(* edits through an iterator, and getMHS() that grows one hitting set in   *)
(* place while it walks the list.  SchemaSets gives the sets that the list *)
(* is meant to stand for, and the properties compare the two.              *)
(***************************************************************************)
EXTENDS Combinations, SchemaSets, Lists

VARIABLES
    schemas,    \* the list
    isMinimal,  \* which monotone set it keeps
    added       \* every schema passed to add: history, not in the code

listVars == <<schemas, isMinimal, added>>

-----------------------------------------------------------------------------
(***************************************************************************)
(* add(newschema).  The loop stops at the first schema that makes the new  *)
(* one redundant; what it removed before that stays removed.               *)
(***************************************************************************)
Redundant(newschema, cur, minimal) ==
    IF minimal THEN cur \subseteq newschema ELSE newschema \subseteq cur

\* Mutant: the loop ends at the first schema it removes.
AddRemovesOne(list, newschema, minimal) ==
    LET hits == {k \in DOMAIN list : \/ Redundant(newschema, list[k], minimal)
                                     \/ Redundant(list[k], newschema, minimal)}
    IN IF hits = {} THEN Append(list, newschema)
       ELSE IF Redundant(newschema, list[Min(hits)], minimal) THEN list
       ELSE Append(RemoveAt(list, Min(hits)), newschema)

addTo(list, newschema, minimal) ==
    LET stops == {k \in DOMAIN list : Redundant(newschema, list[k], minimal)}
        stays == [k \in DOMAIN list |-> \/ ~Redundant(list[k], newschema, minimal)
                                        \/ 1 .. k \cap stops # {}]
    IN IF stops = {} THEN Append(Select(list, stays), newschema)
                     ELSE Select(list, stays)

\* Mutant: the complement is taken in all parameters.
ComplementInParams(list, universe, minimal) ==
    LET result[k \in 0 .. Len(list)] ==
            IF k = 0 THEN <<>>
            ELSE addTo(result[k - 1], Params \ list[k], ~minimal)
    IN result[Len(list)]

\* complement(universe): a new set of the other kind, filled with add.
complementOf(list, universe, minimal) ==
    LET result[k \in 0 .. Len(list)] ==
            IF k = 0 THEN <<>>
            ELSE addTo(result[k - 1], universe \ list[k], ~minimal)
    IN result[Len(list)]

-----------------------------------------------------------------------------
(***************************************************************************)
(* getMHS_recursive(ans, MHS, schemaSet, index).  All calls share the one  *)
(* ans and the one MHS: a call takes both as it finds them, and gives both *)
(* as it leaves them.  walk[k][ans][MHS] is the call with k schemas of the *)
(* list left to be hit.                                                    *)
(***************************************************************************)
Left(ans, MHS) == [ans |-> ans, MHS |-> MHS]

\* Mutant: the parameter stays in ans after the recursive call.
TryAndKeep(p, before, Walk) == Walk[before.ans \cup {p}][before.MHS]

\* The body of the loop: set p in ans, make the recursive call, clear p in the ans
\* that the call has left.
tryIndex(p, before, Walk) ==
    LET after == Walk[before.ans \cup {p}][before.MHS]
    IN Left(after.ans \ {p}, after.MHS)

\* The loop over cur.getIndices(), in ascending order.
tryIndices(cur, ans, MHS, Walk) ==
    LET tried[k \in 0 .. N] ==
            IF k = 0 THEN Left(ans, MHS)
            ELSE IF k - 1 \in cur THEN tryIndex(k - 1, tried[k - 1], Walk)
            ELSE tried[k - 1]
    IN tried[N]

\* One level of the recursion, where Walk is the call for index + 1.
hitSchema(cur, Walk) ==
    [ans \in Schema |-> [MHS \in Seq(Schema) |->
        IF ans \cap cur # {} THEN Walk[ans][MHS]
        ELSE tryIndices(cur, ans, MHS, Walk)]]

\* Its end: index == schemaSet.size(), and a copy of ans is a hitting set.
addAnswer ==
    [ans \in Schema |-> [MHS \in Seq(Schema) |-> Left(ans, addTo(MHS, ans, TRUE))]]

getMHS_recursive(list) ==
    LET walk[k \in 0 .. Len(list)] ==
            IF k = 0 THEN addAnswer
            ELSE hitSchema(list[Len(list) - k + 1], walk[k - 1])
    IN walk

\* getMHS(schemaSet)
getMHSList(list) == getMHS_recursive(list)[Len(list)][{}][<<>>].MHS

-----------------------------------------------------------------------------
ListInit ==
    /\ schemas = <<>>
    /\ isMinimal \in BOOLEAN
    /\ added = {}

add(newschema) ==
    /\ schemas' = addTo(schemas, newschema, isMinimal)
    /\ added' = added \cup {newschema}
    /\ UNCHANGED isMinimal

ListNext == \E newschema \in Schema : add(newschema)

ListSpec == ListInit /\ [][ListNext]_listVars

-----------------------------------------------------------------------------
(***************************************************************************)
(* Properties.                                                             *)
(***************************************************************************)
Listed == ToSet(schemas)

\* Whatever schemas were added and in whatever order, the list holds the
\* extremal ones among them, each once: removing through the iterator and
\* returning early lose nothing.  This is what makes a loop of adds, such as
\* the merge after a recursive identify, a union.
ListIsExtremal ==
    /\ Listed = IF isMinimal THEN Minimal(added) ELSE Maximal(added)
    /\ IsInjective(schemas)

\* complement(universe), which re-adds schema after schema with the opposite
\* order, drops none of them, for every universe that includes them all.
ComplementKeepsAll ==
    \A universe \in Schema :
        UNION Listed \subseteq universe =>
            LET result == complementOf(schemas, universe, isMinimal)
            IN /\ ToSet(result) = complement(Listed, universe)
               /\ Len(result) = Len(schemas)

\* getMHS returns the minimal hitting sets, each once, although the recursion
\* also reaches hitting sets that are not minimal, and all its branches change
\* the one ans.
getMHSIsMinimal ==
    ~getMHSThrows(Listed) =>
        /\ ToSet(getMHSList(schemas)) = getMHS(Listed)
        /\ IsInjective(getMHSList(schemas))

\* One add does what SchemaSets says of a set, and never drops a schema that
\* the new one does not make redundant.
AddIsSetAdd ==
    [][\E newschema \in Schema :
          /\ added' = added \cup {newschema}
          /\ ToSet(schemas') = IF isMinimal THEN addMinimal(Listed, newschema)
                                            ELSE addMaximal(Listed, newschema)]_listVars
=============================================================================
