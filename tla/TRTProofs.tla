----------------------------- MODULE TRTProofs -----------------------------
(***************************************************************************)
(* Proofs about TRT: the places of the schemas in the BitSets, what the    *)
(* walks over the table reach, the table's soundness, the bisection and    *)
(* the report.  The walks of TRT clear the marks of the last walk, all but *)
(* the last bit; with six parameters or more that bit is the mark of the   *)
(* whole schema.  What rests on it is proved for fewer parameters.         *)
(***************************************************************************)
EXTENDS TRT, CommonProofs

-----------------------------------------------------------------------------
(***************************************************************************)
(* Bits.                                                                   *)
(***************************************************************************)

\* The powers of two, one from the other.
LEMMA BitSteps ==
    /\ Bit[0] = 1
    /\ \A k \in 1 .. N : Bit[k] = 2 * Bit[k - 1]
    /\ \A k \in 0 .. N : Bit[k] \in Nat /\ Bit[k] >= 1
<1> DEFINE Def(h, k) == IF k = 0 THEN 1 ELSE 2 * h[k - 1]
           S == {n \in Nat : n >= 1}
           step == [j \in Nat |-> [n \in S |-> 2 * n]]
<1>1. PICK h \in [0 .. N -> S] : Stepwise(h, 1, step, N)
  <2>1. 1 \in S /\ N \in Nat /\ step \in [Nat -> [S -> S]]
    BY NAssumption
  <2> HIDE DEF S, step
  <2> QED BY <2>1, StepwiseFunction
<1>2. h[0] = 1 /\ \A k \in 1 .. N : h[k] = 2 * h[k - 1]
  <2>1. h[0] = 1 /\ \A k \in 1 .. N : h[k] = step[k - 1][h[k - 1]]
    BY <1>1 DEF Stepwise
  <2>2. \A k \in 1 .. N : k - 1 \in Nat /\ k - 1 \in 0 .. N
    BY NAssumption
  <2>3. \A j \in Nat : \A n \in S : step[j][n] = 2 * n
    OBVIOUS
  <2> HIDE DEF S, step
  <2> QED BY <2>1, <2>2, <2>3
<1>3. h = [k \in 0 .. N |-> Def(h, k)]
  <2>1. \A k \in 0 .. N : k = 0 \/ k \in 1 .. N
    BY NAssumption
  <2> HIDE DEF S
  <2>2. \A k \in 0 .. N : h[k] = Def(h, k)
    BY <1>2, <2>1
  <2> HIDE DEF Def
  <2> QED BY <2>2
<1>4. Bit = CHOOSE g : g = [k \in 0 .. N |-> Def(g, k)]
  BY DEF Bit
<1> HIDE DEF Def
<1>5. Bit = [k \in 0 .. N |-> Def(Bit, k)]
  BY <1>3, <1>4, Zenon
<1>6. \A k \in 0 .. N : Bit[k] = Def(Bit, k)
  BY <1>5, Zenon
<1>7. Bit[0] = 1 /\ \A k \in 1 .. N : Bit[k] = 2 * Bit[k - 1]
  <2>1. 0 \in 0 .. N /\ \A k \in 1 .. N : k \in 0 .. N /\ k # 0
    BY NAssumption
  <2> QED BY <1>6, <2>1 DEF Def
<1>8. \A k \in 0 .. N : Bit[k] \in S
  <2>1. 1 \in S /\ (\A n \in S : 2 * n \in S)
    OBVIOUS
  <2> HIDE DEF S, step
  <2>2. Bit[0] \in S
    BY <1>7, <2>1
  <2>3. StaysIn(Bit, S, N)
    <3>1. ASSUME NEW k \in 1 .. N, Bit[k - 1] \in S
          PROVE  Bit[k] \in S
      <4>1. Bit[k] = 2 * Bit[k - 1]
        BY <1>7
      <4>2. 2 * Bit[k - 1] \in S
        BY <2>1, <3>1
      <4> QED BY <4>1, <4>2
    <3> QED BY <3>1 DEF StaysIn
  <2> QED BY <2>2, <2>3, NAssumption, StepwiseType
<1> QED BY <1>7, <1>8

\* schema2int adds up the bits of a schema one by one.
SumsUp(res, schema) ==
    /\ res[0] = 0
    /\ \A k \in 1 .. N :
          res[k] = res[k - 1] + (IF k - 1 \in schema THEN Bit[k - 1] ELSE 0)

\* The loop of schema2int.
LEMMA schema2intSteps ==
    ASSUME NEW schema
    PROVE  \E res : SumsUp(res, schema) /\ schema2int(schema) = res[N]
<1> DEFINE Term(j) == IF j \in schema THEN Bit[j] ELSE 0
           Def(h, k) == IF k = 0 THEN 0
                        ELSE h[k - 1] + (IF k - 1 \in schema THEN Bit[k - 1] ELSE 0)
           term == [j \in Nat |-> IF j < N THEN Term(j) ELSE 0]
           step == [j \in Nat |-> [n \in Nat |-> n + term[j]]]
<1>1. \A j \in Nat : term[j] \in Nat
  <2>1. \A j \in Nat : j < N => j \in 0 .. N
    BY NAssumption
  <2>2. \A j \in Nat : j < N => Term(j) \in Nat
    BY <2>1, BitSteps
  <2> HIDE DEF Term
  <2> QED BY <2>2
<1>2. \A j \in Nat : j < N => term[j] = Term(j)
  <2> HIDE DEF Term
  <2> QED OBVIOUS
<1> HIDE DEF term
<1>3. PICK h \in [0 .. N -> Nat] : Stepwise(h, 0, step, N)
  <2>1. N \in Nat /\ step \in [Nat -> [Nat -> Nat]]
    BY <1>1, NAssumption
  <2> HIDE DEF step
  <2> QED BY <2>1, StepwiseFunction
<1>4. h[0] = 0 /\ \A k \in 1 .. N : h[k] = h[k - 1] + Term(k - 1)
  <2>1. h[0] = 0 /\ \A k \in 1 .. N : h[k] = step[k - 1][h[k - 1]]
    BY <1>3 DEF Stepwise
  <2>2. \A k \in 1 .. N : k - 1 \in Nat /\ k - 1 \in 0 .. N /\ k - 1 < N
    BY NAssumption
  <2>3. \A j \in Nat : \A n \in Nat : step[j][n] = n + term[j]
    OBVIOUS
  <2> HIDE DEF step, Term
  <2> QED BY <1>2, <2>1, <2>2, <2>3
<1>5. \A h1, k : Def(h1, k) = IF k = 0 THEN 0 ELSE h1[k - 1] + Term(k - 1)
  OBVIOUS
<1>6. schema2int(schema) = (CHOOSE g : g = [k \in 0 .. N |-> Def(g, k)])[N]
  BY DEF schema2int
<1> HIDE DEF Def, Term
<1>7. h = [k \in 0 .. N |-> Def(h, k)]
  <2>1. \A k \in 0 .. N : k = 0 \/ k \in 1 .. N
    BY NAssumption
  <2>2. \A k \in 0 .. N : h[k] = Def(h, k)
    BY <1>4, <1>5, <2>1
  <2> QED BY <2>2
<1> DEFINE res == CHOOSE g : g = [k \in 0 .. N |-> Def(g, k)]
<1>8. res = [k \in 0 .. N |-> Def(res, k)]
  BY <1>7, Zenon
<1> HIDE DEF res
<1>9. \A k \in 0 .. N : res[k] = Def(res, k)
  BY <1>8, Zenon
<1>10. res[0] = 0 /\ \A k \in 1 .. N : res[k] = res[k - 1] + Term(k - 1)
  <2>1. 0 \in 0 .. N /\ \A k \in 1 .. N : k \in 0 .. N /\ k # 0
    BY NAssumption
  <2> QED BY <1>5, <1>9, <2>1
<1>11. SumsUp(res, schema)
  BY <1>10 DEF SumsUp, Term
<1>12. schema2int(schema) = res[N]
  BY <1>6 DEF res
<1> QED BY <1>11, <1>12

\* A schema has a place in the table, and only the whole one has the last place.
LEMMA schema2intBounds ==
    ASSUME NEW schema
    PROVE  /\ schema2int(schema) \in Nat
           /\ schema2int(schema) < Bit[N]
           /\ schema2int(schema) >= Bit[N] - 1 => Params \subseteq schema
<1>1. PICK res : SumsUp(res, schema) /\ schema2int(schema) = res[N]
  BY schema2intSteps
<1> DEFINE Full(k) == \A j \in 0 .. k - 1 : j \in schema
           Good(k) == /\ res[k] \in Nat
                      /\ res[k] <= Bit[k] - 1
                      /\ res[k] >= Bit[k] - 1 => Full(k)
           A == {k \in Nat : k <= N => Good(k)}
<1>2. 0 \in A
  <2>1. res[0] = 0 /\ Bit[0] = 1 /\ Full(0)
    BY <1>1, BitSteps DEF SumsUp
  <2> HIDE DEF Full
  <2> QED BY <2>1
<1>3. ASSUME NEW k \in A PROVE k + 1 \in A
  <2> SUFFICES ASSUME k + 1 <= N PROVE Good(k + 1)
    OBVIOUS
  <2>1. k + 1 \in 1 .. N /\ (k + 1) - 1 = k /\ k \in 0 .. N /\ k <= N
    BY NAssumption
  <2>2. Good(k)
    BY <2>1
  <2>3. Bit[k + 1] = 2 * Bit[k] /\ Bit[k] \in Nat /\ Bit[k] >= 1
    BY <2>1, BitSteps
  <2>4. res[k + 1] = res[k] + (IF k \in schema THEN Bit[k] ELSE 0)
    BY <1>1, <2>1 DEF SumsUp
  <2>5. Full(k) /\ k \in schema => Full(k + 1)
    <3>1. \A j \in 0 .. (k + 1) - 1 : j \in 0 .. k - 1 \/ j = k
      OBVIOUS
    <3> QED BY <3>1
  <2> HIDE DEF Full
  <2>6. CASE k \in schema
    BY <2>2, <2>3, <2>4, <2>5, <2>6
  <2>7. CASE k \notin schema
    BY <2>2, <2>3, <2>4, <2>7
  <2> QED BY <2>6, <2>7
<1>4. A = Nat
  <2>1. A \in SUBSET Nat
    OBVIOUS
  <2> HIDE DEF A
  <2> QED BY <1>2, <1>3, <2>1, NatSetInduction
<1>5. N \in Nat /\ N <= N /\ N \in 0 .. N
  BY NAssumption
<1>6. Good(N)
  <2> HIDE DEF Good
  <2>1. N \in A
    BY <1>4, <1>5
  <2> QED BY <1>5, <2>1
<1>7. Bit[N] \in Nat
  BY <1>5, BitSteps
<1>8. Full(N) => Params \subseteq schema
  BY <1>5 DEF Params
<1> HIDE DEF Full
<1>9. /\ res[N] \in Nat
      /\ res[N] <= Bit[N] - 1
      /\ res[N] >= Bit[N] - 1 => Full(N)
  BY <1>6
<1> QED BY <1>1, <1>7, <1>8, <1>9

\* Six parameters fill a word of the BitSet; fewer leave its end unused.
LEMMA flagSizeBounds ==
    /\ flagSize \in Nat
    /\ flagSize >= Bit[N]
    /\ N < 6 => flagSize > Bit[N]
<1>1. Bit[N] \in Nat /\ N \in Nat /\ N >= 1
  BY BitSteps, NAssumption
<1>2. flagSize \in Nat /\ flagSize >= Bit[N]
  BY <1>1 DEF flagSize
<1>3. ASSUME N < 6 PROVE Bit[N] <= 32
  <2>1. Bit[0] = 1 /\ \A k \in 1 .. N : Bit[k] = 2 * Bit[k - 1]
    BY BitSteps
  <2>2. N >= 1 => Bit[1] = 2
    <3>1. N >= 1 => 1 \in 1 .. N /\ 1 - 1 = 0
      BY <1>1
    <3> QED BY <2>1, <3>1
  <2>3. N >= 2 => Bit[2] = 4
    <3>1. N >= 2 => N >= 1 /\ 2 \in 1 .. N /\ 2 - 1 = 1
      BY <1>1
    <3> QED BY <2>1, <2>2, <3>1
  <2>4. N >= 3 => Bit[3] = 8
    <3>1. N >= 3 => N >= 2 /\ 3 \in 1 .. N /\ 3 - 1 = 2
      BY <1>1
    <3> QED BY <2>1, <2>3, <3>1
  <2>5. N >= 4 => Bit[4] = 16
    <3>1. N >= 4 => N >= 3 /\ 4 \in 1 .. N /\ 4 - 1 = 3
      BY <1>1
    <3> QED BY <2>1, <2>4, <3>1
  <2>6. N >= 5 => Bit[5] = 32
    <3>1. N >= 5 => N >= 4 /\ 5 \in 1 .. N /\ 5 - 1 = 4
      BY <1>1
    <3> QED BY <2>1, <2>5, <3>1
  <2>7. N \in {1, 2, 3, 4, 5}
    BY <1>1, <1>3
  <2>8. Bit[N] \in {2, 4, 8, 16, 32}
    BY <2>2, <2>3, <2>4, <2>5, <2>6, <2>7
  <2> QED BY <2>8
<1>4. ASSUME N < 6 PROVE flagSize > Bit[N]
  <2>1. Bit[N] <= 32 /\ Bit[N] >= 1
    BY <1>1, <1>3, <1>4, BitSteps
  <2>2. flagSize >= 64
    BY <1>1, <2>1 DEF flagSize
  <2> QED BY <1>1, <1>2, <2>1, <2>2
<1> QED BY <1>2, <1>4

\* What the walks find marked: nothing, or at most the whole schema.
LEMMA Marks ==
    ASSUME NEW marked \in SUBSET Schema
    PROVE  /\ AllCleared(marked) = {}
           /\ LastKept(marked) \subseteq {Params}
           /\ N < 6 => LastKept(marked) = {}
<1>1. \A s \in marked : /\ schema2int(s) \in Nat
                        /\ schema2int(s) < Bit[N]
                        /\ schema2int(s) >= Bit[N] - 1 => Params \subseteq s
  BY schema2intBounds
<1>2. flagSize \in Nat /\ Bit[N] \in Nat /\ flagSize >= Bit[N] /\ (N < 6 => flagSize > Bit[N])
  <2>1. N \in 0 .. N
    BY NAssumption
  <2> QED BY <2>1, flagSizeBounds, BitSteps
<1>3. AllCleared(marked) = {}
  BY <1>1, <1>2 DEF AllCleared
<1>4. \A s \in LastKept(marked) : s = Params
  <2> TAKE s \in LastKept(marked)
  <2>1. s \in marked /\ s \subseteq Params /\ schema2int(s) >= flagSize - 1
    BY DEF LastKept, Schema
  <2>2. schema2int(s) >= Bit[N] - 1
    BY <1>1, <1>2, <2>1
  <2> QED BY <1>1, <2>1, <2>2
<1>5. N < 6 => LastKept(marked) = {}
  BY <1>1, <1>2 DEF LastKept
<1> QED BY <1>3, <1>4, <1>5

-----------------------------------------------------------------------------
(***************************************************************************)
(* Walks.                                                                  *)
(***************************************************************************)

\* A round of a walk that has reached the schemas of `last`.
Round(last, marked, Through, towards) ==
    last \cup ((UNION {towards[s] : s \in last \cap Through}) \ marked)

\* A round keeps what was reached and adds the unmarked schemas next to it.
LEMMA RoundMembers ==
    ASSUME NEW last, NEW marked, NEW Through, NEW towards, NEW x
    PROVE  x \in Round(last, marked, Through, towards) <=>
               \/ x \in last
               \/ x \notin marked /\ \E s \in last \cap Through : x \in towards[s]
BY DEF Round

\* The schemas a walk has reached after k rounds.
Layers(layer, from, marked, Through, towards) ==
    /\ layer[0] = {from} \ marked
    /\ \A k \in 1 .. N : layer[k] = Round(layer[k - 1], marked, Through, towards)

\* The rounds of a walk.
LEMMA ReachedLayers ==
    ASSUME NEW from \in Schema, NEW marked, NEW Through,
           NEW towards \in [Schema -> SUBSET Schema]
    PROVE  \E layer : /\ Layers(layer, from, marked, Through, towards)
                      /\ Reached(from, marked, Through, towards) = layer[N]
<1> DEFINE More(last) == last \cup
               ((UNION {towards[s] : s \in last \cap Through}) \ marked)
           Start == {from} \ marked
           Def(h, k) == IF k = 0 THEN {from} \ marked
                        ELSE LET last == h[k - 1] IN
                             last \cup ((UNION {towards[s] : s \in last \cap Through})
                                            \ marked)
           S == SUBSET Schema
           step == [j \in Nat |-> [last \in S |-> More(last)]]
<1>1. \A last \in S : More(last) \in S
  OBVIOUS
<1>2. Start \in S
  OBVIOUS
<1>3. \A h, k : Def(h, k) = IF k = 0 THEN Start ELSE More(h[k - 1])
  OBVIOUS
<1>4. Reached(from, marked, Through, towards)
          = (CHOOSE g : g = [k \in 0 .. N |-> Def(g, k)])[N]
  BY DEF Reached
<1>5. \A layer : Layers(layer, from, marked, Through, towards) <=>
          layer[0] = Start /\ \A k \in 1 .. N : layer[k] = More(layer[k - 1])
  BY DEF Layers, Round
<1> HIDE DEF More, Start, Def
<1>6. PICK h \in [0 .. N -> S] : Stepwise(h, Start, step, N)
  <2>1. N \in Nat /\ step \in [Nat -> [S -> S]]
    BY <1>1, NAssumption
  <2> HIDE DEF S, step
  <2> QED BY <1>2, <2>1, StepwiseFunction
<1>7. h[0] = Start /\ \A k \in 1 .. N : h[k] = More(h[k - 1])
  <2>1. h[0] = Start /\ \A k \in 1 .. N : h[k] = step[k - 1][h[k - 1]]
    BY <1>6 DEF Stepwise
  <2>2. \A k \in 1 .. N : k - 1 \in Nat /\ k - 1 \in 0 .. N
    BY NAssumption
  <2>3. \A j \in Nat : \A last \in S : step[j][last] = More(last)
    OBVIOUS
  <2> HIDE DEF S, step
  <2> QED BY <1>6, <2>1, <2>2, <2>3
<1>8. h = [k \in 0 .. N |-> Def(h, k)]
  <2>1. \A k \in 0 .. N : k = 0 \/ k \in 1 .. N
    BY NAssumption
  <2> HIDE DEF S
  <2>2. \A k \in 0 .. N : h[k] = Def(h, k)
    BY <1>3, <1>7, <2>1
  <2> QED BY <2>2
<1> DEFINE layer == CHOOSE g : g = [k \in 0 .. N |-> Def(g, k)]
<1>9. layer = [k \in 0 .. N |-> Def(layer, k)]
  BY <1>8, Zenon
<1>10. Reached(from, marked, Through, towards) = layer[N]
  BY <1>4
<1> HIDE DEF layer
<1>11. \A k \in 0 .. N : layer[k] = Def(layer, k)
  BY <1>9, Zenon
<1>12. layer[0] = Start /\ \A k \in 1 .. N : layer[k] = More(layer[k - 1])
  <2>1. 0 \in 0 .. N /\ \A k \in 1 .. N : k \in 0 .. N /\ k # 0
    BY NAssumption
  <2> QED BY <1>3, <1>11, <2>1
<1> QED BY <1>5, <1>10, <1>12

\* A walk stays among the schemas that its start and its steps stay among.
LEMMA ReachedWithin ==
    ASSUME NEW from \in Schema, NEW marked, NEW Through,
           NEW towards \in [Schema -> SUBSET Schema],
           NEW I \in SUBSET Schema, from \in I \cup marked,
           \A s \in I \cap Through : towards[s] \subseteq I \cup marked
    PROVE  Reached(from, marked, Through, towards) \subseteq I
<1>1. PICK layer : /\ Layers(layer, from, marked, Through, towards)
                   /\ Reached(from, marked, Through, towards) = layer[N]
  BY ReachedLayers
<1>2. layer[0] \in SUBSET I
  BY <1>1 DEF Layers
<1>3. StaysIn(layer, SUBSET I, N)
  <2> SUFFICES ASSUME NEW k \in 1 .. N, layer[k - 1] \in SUBSET I
               PROVE  layer[k] \in SUBSET I
    BY DEF StaysIn
  <2>1. layer[k] = Round(layer[k - 1], marked, Through, towards)
    BY <1>1 DEF Layers
  <2>2. \A last \in SUBSET I : Round(last, marked, Through, towards) \in SUBSET I
    <3> SUFFICES ASSUME NEW last \in SUBSET I,
                        NEW x \in Round(last, marked, Through, towards)
                 PROVE  x \in I
      OBVIOUS
    <3>1. x \in last \/ (x \notin marked /\ \E s \in last \cap Through : x \in towards[s])
      BY RoundMembers
    <3> QED BY <3>1
  <2> QED BY <2>1, <2>2
<1>4. N \in Nat /\ N \in 0 .. N
  BY NAssumption
<1>5. layer[N] \in SUBSET I
  BY <1>2, <1>3, <1>4, StepwiseType
<1> QED BY <1>1, <1>5

\* Every schema of Good is one step further than another one of Good that the
\* walk goes through, or the start.
Leads(Good, dist, from, Through, towards) ==
    \A s \in Good :
        /\ dist[s] \in 0 .. N
        /\ dist[s] = 0 => s = from
        /\ dist[s] # 0 => \E r \in Good \cap Through :
                              s \in towards[r] /\ dist[r] = dist[s] - 1

\* A walk reaches the schemas to which unmarked schemas lead.
LEMMA ReachedAll ==
    ASSUME NEW from \in Schema, NEW marked, NEW Through,
           NEW towards \in [Schema -> SUBSET Schema],
           NEW Good, Good \cap marked = {}, NEW dist,
           Leads(Good, dist, from, Through, towards)
    PROVE  Good \subseteq Reached(from, marked, Through, towards)
<1>1. PICK layer : /\ Layers(layer, from, marked, Through, towards)
                   /\ Reached(from, marked, Through, towards) = layer[N]
  BY ReachedLayers
<1> DEFINE Found(k) == \A s \in Good : dist[s] <= k => s \in layer[k]
           A == {k \in Nat : k <= N => Found(k)}
<1>2. 0 \in A
  <2>1. ASSUME NEW s \in Good, dist[s] <= 0 PROVE s \in layer[0]
    <3>1. dist[s] \in 0 .. N /\ (dist[s] = 0 => s = from)
      BY DEF Leads
    <3>2. s = from
      BY <2>1, <3>1, NAssumption
    <3> QED BY <1>1, <3>2 DEF Layers
  <2> QED BY <2>1
<1>3. ASSUME NEW k \in A PROVE k + 1 \in A
  <2> SUFFICES ASSUME k + 1 <= N, NEW s \in Good, dist[s] <= k + 1
               PROVE  s \in layer[k + 1]
    OBVIOUS
  <2>1. k + 1 \in 1 .. N /\ (k + 1) - 1 = k /\ k <= N /\ N \in Nat
    BY NAssumption
  <2>2. Found(k)
    BY <2>1
  <2>3. layer[k + 1] = Round(layer[k], marked, Through, towards)
    BY <1>1, <2>1 DEF Layers
  <2>4. /\ dist[s] \in 0 .. N
        /\ dist[s] = 0 => s = from
        /\ dist[s] # 0 => \E r \in Good \cap Through :
                              s \in towards[r] /\ dist[r] = dist[s] - 1
    BY DEF Leads
  <2>5. CASE dist[s] <= k
    BY <2>2, <2>3, <2>5, RoundMembers
  <2>6. CASE ~(dist[s] <= k)
    <3>1. dist[s] # 0 /\ dist[s] - 1 = k
      BY <2>1, <2>4, <2>6
    <3>2. PICK r \in Good \cap Through : s \in towards[r] /\ dist[r] = k
      BY <2>4, <3>1
    <3>3. r \in layer[k]
      <4>1. dist[r] <= k
        BY <3>2
      <4> QED BY <2>2, <3>2, <4>1
    <3>4. s \notin marked
      OBVIOUS
    <3>5. s \in Round(layer[k], marked, Through, towards)
      BY <3>2, <3>3, <3>4, RoundMembers
    <3> QED BY <2>3, <3>5
  <2> QED BY <2>5, <2>6
<1>4. A = Nat
  <2>1. A \in SUBSET Nat
    OBVIOUS
  <2> HIDE DEF A
  <2> QED BY <1>2, <1>3, <2>1, NatSetInduction
<1>5. N \in Nat /\ N <= N
  BY NAssumption
<1>6. Found(N)
  <2> HIDE DEF Found
  <2> QED BY <1>4, <1>5
<1>7. ASSUME NEW s \in Good PROVE s \in layer[N]
  <2>1. dist[s] \in 0 .. N
    BY DEF Leads
  <2>2. dist[s] <= N
    BY <1>5, <2>1
  <2> QED BY <1>6, <2>2
<1> QED BY <1>1, <1>7

\* The loops of the walks stay among the schemas.
LEMMA StepTypes ==
    Down \in [Schema -> SUBSET Schema] /\ Up \in [Schema -> SUBSET Schema]
BY DEF Down, Up, Schema

\* A walk down reaches a schema when it can come from one above that it
\* reaches as well.
LEMMA DownAll ==
    ASSUME NEW from \in Schema, NEW marked, NEW Through,
           NEW Good \in SUBSET SUBSET from, Good \cap marked = {},
           \A s \in Good : s # from =>
               \E i \in from \ s : s \cup {i} \in Good \cap Through
    PROVE  Good \subseteq Reached(from, marked, Through, Down)
<1> DEFINE dist == [s \in Good |-> Cardinality(from \ s)]
<1>1. from \in SUBSET Params
  BY DEF Schema
<1>2. ASSUME NEW s \in Good
      PROVE  /\ dist[s] \in 0 .. N
             /\ dist[s] = 0 => s = from
             /\ dist[s] # 0 => \E r \in Good \cap Through :
                                   s \in Down[r] /\ dist[r] = dist[s] - 1
  <2>1. s \in SUBSET from
    OBVIOUS
  <2>2. /\ IsFiniteSet(from \ s)
        /\ Cardinality(from \ s) \in 0 .. N
    <3>1. /\ Cardinality(from) - Cardinality(s) \in 0 .. N
          /\ IsFiniteSet(from \ s)
          /\ Cardinality(from \ s) = Cardinality(from) - Cardinality(s)
      BY <1>1, <2>1, SizeOfDifference
    <3> QED BY <3>1
  <2>3. Cardinality(from \ s) = 0 <=> from \ s = {}
    BY <2>2, FS_EmptySet
  <2>4. ASSUME s # from
        PROVE  \E r \in Good \cap Through :
                   s \in Down[r] /\ dist[r] = dist[s] - 1
    <3>1. PICK i \in from \ s : s \cup {i} \in Good \cap Through
      BY <2>4
    <3> DEFINE r == s \cup {i}
    <3>2. r \in Schema /\ r \ {i} = s /\ i \in r
      BY <1>1, <2>1 DEF Schema
    <3>3. s \in Down[r]
      BY <3>2 DEF Down
    <3>4. from \ r = (from \ s) \ {i}
      OBVIOUS
    <3>5. Cardinality((from \ s) \ {i}) = Cardinality(from \ s) - 1
      <4> DEFINE rest == from \ s
      <4>1. IsFiniteSet(rest) /\ i \in rest
        BY <2>2
      <4> HIDE DEF rest
      <4>2. Cardinality(rest \ {i}) = Cardinality(rest) - 1
        BY <4>1, FS_RemoveElement
      <4> QED BY <4>2 DEF rest
    <3> QED BY <3>1, <3>3, <3>4, <3>5
  <2> QED BY <2>1, <2>2, <2>3, <2>4
<1>3. Leads(Good, dist, from, Through, Down)
  BY <1>2 DEF Leads
<1> HIDE DEF dist
<1> QED BY <1>3, StepTypes, ReachedAll

\* A walk up reaches a schema when it can come from one below that it reaches
\* as well.
LEMMA UpAll ==
    ASSUME NEW from \in Schema, NEW marked, NEW Through,
           NEW Good \in SUBSET Schema, \A s \in Good : from \subseteq s,
           Good \cap marked = {},
           \A s \in Good : s # from =>
               \E i \in s \ from : s \ {i} \in Good \cap Through
    PROVE  Good \subseteq Reached(from, marked, Through, Up)
<1> DEFINE dist == [s \in Good |-> Cardinality(s \ from)]
<1>1. ASSUME NEW s \in Good
      PROVE  /\ dist[s] \in 0 .. N
             /\ dist[s] = 0 => s = from
             /\ dist[s] # 0 => \E r \in Good \cap Through :
                                   s \in Up[r] /\ dist[r] = dist[s] - 1
  <2>1. s \in SUBSET Params /\ from \in SUBSET s
    BY DEF Schema
  <2>2. /\ IsFiniteSet(s \ from)
        /\ Cardinality(s \ from) \in 0 .. N
    BY <2>1, SizeOfDifference
  <2>3. Cardinality(s \ from) = 0 <=> s \ from = {}
    BY <2>2, FS_EmptySet
  <2>4. ASSUME s # from
        PROVE  \E r \in Good \cap Through :
                   s \in Up[r] /\ dist[r] = dist[s] - 1
    <3>1. PICK i \in s \ from : s \ {i} \in Good \cap Through
      BY <2>4
    <3> DEFINE r == s \ {i}
    <3>2. r \in Schema /\ r \cup {i} = s /\ i \in Params \ r
      BY <2>1 DEF Schema
    <3>3. s \in Up[r]
      BY <3>2 DEF Up
    <3>4. r \ from = (s \ from) \ {i}
      OBVIOUS
    <3>5. Cardinality((s \ from) \ {i}) = Cardinality(s \ from) - 1
      <4> DEFINE D == s \ from
      <4>1. IsFiniteSet(D) /\ i \in D
        BY <2>2
      <4> HIDE DEF D
      <4>2. Cardinality(D \ {i}) = Cardinality(D) - 1
        BY <4>1, FS_RemoveElement
      <4> QED BY <4>2 DEF D
    <3> QED BY <3>1, <3>3, <3>4, <3>5
  <2> QED BY <2>1, <2>2, <2>3, <2>4
<1>2. Leads(Good, dist, from, Through, Up)
  BY <1>1 DEF Leads
<1> HIDE DEF dist
<1> QED BY <1>2, StepTypes, ReachedAll

-----------------------------------------------------------------------------
(***************************************************************************)
(* The table.                                                              *)
(***************************************************************************)

\* The table of a failing test case t of a program with the faults M.
Table(h, f, t, M) ==
    /\ h \in SUBSET Schema /\ f \in SUBSET Schema
    /\ {} \in h /\ Params \in f
    /\ \A s \in h : SUBSET s \subseteq h
    /\ \A s \in f : \A r \in Schema : s \subseteq r => r \in f
    /\ \A s \in h : ~Faulty(getComb(s, t), M)
    /\ \A s \in f : Faulty(getComb(s, t), M)

\* The schemas that neither bit set holds.
Pending == Schema \ (healthy \cup faulty)

\* setHealthy marks the whole cone below a schema, although it turns back at
\* schemas that are healthy already.
LEMMA setHealthyMarksBelow ==
    ASSUME healthy \in SUBSET Schema, \A s \in healthy : SUBSET s \subseteq healthy,
           NEW c \in Schema
    PROVE  setHealthy(c) = healthy \cup SUBSET c
<1> DEFINE Cone == SUBSET c
           Good == Cone \ healthy
<1>1. Good \in SUBSET SUBSET c /\ Good \cap healthy = {}
  OBVIOUS
<1>2. ASSUME NEW s \in Good, s # c
      PROVE  \E i \in c \ s : s \cup {i} \in Good \cap Schema
  <2>1. PICK i \in c \ s : TRUE
    BY <1>2
  <2>2. s \cup {i} \subseteq c /\ s \cup {i} \notin healthy
    BY <2>1
  <2> QED BY <2>1, <2>2 DEF Schema
<1>3. Good \subseteq Reached(c, healthy, Schema, Down)
  <2> HIDE DEF Good
  <2> QED BY <1>1, <1>2, DownAll
<1>4. Reached(c, healthy, Schema, Down) \subseteq Cone
  <2>1. Cone \in SUBSET Schema /\ c \in Cone \cup healthy
    BY DEF Schema
  <2>2. ASSUME NEW s \in Cone \cap Schema
        PROVE  Down[s] \subseteq Cone \cup healthy
    BY DEF Down
  <2> HIDE DEF Cone
  <2> QED BY <2>1, <2>2, StepTypes, ReachedWithin
<1> QED BY <1>3, <1>4 DEF setHealthy

\* setFaulty marks the whole cone above a schema.
LEMMA setFaultyMarksAbove ==
    ASSUME faulty \in SUBSET Schema,
           \A s \in faulty : \A r \in Schema : s \subseteq r => r \in faulty,
           NEW c \in Schema
    PROVE  setFaulty(c) = faulty \cup {s \in Schema : c \subseteq s}
<1> DEFINE Cone == {s \in Schema : c \subseteq s}
           Good == Cone \ faulty
<1>1. /\ Good \in SUBSET Schema /\ Good \cap faulty = {}
      /\ \A s \in Good : c \subseteq s
  OBVIOUS
<1>2. ASSUME NEW s \in Good, s # c
      PROVE  \E i \in s \ c : s \ {i} \in Good \cap Schema
  <2>1. PICK i \in s \ c : TRUE
    BY <1>2
  <2>2. s \in Schema /\ s \notin faulty /\ c \subseteq s
    OBVIOUS
  <2>3. s \ {i} \in Schema /\ c \subseteq s \ {i} /\ s \ {i} \subseteq s
    BY <2>1, <2>2 DEF Schema
  <2>4. s \ {i} \notin faulty
    BY <2>2, <2>3
  <2> QED BY <2>1, <2>3, <2>4
<1>3. Good \subseteq Reached(c, faulty, Schema, Up)
  <2> HIDE DEF Good
  <2> QED BY <1>1, <1>2, UpAll
<1>4. Reached(c, faulty, Schema, Up) \subseteq Cone
  <2>1. Cone \in SUBSET Schema /\ c \in Cone \cup faulty
    OBVIOUS
  <2>2. ASSUME NEW s \in Cone \cap Schema
        PROVE  Up[s] \subseteq Cone \cup faulty
    BY DEF Up, Schema
  <2> HIDE DEF Cone
  <2> QED BY <2>1, <2>2, StepTypes, ReachedWithin
<1> QED BY <1>3, <1>4 DEF setFaulty

\* The walks see only schemas.
LEMMA WalkTypes ==
    ASSUME NEW t, NEW M, Table(healthy, faulty, t, M), flag \in SUBSET Schema
    PROVE  TopWalk \subseteq Schema /\ BottomWalk \subseteq Schema
           /\ MFSWalk \subseteq Schema
<1>1. Params \in Schema /\ {} \in Schema
  BY DEF Schema
<1>2. ASSUME NEW from \in Schema, NEW marked, NEW Through,
             NEW towards \in [Schema -> SUBSET Schema]
      PROVE  Reached(from, marked, Through, towards) \subseteq Schema
  <2>1. \A s \in Schema \cap Through : towards[s] \subseteq Schema \cup marked
    OBVIOUS
  <2>2. Schema \in SUBSET Schema /\ from \in Schema \cup marked
    OBVIOUS
  <2> QED BY <2>1, <2>2, ReachedWithin
<1>3. TopWalk \subseteq Schema
  BY <1>1, <1>2, StepTypes DEF TopWalk
<1>4. BottomWalk \subseteq Schema
  BY <1>1, <1>2, StepTypes DEF BottomWalk
<1>5. MFSWalk \subseteq Schema
  BY <1>1, <1>2, StepTypes DEF MFSWalk
<1> QED BY <1>3, <1>4, <1>5

\* No schema is both healthy and faulty, and the pending ones lie between.
LEMMA TableFacts ==
    ASSUME NEW t, NEW M, Table(healthy, faulty, t, M)
    PROVE  /\ healthy \cap faulty = {}
           /\ Pending \in SUBSET SUBSET Params
           /\ {} \notin Pending /\ Params \notin Pending
           /\ \A s \in Pending : \A r \in Schema : s \subseteq r => r \notin healthy
           /\ \A s \in Pending : \A r \in Schema : r \subseteq s => r \notin faulty
BY DEF Table, Pending, Schema

\* The walk down finds the maximal pending schemas.
LEMMA TopsFound ==
    ASSUME NEW t, NEW M, Table(healthy, faulty, t, M), flag \in SUBSET Schema
    PROVE  getTopSchemas = Maximal(Pending)
<1> DEFINE Through == faulty \ healthy
           Good == faulty \cup Maximal(Pending)
<1>1. AllCleared(flag) = {} /\ Params \in Schema
  BY Marks DEF Schema
<1>2. Through = faulty
  BY TableFacts
<1>3. Good \in SUBSET SUBSET Params /\ Good \cap AllCleared(flag) = {}
  BY <1>1, TableFacts DEF Table, Schema, Maximal
<1>4. ASSUME NEW s \in Good, s # Params
      PROVE  \E i \in Params \ s : s \cup {i} \in Good \cap Through
  <2>1. PICK i \in Params \ s : TRUE
    BY <1>3, <1>4
  <2>2. s \cup {i} \in Schema /\ s \subseteq s \cup {i} /\ s \cup {i} # s
    BY <1>3, <2>1 DEF Schema
  <2>3. s \cup {i} \in faulty
    <3>1. CASE s \in faulty
      BY <2>2, <3>1 DEF Table
    <3>2. CASE s \in Maximal(Pending)
      <4>1. s \in Pending /\ s \cup {i} \notin Pending
        BY <2>2, <3>2 DEF Maximal
      <4>2. s \cup {i} \notin healthy
        BY <2>2, <4>1, TableFacts
      <4> QED BY <2>2, <4>1, <4>2 DEF Pending
    <3> QED BY <3>1, <3>2
  <2> QED BY <1>2, <2>1, <2>3
<1>5. Good \subseteq TopWalk
  <2> HIDE DEF Good
  <2>1. Good \subseteq Reached(Params, AllCleared(flag), Through, Down)
    <3> HIDE DEF Through
    <3> QED BY <1>1, <1>3, <1>4, DownAll
  <2> QED BY <2>1 DEF TopWalk
<1>6. TopWalk \subseteq Schema
  BY WalkTypes
<1> DEFINE Seen == TopWalk \ (healthy \cup faulty)
<1>7. Seen \in SUBSET Pending /\ Maximal(Pending) \subseteq Seen
  BY <1>5, <1>6 DEF Pending, Maximal
<1> HIDE DEF Seen
<1>8. Maximal(Seen) = Maximal(Pending)
  BY <1>7, TableFacts, ParamsFinite, MaximalOfPart
<1> QED BY <1>8 DEF Seen, getTopSchemas

\* The walk up finds the minimal pending schemas: the mark that may be left on
\* the whole schema is in no way.
LEMMA BottomsFound ==
    ASSUME NEW t, NEW M, Table(healthy, faulty, t, M), flag \in SUBSET Schema
    PROVE  getBottomSchemas = Minimal(Pending)
<1> DEFINE Through == healthy \ faulty
           Good == healthy \cup Minimal(Pending)
           marked == LastKept(flag)
<1>1. marked \subseteq {Params} /\ {} \in Schema
  BY Marks DEF Schema
<1>2. Through = healthy
  BY TableFacts
<1>3. Params \in faulty /\ Params \notin healthy /\ Params \notin Pending
  BY TableFacts DEF Table
<1>4. Good \in SUBSET Schema /\ Params \notin Good
  <2>1. healthy \subseteq Schema
    BY DEF Table
  <2>2. Minimal(Pending) \subseteq Pending
    BY DEF Minimal
  <2>3. Pending \subseteq Schema
    BY DEF Pending
  <2> QED BY <1>3, <2>1, <2>2, <2>3
<1>5. Good \cap marked = {}
  BY <1>1, <1>4
<1>6. ASSUME NEW s \in Good, s # {}
      PROVE  \E i \in s \ {} : s \ {i} \in Good \cap Through
  <2>1. PICK i \in s : TRUE
    BY <1>6
  <2>2. s \ {i} \in Schema /\ s \ {i} \subseteq s /\ s \ {i} # s
    BY <1>4, <2>1 DEF Schema
  <2>3. s \ {i} \in healthy
    <3>1. CASE s \in healthy
      BY <2>2, <3>1 DEF Table
    <3>2. CASE s \in Minimal(Pending)
      <4>1. s \in Pending /\ s \ {i} \notin Pending
        BY <2>2, <3>2 DEF Minimal
      <4>2. s \ {i} \notin faulty
        BY <2>2, <4>1, TableFacts
      <4> QED BY <2>2, <4>1, <4>2 DEF Pending
    <3> QED BY <3>1, <3>2
  <2> QED BY <1>2, <2>1, <2>3
<1>7. Good \subseteq BottomWalk
  <2>1. \A s \in Good : {} \subseteq s
    OBVIOUS
  <2> HIDE DEF Good
  <2>2. Good \subseteq Reached({}, marked, Through, Up)
    <3> HIDE DEF Through, marked
    <3> QED BY <1>1, <1>4, <1>5, <1>6, <2>1, UpAll
  <2> QED BY <2>2 DEF BottomWalk
<1>8. BottomWalk \subseteq Schema
  BY WalkTypes
<1> DEFINE Seen == BottomWalk \ (healthy \cup faulty)
<1>9. Seen \in SUBSET Pending /\ Minimal(Pending) \subseteq Seen
  BY <1>7, <1>8 DEF Pending, Minimal
<1> HIDE DEF Seen
<1>10. Minimal(Seen) = Minimal(Pending)
  BY <1>9, TableFacts, ParamsFinite, MinimalOfPart
<1> QED BY <1>10 DEF Seen, getBottomSchemas

\* The walk for the result finds the minimal faulty schemas, unless the mark
\* left on the whole schema hides it.
LEMMA MFSFound ==
    ASSUME NEW t, NEW M, Table(healthy, faulty, t, M), flag \in SUBSET Schema
    PROVE  \/ getMFS = Minimal(faulty)
           \/ ~(N < 6) /\ faulty = {Params} /\ getMFS = {}
<1> DEFINE marked == LastKept(flag)
           Through == Schema \ faulty
           Good == Through \cup (Minimal(faulty) \ marked)
           Seen == MFSWalk \cap faulty
<1>1. marked \subseteq {Params} /\ {} \in Schema /\ (N < 6 => marked = {})
  BY Marks DEF Schema
<1>2. Params \in faulty /\ faulty \in SUBSET SUBSET Params
  BY DEF Table, Schema
<1>3. Good \in SUBSET Schema /\ Good \cap marked = {} /\ \A s \in Good : {} \subseteq s
  BY <1>1, <1>2 DEF Schema, Minimal
<1>4. ASSUME NEW s \in Good, s # {}
      PROVE  \E i \in s \ {} : s \ {i} \in Good \cap Through
  <2>1. PICK i \in s : TRUE
    BY <1>4
  <2>2. s \in Schema /\ s \ {i} \in Schema /\ s \ {i} \subseteq s /\ s \ {i} # s
    BY <1>3, <2>1 DEF Schema
  <2>3. s \ {i} \notin faulty
    <3>1. CASE s \in Through
      BY <2>2, <3>1 DEF Table
    <3>2. CASE s \in Minimal(faulty)
      BY <2>2, <3>2 DEF Minimal
    <3> QED BY <3>1, <3>2
  <2> QED BY <2>1, <2>2, <2>3
<1>5. Good \subseteq MFSWalk
  <2> HIDE DEF Good
  <2>1. Good \subseteq Reached({}, marked, Through, Up)
    <3> HIDE DEF Through, marked
    <3> QED BY <1>1, <1>3, <1>4, UpAll
  <2> QED BY <2>1 DEF MFSWalk
<1>6. getMFS = Minimal(Seen) /\ Seen \in SUBSET faulty
  BY DEF getMFS
<1>7. Minimal(faulty) \ marked \subseteq Seen
  BY <1>5 DEF Minimal
<1> HIDE DEF Seen, Good, marked, Through
<1>8. CASE Minimal(faulty) \subseteq Seen
  BY <1>2, <1>6, <1>8, ParamsFinite, MinimalOfPart
<1>9. CASE ~(Minimal(faulty) \subseteq Seen)
  <2>1. Params \in Minimal(faulty) /\ Params \notin Seen /\ ~(N < 6)
    BY <1>1, <1>7, <1>9
  <2>2. faulty = {Params}
    BY <1>2, <2>1 DEF Minimal
  <2>3. Seen = {}
    BY <1>6, <2>1, <2>2
  <2> QED BY <1>6, <2>1, <2>2, <2>3 DEF Minimal
<1> QED BY <1>8, <1>9

-----------------------------------------------------------------------------
(***************************************************************************)
(* Chains.  A chain climbs from the lowest parameter up.                   *)
(***************************************************************************)

\* A chain has as many steps as its maximum has parameters more.
LEMMA LastIndexType ==
    ASSUME NEW c \in [max : Schema, min : Schema], c.min \subseteq c.max
    PROVE  /\ LastIndex(c) \in 0 .. N
           /\ IsFiniteSet(c.max \ c.min)
           /\ Cardinality(c.max \ c.min) = LastIndex(c)
<1>1. c.max \in SUBSET Params /\ c.min \in SUBSET c.max
  BY DEF Schema
<1> QED BY <1>1, SizeOfDifference DEF LastIndex

\* The list climbs from min to max, one index above the other.
LEMMA ChainAtClimbs ==
    ASSUME NEW c \in [max : Schema, min : Schema], c.min \subseteq c.max
    PROVE  /\ \A k : c.min \subseteq ChainAt(c, k) /\ ChainAt(c, k) \subseteq c.max
           /\ ChainAt(c, 0) = c.min
           /\ ChainAt(c, LastIndex(c)) = c.max
           /\ \A j, k \in Int : j <= k => ChainAt(c, j) \subseteq ChainAt(c, k)
<1> DEFINE D == c.max \ c.min
           Lower(i) == {j \in D : j < i}
<1>1. IsFiniteSet(D) /\ Cardinality(D) = LastIndex(c) /\ LastIndex(c) \in Nat
  BY LastIndexType
<1>2. D \subseteq Int
  BY DEF Schema, Params
<1>3. \A k : ChainAt(c, k) = c.min \cup {i \in D : Cardinality(Lower(i)) < k}
  BY DEF ChainAt
<1>4. c.max = c.min \cup D
  OBVIOUS
<1>5. ASSUME NEW i \in D
      PROVE  Cardinality(Lower(i)) \in Nat /\ Cardinality(Lower(i)) < LastIndex(c)
  <2>1. Lower(i) \in SUBSET D /\ Lower(i) # D
    BY <1>2
  <2> HIDE DEF Lower, D
  <2>2. IsFiniteSet(Lower(i)) /\ Cardinality(Lower(i)) <= Cardinality(D)
        /\ Cardinality(Lower(i)) # Cardinality(D)
    BY <1>1, <2>1, FS_Subset
  <2>3. Cardinality(Lower(i)) \in Nat
    BY <2>2, FS_CardinalityType
  <2> QED BY <1>1, <2>2, <2>3
<1> HIDE DEF D, Lower
<1>6. \A k : c.min \subseteq ChainAt(c, k) /\ ChainAt(c, k) \subseteq c.max
  BY <1>3, <1>4
<1>7. ChainAt(c, 0) = c.min
  <2>1. ChainAt(c, 0) = c.min \cup {i \in D : Cardinality(Lower(i)) < 0}
    BY <1>3
  <2>2. ASSUME NEW i \in D
        PROVE  ~(Cardinality(Lower(i)) < 0)
    <3>1. Cardinality(Lower(i)) \in Nat
      BY <1>5
    <3> QED BY <3>1
  <2> QED BY <2>1, <2>2, ZenonT(30)
<1>8. ChainAt(c, LastIndex(c)) = c.max
  <2>1. ChainAt(c, LastIndex(c))
          = c.min \cup {i \in D : Cardinality(Lower(i)) < LastIndex(c)}
    BY <1>3
  <2>2. {i \in D : Cardinality(Lower(i)) < LastIndex(c)} = D
    BY <1>5, ZenonT(30)
  <2> QED BY <1>4, <2>1, <2>2
<1>9. \A j, k \in Int : j <= k => ChainAt(c, j) \subseteq ChainAt(c, k)
  BY <1>3, <1>5
<1> QED BY <1>6, <1>7, <1>8, <1>9

-----------------------------------------------------------------------------
(***************************************************************************)
(* The inductive invariant.                                                *)
(***************************************************************************)

InputsOK ==
    /\ MFS \in MFSSets
    /\ Tfail \in TestLists
    /\ \A k \in 1 .. Len(Tfail) : ~check(Tfail[k], MFS)

ControlOK ==
    /\ pc \in {"tfail", "loop", "chain", "search"} => conducted /\ HasSafeValues(MFS)
    /\ pc = "thrown" => ~HasSafeValues(MFS)
    /\ pc \in {"loop", "chain", "search"} => next <= Len(Tfail)

\* The table of the test case under study, closed and true of the program.
TableOK ==
    pc \in {"loop", "chain", "search"} => Table(healthy, faulty, Tfail[next], MFS)

\* The walk that opened the round found all maximal pending schemas.
TopsOK ==
    pc = "chain" => topSchemas = Maximal(Pending)

\* The chain under search is pending and the bisection has its ends right.
SearchOK ==
    pc = "search" =>
        /\ chain.max \in Pending
        /\ chain.min \in Pending
        /\ chain.min \subseteq chain.max
        /\ Faulty(getComb(chain.max, tfail), MFS)
        /\ left <= right + 1
        /\ right <= LastIndex(chain)
        /\ left > 0 => ~Faulty(getComb(ChainAt(chain, left - 1), tfail), MFS)
        /\ right < LastIndex(chain) =>
              Faulty(getComb(ChainAt(chain, right + 1), tfail), MFS)
        /\ result = IF right = LastIndex(chain) THEN -1 ELSE right + 1

\* The report holds no other combinations than those of S, and all of them but
\* whole test cases of six parameters or more.
Reports(report, S) ==
    /\ report \subseteq S
    /\ \A mf \in S \ report : ~(N < 6) /\ schemaOf(mf) = Params

ReportOK ==
    /\ ~conducted => MFC_identified = {}
    /\ pc \in {"tfail", "loop", "chain", "search"} =>
          Reports(MFC_identified, UNION {MFSIn(Tfail[k]) : k \in 1 .. next - 1})
    /\ pc = "idle" /\ conducted => Reports(MFC_identified, MFSInTfail)

Inv ==
    /\ TypeOK
    /\ InputsOK
    /\ ControlOK
    /\ TableOK
    /\ TopsOK
    /\ SearchOK
    /\ ReportOK

\* What the inputs are known to be.
LEMMA InputFacts ==
    ASSUME InputsOK
    PROVE  /\ MFS \in SUBSET Comb /\ Irredundant(MFS)
           /\ Tfail \in Seq(Testcase) /\ Len(Tfail) \in Nat
           /\ \A k \in 1 .. Len(Tfail) : Tfail[k] \in Testcase
<1>1. Tfail \in Seq(Testcase)
  BY TestListsAssumption DEF InputsOK
<1> QED BY <1>1, MFSSetsAssumption DEF InputsOK

\* The test case under study and its table.
LEMMA StudyFacts ==
    ASSUME Inv, pc \in {"loop", "chain", "search"}
    PROVE  /\ tfail \in Testcase /\ tfail = Tfail[next]
           /\ HasSafeValues(MFS) /\ MFS \in SUBSET Comb /\ Irredundant(MFS)
           /\ next \in 1 .. Len(Tfail) /\ Len(Tfail) \in Nat
           /\ Table(healthy, faulty, tfail, MFS)
           /\ flag \in SUBSET Schema
<1>1. next \in 1 .. Len(Tfail)
  BY InputFacts DEF Inv, TypeOK, ControlOK
<1> QED BY <1>1, InputFacts DEF Inv, ControlOK, TableOK, TypeOK, tfail

\* What running one padded test case tells and records.
LEMMA CheckFacts ==
    ASSUME Inv, pc \in {"chain", "search"}, UNCHANGED inputs,
           UNCHANGED conducted, UNCHANGED MFC_identified,
           NEW s, check_with_safevalues(getComb(s, tfail), tfail)
    PROVE  /\ Healthy(getComb(s, tfail), tfail) <=> ~Faulty(getComb(s, tfail), MFS)
           /\ ResolverTypeOK'
<1> DEFINE comb == getComb(s, tfail)
<1>1. tfail \in Testcase /\ HasSafeValues(MFS) /\ MFS \in SUBSET Comb
  BY StudyFacts
<1>2. Healthy(comb, tfail) <=> ~Faulty(comb, MFS)
  BY <1>1, SafePadding DEF Healthy, safeValues
<1>3. comb \in Comb
  BY <1>1, getCombType
<1>4. paddingWithSafeValues(comb, safeValues, tfail) \in Testcase
  BY <1>1, PaddingType DEF safeValues
<1> HIDE DEF comb
<1>5. ResolverTypeOK
  BY DEF Inv, TypeOK
<1>6. check_with_safevalues(comb, tfail)
  BY DEF comb
<1>7. ResolverTypeOK'
  BY <1>3, <1>4, <1>5, <1>6 DEF check_with_safevalues, ResolverTypeOK, inputs
<1> QED BY <1>2, <1>7 DEF comb

\* InputsOK depends on the inputs alone.
LEMMA InputsStay ==
    ASSUME InputsOK, UNCHANGED inputs
    PROVE  InputsOK'
BY DEF InputsOK, inputs

\* ReportOK depends on the inputs, the report and the position alone.
LEMMA ReportStays ==
    ASSUME ReportOK, UNCHANGED <<inputs, conducted, MFC_identified, next>>,
           pc \in {"tfail", "loop", "chain", "search"},
           pc' \in {"tfail", "loop", "chain", "search"}
    PROVE  ReportOK'
BY DEF ReportOK, inputs, MFSIn

-----------------------------------------------------------------------------
(***************************************************************************)
(* Inv holds initially and every action preserves it.                      *)
(***************************************************************************)

\* The constructor establishes the invariant.
LEMMA InitInv == Init => Inv
<1> SUFFICES ASSUME Init PROVE Inv
  OBVIOUS
<1> USE DEF Init, ResolverInit, Constructed, SearchInit
<1>1. InputsOK
  BY DEF InputsOK
<1>2. TypeOK
  <2>1. MFS \subseteq Comb /\ Tfail \in Seq(Testcase) /\ Len(Tfail) \in Nat
    BY <1>1, InputFacts
  <2>2. SearchTypeOK
    BY NAssumption DEF SearchTypeOK, NoChain, Schema
  <2>3. ResolverTypeOK
    BY <2>1 DEF ResolverTypeOK
  <2>4. next \in 1 .. Len(Tfail) + 1
    BY <2>1
  <2> QED BY <2>2, <2>3, <2>4 DEF TypeOK
<1>3. ControlOK /\ TableOK /\ TopsOK /\ SearchOK
  BY DEF ControlOK, TableOK, TopsOK, SearchOK
<1>4. ReportOK
  BY DEF ReportOK
<1> QED BY <1>1, <1>2, <1>3, <1>4 DEF Inv

\* conduct sets out, or throws.
LEMMA ConductStep == ASSUME Inv, Conduct PROVE Inv'
<1> USE DEF Conduct, inputs, records, tableVars, searchVars
<1>1. InputsOK'
  BY InputsStay DEF Inv
<1>2. TypeOK'
  <2>1. Len(Tfail) \in Nat
    BY InputFacts DEF Inv
  <2> QED BY <2>1 DEF Inv, TypeOK, ResolverTypeOK, SearchTypeOK
<1>3. ControlOK' /\ TableOK' /\ TopsOK' /\ SearchOK'
  BY DEF ControlOK, TableOK, TopsOK, SearchOK, SafeValuesMissing
<1>4. ReportOK'
  <2>1. MFC_identified' = {} /\ next' = 1 /\ conducted' /\ pc' # "idle"
    BY DEF Inv, ReportOK
  <2>2. 1 .. next' - 1 = {}
    BY <2>1
  <2> QED BY <2>1, <2>2 DEF ReportOK, Reports
<1> QED BY <1>1, <1>2, <1>3, <1>4 DEF Inv

\* reset.
LEMMA ResetStep == ASSUME Inv, Reset PROVE Inv'
<1> USE DEF Reset, ResolverReset, inputs, tableVars, searchVars
<1>1. InputsOK'
  BY InputsStay DEF Inv
<1>2. TypeOK'
  BY DEF Inv, TypeOK, ResolverTypeOK, SearchTypeOK
<1>3. ControlOK' /\ TableOK' /\ TopsOK' /\ SearchOK' /\ ReportOK'
  BY DEF ControlOK, TableOK, TopsOK, SearchOK, ReportOK
<1> QED BY <1>1, <1>2, <1>3 DEF Inv

\* A new table: the test case is faulty, the empty schema healthy.
LEMMA BeginTestcaseStep == ASSUME Inv, BeginTestcase PROVE Inv'
<1> USE DEF BeginTestcase, resolverVars, inputs, records, searchVars
<1>1. InputsOK'
  BY InputsStay DEF Inv
<1>2. next \in 1 .. Len(Tfail) /\ tfail \in Testcase /\ ~check(tfail, MFS)
  BY InputFacts DEF Inv, TypeOK, InputsOK, tfail
<1>3. MFS \in SUBSET Comb /\ Irredundant(MFS)
  BY InputFacts DEF Inv
<1>4. Table({{}}, {Params}, tfail, MFS)
  <2>1. Faulty(getComb(Params, tfail), MFS)
    BY <1>2, <1>3, WholeTestcase
  <2>2. ~Faulty(getComb({}, tfail), MFS)
    BY <1>2, <1>3, EmptyIsHealthy
  <2> QED BY <2>1, <2>2 DEF Table, Schema
<1>5. TypeOK'
  BY DEF Inv, TypeOK, ResolverTypeOK, SearchTypeOK, Schema
<1>6. ControlOK' /\ TableOK' /\ TopsOK' /\ SearchOK'
  BY <1>2, <1>4 DEF Inv, ControlOK, TableOK, TopsOK, SearchOK, tfail
<1>7. ReportOK'
  BY ReportStays DEF Inv
<1> QED BY <1>1, <1>5, <1>6, <1>7 DEF Inv

\* The loop over the failing test cases ends.
LEMMA FinishConductStep == ASSUME Inv, FinishConduct PROVE Inv'
<1> USE DEF FinishConduct, resolverVars, inputs, records, tableVars, searchVars
<1>1. InputsOK'
  BY InputsStay DEF Inv
<1>2. TypeOK'
  BY DEF Inv, TypeOK, ResolverTypeOK, SearchTypeOK
<1>3. ControlOK' /\ TableOK' /\ TopsOK' /\ SearchOK'
  BY DEF Inv, ControlOK, TableOK, TopsOK, SearchOK
<1>4. ReportOK'
  <2>1. next - 1 = Len(Tfail)
    BY InputFacts DEF Inv, TypeOK
  <2>2. Reports(MFC_identified, MFSInTfail)
    BY <2>1 DEF Inv, ReportOK, MFSInTfail
  <2>3. MFSInTfail' = MFSInTfail
    BY DEF MFSInTfail, MFSIn
  <2> QED BY <2>2, <2>3 DEF Inv, ControlOK, ReportOK
<1> QED BY <1>1, <1>2, <1>3, <1>4 DEF Inv

\* The walk for the top schemas.
LEMMA FindTopsStep == ASSUME Inv, FindTops PROVE Inv'
<1> USE DEF FindTops, resolverVars, inputs, records, searchVars
<1>1. Table(healthy, faulty, tfail, MFS) /\ flag \in SUBSET Schema
  BY StudyFacts
<1>2. topSchemas' = Maximal(Pending) /\ Pending' = Pending
  BY <1>1, TopsFound DEF Pending
<1>3. topSchemas' \subseteq Schema /\ flag' \subseteq Schema
  BY <1>1, <1>2, WalkTypes DEF Maximal, Pending, AllCleared
<1>4. TypeOK'
  BY <1>3 DEF Inv, TypeOK, ResolverTypeOK, SearchTypeOK
<1>5. InputsOK'
  BY InputsStay DEF Inv
<1>6. ControlOK' /\ TableOK' /\ SearchOK' /\ TopsOK'
  BY <1>2 DEF Inv, ControlOK, TableOK, SearchOK, TopsOK
<1>7. ReportOK'
  BY ReportStays DEF Inv
<1> QED BY <1>4, <1>5, <1>6, <1>7 DEF Inv

\* While top schemas are left there is a chain, and a longest one is pending.
LEMMA ChainFound ==
    ASSUME Inv, pc = "chain", topSchemas # {}
    PROVE  /\ Chains(topSchemas, getBottomSchemas) # {}
           /\ \A c \in LongestChains(topSchemas, getBottomSchemas) :
                 /\ c \in [max : Schema, min : Schema]
                 /\ c.max \in Pending /\ c.min \in Pending /\ c.min \subseteq c.max
<1>1. Table(healthy, faulty, tfail, MFS) /\ flag \in SUBSET Schema
  BY StudyFacts
<1>2. topSchemas = Maximal(Pending) /\ getBottomSchemas = Minimal(Pending)
  BY <1>1, BottomsFound DEF Inv, TopsOK
<1>3. Pending \in SUBSET SUBSET Params
  BY <1>1, TableFacts
<1>4. PICK max \in Maximal(Pending) : TRUE
  BY <1>2
<1>5. PICK min \in Minimal(Pending) : min \subseteq max
  BY <1>3, <1>4, ParamsFinite, MinimalBelow DEF Maximal
<1>6. [max |-> max, min |-> min] \in Chains(topSchemas, getBottomSchemas)
  BY <1>2, <1>5 DEF Chains
<1>7. ASSUME NEW c \in LongestChains(topSchemas, getBottomSchemas)
      PROVE  /\ c \in [max : Schema, min : Schema]
             /\ c.max \in Pending /\ c.min \in Pending /\ c.min \subseteq c.max
  <2>1. c \in [max : Maximal(Pending), min : Minimal(Pending)] /\ c.min \subseteq c.max
    BY <1>2 DEF LongestChains, Chains
  <2>2. Maximal(Pending) \subseteq Pending /\ Minimal(Pending) \subseteq Pending
    BY DEF Maximal, Minimal
  <2> QED BY <1>3, <2>1, <2>2 DEF Schema
<1> QED BY <1>6, <1>7

\* A schema found healthy enters the table with all schemas below it.
LEMMA TableGainsHealthy ==
    ASSUME NEW t \in Testcase, NEW M \in SUBSET Comb, Table(healthy, faulty, t, M),
           NEW c \in Schema, ~Faulty(getComb(c, t), M)
    PROVE  Table(setHealthy(c), faulty, t, M)
<1>1. setHealthy(c) = healthy \cup SUBSET c
  BY setHealthyMarksBelow DEF Table
<1>2. \A s \in SUBSET c : ~Faulty(getComb(s, t), M)
  BY FaultyMonotone
<1>3. \A s \in SUBSET c : s \in Schema /\ SUBSET s \subseteq SUBSET c
  BY DEF Schema
<1> QED BY <1>1, <1>2, <1>3 DEF Table

\* A schema found faulty enters the table with all schemas above it.
LEMMA TableGainsFaulty ==
    ASSUME NEW t \in Testcase, NEW M \in SUBSET Comb, Table(healthy, faulty, t, M),
           NEW c \in Schema, Faulty(getComb(c, t), M)
    PROVE  Table(healthy, setFaulty(c), t, M)
<1>1. setFaulty(c) = faulty \cup {s \in Schema : c \subseteq s}
  BY setFaultyMarksAbove DEF Table
<1>2. \A s \in Schema : c \subseteq s => Faulty(getComb(s, t), M)
  BY FaultyMonotone
<1> QED BY <1>1, <1>2 DEF Table

\* A round of the loop.  No exception is thrown, the maximum of a longest chain
\* is tested.
LEMMA IterateStep == ASSUME Inv, Iterate PROVE Inv' /\ pc' # "thrown"
<1> USE DEF Iterate
<1>1. /\ tfail \in Testcase /\ MFS \in SUBSET Comb
      /\ Table(healthy, faulty, tfail, MFS) /\ flag \in SUBSET Schema
  BY StudyFacts
<1>2. PICK c \in LongestChains(topSchemas, getBottomSchemas) : TestMaximum(c)
  BY ChainFound
<1>3. /\ c \in [max : Schema, min : Schema] /\ c.max \in Schema
      /\ c.max \in Pending /\ c.min \in Pending /\ c.min \subseteq c.max
  BY ChainFound
<1>4. /\ UNCHANGED inputs /\ UNCHANGED conducted /\ UNCHANGED MFC_identified
      /\ UNCHANGED next /\ UNCHANGED faulty /\ topSchemas' = {}
      /\ flag' = LastKept(flag) \cup BottomWalk
  OBVIOUS
<1>5. MFS' = MFS /\ Tfail' = Tfail /\ tfail' = tfail
  BY <1>4 DEF inputs, tfail
<1>6. check_with_safevalues(getComb(c.max, tfail), tfail)
  BY <1>2 DEF TestMaximum
<1>7. /\ Healthy(getComb(c.max, tfail), tfail) <=> ~Faulty(getComb(c.max, tfail), MFS)
      /\ ResolverTypeOK'
  BY <1>4, <1>6, CheckFacts
<1>8. InputsOK'
  BY <1>4, InputsStay DEF Inv
<1>9. flag' \subseteq Schema
  BY <1>1, <1>4, WalkTypes DEF LastKept
<1>10. CASE Healthy(getComb(c.max, tfail), tfail)
  <2>1. healthy' = setHealthy(c.max) /\ pc' = "loop" /\ UNCHANGED searchVars
    BY <1>2, <1>10 DEF TestMaximum
  <2>2. Table(healthy', faulty', tfail, MFS)
    BY <1>1, <1>3, <1>4, <1>7, <1>10, <2>1, TableGainsHealthy
  <2>3. TypeOK'
    <3>1. healthy' \subseteq Schema /\ SearchTypeOK'
      BY <2>1, <2>2 DEF Table, Inv, TypeOK, SearchTypeOK, searchVars
    <3> QED BY <1>4, <1>5, <1>7, <1>9, <2>1, <3>1 DEF Inv, TypeOK
  <2>4. ControlOK' /\ TableOK' /\ TopsOK' /\ SearchOK'
    BY <1>4, <1>5, <2>1, <2>2 DEF Inv, ControlOK, TableOK, TopsOK, SearchOK, tfail
  <2>5. ReportOK'
    BY <1>4, <2>1, ReportStays DEF Inv
  <2> QED BY <1>8, <2>1, <2>3, <2>4, <2>5 DEF Inv
<1>11. CASE ~Healthy(getComb(c.max, tfail), tfail)
  <2>1. pc' = "search" /\ OpenSearch(c) /\ healthy' = healthy
    BY <1>2, <1>11 DEF TestMaximum
  <2>2. LastIndex(c) \in 0 .. N
    BY <1>3, LastIndexType
  <2>3. SearchTypeOK'
    BY <1>3, <2>1, <2>2, NAssumption DEF OpenSearch, SearchTypeOK
  <2>4. TypeOK'
    BY <1>4, <1>5, <1>7, <1>9, <2>1, <2>3 DEF Inv, TypeOK
  <2>5. Pending' = Pending
    BY <1>4, <2>1 DEF Pending
  <2>6. SearchOK'
    BY <1>3, <1>5, <1>7, <1>11, <2>1, <2>2, <2>5 DEF SearchOK, OpenSearch
  <2>7. ControlOK' /\ TableOK' /\ TopsOK'
    BY <1>4, <1>5, <2>1 DEF Inv, ControlOK, TableOK, TopsOK
  <2>8. ReportOK'
    BY <1>4, <2>1, ReportStays DEF Inv
  <2> QED BY <1>8, <2>1, <2>4, <2>6, <2>7, <2>8 DEF Inv
<1> QED BY <1>10, <1>11

\* The parts of the search that Inv speaks of.
LEMMA SearchFacts ==
    ASSUME Inv, pc = "search"
    PROVE  /\ chain \in [max : Schema, min : Schema] /\ chain.min \subseteq chain.max
           /\ chain.max \in Pending /\ chain.min \in Pending
           /\ LastIndex(chain) \in 0 .. N /\ N \in Nat
           /\ left \in 0 .. N + 1 /\ right \in -1 .. N /\ result \in -1 .. N
           /\ left <= right + 1 /\ right <= LastIndex(chain)
           /\ left > 0 => ~Faulty(getComb(ChainAt(chain, left - 1), tfail), MFS)
           /\ right < LastIndex(chain) =>
                 Faulty(getComb(ChainAt(chain, right + 1), tfail), MFS)
           /\ result = IF right = LastIndex(chain) THEN -1 ELSE right + 1
           /\ Faulty(getComb(chain.max, tfail), MFS)
<1>1. /\ chain \in [max : Schema, min : Schema] /\ chain.min \subseteq chain.max
      /\ left \in 0 .. N + 1 /\ right \in -1 .. N /\ result \in -1 .. N
  BY DEF Inv, TypeOK, SearchTypeOK, SearchOK
<1>2. LastIndex(chain) \in 0 .. N /\ N \in Nat
  BY <1>1, LastIndexType, NAssumption
<1> QED BY <1>1, <1>2 DEF Inv, SearchOK

\* A round of the bisection.
LEMMA SearchStepStep == ASSUME Inv, SearchStep PROVE Inv'
<1> USE DEF SearchStep, tableVars
<1> DEFINE comb == getComb(ChainAt(chain, mid), tfail)
<1>1. /\ UNCHANGED inputs /\ UNCHANGED conducted /\ UNCHANGED MFC_identified
      /\ UNCHANGED next /\ UNCHANGED healthy /\ UNCHANGED faulty /\ UNCHANGED flag
      /\ UNCHANGED topSchemas /\ pc = "search" /\ pc' = "search"
  OBVIOUS
<1>2. /\ left <= right
      /\ check_with_safevalues(comb, tfail)
      /\ left'   = IF Healthy(comb, tfail) THEN mid + 1 ELSE left
      /\ right'  = IF Healthy(comb, tfail) THEN right ELSE mid - 1
      /\ result' = IF Healthy(comb, tfail) THEN result ELSE mid
      /\ chain' = chain
  BY DEF StepSearch
<1>3. MFS' = MFS /\ Tfail' = Tfail /\ tfail' = tfail /\ Pending' = Pending
  BY <1>1 DEF inputs, tfail, Pending
<1>4. (Healthy(comb, tfail) <=> ~Faulty(comb, MFS)) /\ ResolverTypeOK'
  BY <1>1, <1>2, CheckFacts
<1>5. InputsOK'
  BY <1>1, InputsStay DEF Inv
<1>6. /\ chain \in [max : Schema, min : Schema] /\ chain.min \subseteq chain.max
      /\ chain.max \in Pending /\ chain.min \in Pending
      /\ LastIndex(chain) \in 0 .. N /\ N \in Nat
      /\ left \in 0 .. N + 1 /\ right \in -1 .. N /\ result \in -1 .. N
      /\ left <= right + 1 /\ right <= LastIndex(chain)
      /\ left > 0 => ~Faulty(getComb(ChainAt(chain, left - 1), tfail), MFS)
      /\ right < LastIndex(chain) =>
            Faulty(getComb(ChainAt(chain, right + 1), tfail), MFS)
      /\ result = IF right = LastIndex(chain) THEN -1 ELSE right + 1
      /\ Faulty(getComb(chain.max, tfail), MFS)
  BY <1>1, SearchFacts
<1>7. mid \in Int /\ left <= mid /\ mid <= right
  BY <1>2, <1>6 DEF mid
<1>8. SearchTypeOK'
  BY <1>2, <1>6, <1>7 DEF SearchTypeOK
<1>9. TypeOK'
  BY <1>1, <1>3, <1>4, <1>8 DEF Inv, TypeOK
<1>10. SearchOK'
  <2>1. CASE Healthy(comb, tfail)
    <3>1. left' = mid + 1 /\ right' = right /\ result' = result /\ chain' = chain
      BY <1>2, <2>1
    <3>2. left' - 1 = mid /\ left' <= right' + 1
      BY <1>6, <1>7, <3>1
    <3>3. ~Faulty(getComb(ChainAt(chain, left' - 1), tfail), MFS)
      BY <1>4, <2>1, <3>2
    <3> QED BY <1>3, <1>6, <3>1, <3>2, <3>3 DEF SearchOK
  <2>2. CASE ~Healthy(comb, tfail)
    <3>1. left' = left /\ right' = mid - 1 /\ result' = mid /\ chain' = chain
      BY <1>2, <2>2
    <3>2. /\ left' <= right' + 1 /\ right' <= LastIndex(chain)
          /\ right' # LastIndex(chain) /\ right' + 1 = mid
      BY <1>6, <1>7, <3>1
    <3>3. Faulty(getComb(ChainAt(chain, right' + 1), tfail), MFS)
      BY <1>4, <2>2, <3>2
    <3> QED BY <1>3, <1>6, <3>1, <3>2, <3>3 DEF SearchOK
  <2> QED BY <2>1, <2>2
<1>11. ControlOK' /\ TableOK' /\ TopsOK'
  BY <1>1, <1>3 DEF Inv, ControlOK, TableOK, TopsOK
<1>12. ReportOK'
  BY <1>1, ReportStays DEF Inv
<1> QED BY <1>5, <1>9, <1>10, <1>11, <1>12 DEF Inv

\* The bisection never ends without a faulty schema: result = -1 would leave the
\* maximum of the chain tested healthy.
LEMMA SearchEndFaulty ==
    ASSUME Inv, SearchEnd
    PROVE  /\ result # -1 /\ ChainAt(chain, result) \in Schema
           /\ Faulty(getComb(ChainAt(chain, result), tfail), MFS)
<1>1. /\ chain \in [max : Schema, min : Schema] /\ chain.min \subseteq chain.max
      /\ LastIndex(chain) \in 0 .. N /\ N \in Nat
      /\ left \in 0 .. N + 1 /\ right \in -1 .. N
      /\ left <= right + 1 /\ right <= LastIndex(chain)
      /\ left > 0 => ~Faulty(getComb(ChainAt(chain, left - 1), tfail), MFS)
      /\ right < LastIndex(chain) =>
            Faulty(getComb(ChainAt(chain, right + 1), tfail), MFS)
      /\ result = IF right = LastIndex(chain) THEN -1 ELSE right + 1
      /\ Faulty(getComb(chain.max, tfail), MFS)
  BY SearchFacts DEF SearchEnd
<1>2. left > right
  BY DEF SearchEnd, CloseSearch
<1>3. ChainAt(chain, LastIndex(chain)) = chain.max
      /\ \A k : ChainAt(chain, k) \subseteq chain.max
  BY <1>1, ChainAtClimbs
<1>4. right < LastIndex(chain)
  <2> SUFFICES ASSUME right = LastIndex(chain) PROVE FALSE
    BY <1>1
  <2>1. left > 0 /\ left - 1 = LastIndex(chain)
    BY <1>1, <1>2
  <2> QED BY <1>1, <1>3, <2>1
<1>5. result = right + 1 /\ result # -1
  BY <1>1, <1>4
<1>6. chain.max \in SUBSET Params
  BY <1>1 DEF Schema
<1> QED BY <1>1, <1>3, <1>4, <1>5, <1>6 DEF Schema

\* The smallest faulty schema of the chain enters the table.
LEMMA SearchEndStep == ASSUME Inv, SearchEnd PROVE Inv'
<1> USE DEF SearchEnd
<1>1. /\ tfail \in Testcase /\ MFS \in SUBSET Comb
      /\ Table(healthy, faulty, tfail, MFS)
  BY StudyFacts
<1>2. /\ UNCHANGED resolverVars /\ UNCHANGED next /\ UNCHANGED flag
      /\ UNCHANGED topSchemas /\ pc' = "loop"
  OBVIOUS
<1>3. UNCHANGED inputs /\ UNCHANGED conducted /\ UNCHANGED MFC_identified
      /\ MFS' = MFS /\ Tfail' = Tfail /\ tfail' = tfail
  BY <1>2 DEF resolverVars, inputs, tfail
<1>4. faulty' = setFaulty(ChainAt(chain, result)) /\ healthy' = healthy
  BY SearchEndFaulty
<1>5. Table(healthy', faulty', tfail, MFS)
  BY <1>1, <1>4, SearchEndFaulty, TableGainsFaulty
<1>6. SearchTypeOK'
  BY NAssumption DEF CloseSearch, SearchTypeOK, NoChain, Schema
<1>7. TypeOK'
  BY <1>2, <1>3, <1>5, <1>6 DEF Inv, TypeOK, Table, ResolverTypeOK, resolverVars, records
<1>8. InputsOK'
  BY <1>3, InputsStay DEF Inv
<1>9. ControlOK' /\ TableOK' /\ TopsOK' /\ SearchOK'
  BY <1>2, <1>3, <1>5 DEF Inv, ControlOK, TableOK, TopsOK, SearchOK, tfail
<1>10. ReportOK'
  BY <1>2, <1>3, ReportStays DEF Inv
<1> QED BY <1>7, <1>8, <1>9, <1>10 DEF Inv

\* When nothing is pending, what getMFS returns are the failure-causing
\* combinations of the test case, but for a whole test case of six parameters
\* or more.
LEMMA MFSReported ==
    ASSUME Inv, pc = "chain", topSchemas = {}
    PROVE  Reports({getComb(s, tfail) : s \in getMFS}, MFSIn(tfail))
<1>1. /\ tfail \in Testcase /\ MFS \in SUBSET Comb /\ Irredundant(MFS)
      /\ Table(healthy, faulty, tfail, MFS) /\ flag \in SUBSET Schema
  BY StudyFacts
<1>2. Pending = {}
  <2>1. Maximal(Pending) = {} /\ Pending \in SUBSET SUBSET Params
    BY <1>1, TableFacts DEF Inv, TopsOK
  <2> QED BY <2>1, ParamsFinite, MaximalAbove
<1>3. faulty = {s \in SUBSET Params : Faulty(getComb(s, tfail), MFS)}
  BY <1>1, <1>2 DEF Table, Pending, Schema
<1>4. {getComb(s, tfail) : s \in Minimal(faulty)} = MFSIn(tfail)
  BY <1>1, <1>3, MinimalFaultySchemas DEF MFSIn
<1>5. CASE getMFS = Minimal(faulty)
  BY <1>4, <1>5 DEF Reports
<1>6. CASE ~(N < 6) /\ faulty = {Params} /\ getMFS = {}
  <2>1. ASSUME NEW mf \in MFSIn(tfail) PROVE schemaOf(mf) = Params
    <3>1. mf \in MFS /\ contains(tfail, mf) /\ mf \in Comb
      BY <1>1 DEF MFSIn
    <3>2. getComb(schemaOf(mf), tfail) = mf
      BY <1>1, <3>1, CombOfSchema
    <3>3. contains(mf, mf) /\ schemaOf(mf) \in SUBSET Params
      BY DEF contains, schemaOf
    <3>4. schemaOf(mf) \in faulty
      BY <1>3, <3>1, <3>2, <3>3 DEF Faulty
    <3> QED BY <1>6, <3>4
  <2>2. {getComb(s, tfail) : s \in getMFS} = {}
    BY <1>6
  <2> QED BY <1>6, <2>1, <2>2 DEF Reports
<1> QED BY <1>1, <1>5, <1>6, MFSFound

\* A report grows with the combinations of one more test case.
LEMMA ReportsGrow ==
    ASSUME NEW R, NEW S, NEW Q, NEW T, Reports(R, S), Reports(Q, T)
    PROVE  Reports(R \cup Q, S \cup T)
BY DEF Reports

\* The minimal faulty schemas of a test case are reported.
LEMMA EndTestcaseStep == ASSUME Inv, EndTestcase PROVE Inv'
<1> USE DEF EndTestcase, inputs, records, searchVars
<1>1. MFS \in SUBSET Comb /\ next \in 1 .. Len(Tfail) /\ Len(Tfail) \in Nat
      /\ tfail = Tfail[next]
  BY StudyFacts
<1>2. MFS' = MFS /\ Tfail' = Tfail /\ next' = next + 1 /\ pc' = "tfail"
  OBVIOUS
<1>3. Reports({getComb(s, tfail) : s \in getMFS}, MFSIn(Tfail[next]))
  BY <1>1, MFSReported
<1>4. Reports(MFC_identified, UNION {MFSIn(Tfail[k]) : k \in 1 .. next - 1})
  BY DEF Inv, ReportOK
<1>5. ReportOK'
  <2>1. 1 .. next' - 1 = (1 .. next - 1) \cup {next}
    BY <1>1, <1>2
  <2>2. UNION {MFSIn(Tfail[k]) : k \in 1 .. next' - 1}
          = (UNION {MFSIn(Tfail[k]) : k \in 1 .. next - 1}) \cup MFSIn(Tfail[next])
    BY <2>1
  <2>3. Reports(MFC_identified',
                (UNION {MFSIn(Tfail[k]) : k \in 1 .. next - 1}) \cup MFSIn(Tfail[next]))
    BY <1>3, <1>4, ReportsGrow
  <2>4. conducted' /\ pc' = "tfail"
    BY DEF Inv, ControlOK
  <2>5. UNION {MFSIn(Tfail[k])' : k \in 1 .. next' - 1}
          = UNION {MFSIn(Tfail[k]) : k \in 1 .. next' - 1}
    BY <1>2 DEF MFSIn
  <2>6. Reports(MFC_identified', UNION {MFSIn(Tfail[k])' : k \in 1 .. next' - 1})
    BY <2>2, <2>3, <2>5
  <2> QED BY <2>4, <2>6 DEF ReportOK, Reports
<1>6. TypeOK'
  <2>1. MFC_identified' \subseteq Comb
    BY <1>1, <1>3 DEF Reports, MFSIn, Inv, TypeOK, ResolverTypeOK
  <2>2. ResolverTypeOK' /\ SearchTypeOK'
    BY <2>1 DEF Inv, TypeOK, ResolverTypeOK, SearchTypeOK
  <2>3. next' \in 1 .. Len(Tfail') + 1
    BY <1>1, <1>2
  <2> QED BY <1>2, <2>2, <2>3 DEF Inv, TypeOK
<1>7. InputsOK'
  BY InputsStay DEF Inv
<1>8. ControlOK' /\ TableOK' /\ TopsOK' /\ SearchOK'
  BY <1>2 DEF Inv, ControlOK, TableOK, TopsOK, SearchOK
<1> QED BY <1>5, <1>6, <1>7, <1>8 DEF Inv

\* A step that changes nothing.
LEMMA StutterStep == ASSUME Inv, UNCHANGED vars PROVE Inv'
<1> USE DEF vars, resolverVars, inputs, records, tableVars, searchVars
<1>1. TypeOK' /\ InputsOK' /\ ControlOK'
  BY DEF Inv, TypeOK, ResolverTypeOK, SearchTypeOK, InputsOK, ControlOK
<1>2. TableOK' /\ TopsOK' /\ SearchOK'
  BY DEF Inv, TableOK, TopsOK, SearchOK, Pending, tfail
<1>3. ReportOK'
  BY DEF Inv, ReportOK, MFSIn, MFSInTfail
<1> QED BY <1>1, <1>2, <1>3 DEF Inv

-----------------------------------------------------------------------------
(***************************************************************************)
(* The theorems.                                                           *)
(***************************************************************************)

\* Inv holds throughout every run of TRTFaultResolver.conduct and reset: the
\* table is closed and true, the walks and the bisection are consistent with it.
THEOREM InvHolds == Spec => []Inv
<1>1. Init => Inv
  BY InitInv
<1>2. Inv /\ [Next]_vars => Inv'
  <2> SUFFICES ASSUME Inv, [Next]_vars PROVE Inv'
    OBVIOUS
  <2>1. CASE Conduct
    BY <2>1, ConductStep
  <2>2. CASE Reset
    BY <2>2, ResetStep
  <2>3. CASE BeginTestcase
    BY <2>3, BeginTestcaseStep
  <2>4. CASE FinishConduct
    BY <2>4, FinishConductStep
  <2>5. CASE FindTops
    BY <2>5, FindTopsStep
  <2>6. CASE Iterate
    BY <2>6, IterateStep
  <2>7. CASE EndTestcase
    BY <2>7, EndTestcaseStep
  <2>8. CASE SearchStep
    BY <2>8, SearchStepStep
  <2>9. CASE SearchEnd
    BY <2>9, SearchEndStep
  <2>10. CASE UNCHANGED vars
    BY <2>10, StutterStep
  <2> QED
    BY <2>1, <2>2, <2>3, <2>4, <2>5, <2>6, <2>7, <2>8, <2>9, <2>10 DEF Next, Work
<1> QED BY <1>1, <1>2, PTL DEF Spec

\* The variables of TRTFaultResolver and its TRT keep their types.
THEOREM TypeCorrect == Spec => []TypeOK
<1>1. Inv => TypeOK
  BY DEF Inv
<1> QED BY <1>1, InvHolds, PTL

\* The early returns of TRT.setHealthy and TRT.setFaulty never leave part of a
\* cone unmarked, and every entry of the table is true of the program.
THEOREM TableIsSound == Spec => []TableSound
<1>1. Inv => TableSound
  <2> SUFFICES ASSUME Inv, pc \in {"loop", "chain", "search"}
               PROVE  /\ \A s \in healthy : SUBSET s \subseteq healthy
                      /\ \A s \in faulty : \A i \in Params : s \cup {i} \in faulty
                      /\ \A s \in healthy : ~Faulty(getComb(s, tfail), MFS)
                      /\ \A s \in faulty : Faulty(getComb(s, tfail), MFS)
    BY DEF TableSound, IsFaulty
  <2>1. Table(healthy, faulty, tfail, MFS)
    BY StudyFacts
  <2>2. \A s \in faulty : \A i \in Params : s \cup {i} \in Schema
    BY <2>1 DEF Table, Schema
  <2> QED BY <2>1, <2>2 DEF Table
<1> QED BY <1>1, InvHolds, PTL

\* The chain that TRTFaultResolver.binarySearch bisects is pending from end to
\* end, and its interval always holds the smallest faulty schema.
THEOREM SearchBisects == Spec => []SearchInvariant
<1>1. Inv => SearchInvariant
  <2> SUFFICES ASSUME Inv, pc = "search"
               PROVE  /\ Bisecting(ChainAt, tfail)
                      /\ \A k \in 0 .. LastIndex(chain) :
                            ChainAt(chain, k) \notin healthy \cup faulty
    BY DEF SearchInvariant
  <2>1. /\ chain \in [max : Schema, min : Schema] /\ chain.min \subseteq chain.max
        /\ chain.max \in Pending /\ chain.min \in Pending
        /\ LastIndex(chain) \in 0 .. N /\ N \in Nat
        /\ left \in 0 .. N + 1 /\ right \in -1 .. N
        /\ left <= right + 1 /\ right <= LastIndex(chain)
        /\ left > 0 => ~Faulty(getComb(ChainAt(chain, left - 1), tfail), MFS)
        /\ right < LastIndex(chain) =>
              Faulty(getComb(ChainAt(chain, right + 1), tfail), MFS)
        /\ result = IF right = LastIndex(chain) THEN -1 ELSE right + 1
        /\ Faulty(getComb(chain.max, tfail), MFS)
    BY SearchFacts
  <2>2. /\ tfail \in Testcase /\ MFS \in SUBSET Comb
        /\ Table(healthy, faulty, tfail, MFS)
    BY StudyFacts
  <2>3. /\ \A k : chain.min \subseteq ChainAt(chain, k) /\ ChainAt(chain, k) \subseteq chain.max
        /\ ChainAt(chain, 0) = chain.min
        /\ ChainAt(chain, LastIndex(chain)) = chain.max
        /\ \A j, k \in Int : j <= k => ChainAt(chain, j) \subseteq ChainAt(chain, k)
    BY <2>1, ChainAtClimbs
  <2>4. ASSUME NEW k \in 0 .. left - 1
        PROVE  ~Faulty(getComb(ChainAt(chain, k), tfail), MFS)
    <3>1. left > 0 /\ k \in Int /\ left - 1 \in Int /\ k <= left - 1
      BY <2>1
    <3>2. ChainAt(chain, k) \subseteq ChainAt(chain, left - 1)
      BY <2>3, <3>1
    <3> QED BY <2>1, <2>2, <3>1, <3>2, FaultyMonotone
  <2>5. ASSUME NEW k \in right + 1 .. LastIndex(chain)
        PROVE  Faulty(getComb(ChainAt(chain, k), tfail), MFS)
    <3>1. right < LastIndex(chain) /\ k \in Int /\ right + 1 \in Int /\ right + 1 <= k
      BY <2>1
    <3>2. ChainAt(chain, right + 1) \subseteq ChainAt(chain, k)
      BY <2>3, <3>1
    <3> QED BY <2>1, <2>2, <3>1, <3>2, FaultyMonotone
  <2>6. Bisecting(ChainAt, tfail)
    BY <2>1, <2>3, <2>4, <2>5 DEF Bisecting, IsFaulty
  <2>7. ASSUME NEW k PROVE ChainAt(chain, k) \notin healthy \cup faulty
    <3>1. chain.min \in Schema /\ chain.max \in Schema /\ ChainAt(chain, k) \in Schema
      BY <2>1, <2>3 DEF Schema
    <3>2. ChainAt(chain, k) \notin healthy
      BY <2>1, <2>2, <2>3, <3>1 DEF Table, Pending
    <3>3. ChainAt(chain, k) \notin faulty
      BY <2>1, <2>2, <2>3, <3>1 DEF Table, Pending
    <3> QED BY <3>2, <3>3
  <2> QED BY <2>6, <2>7
<1> QED BY <1>1, InvHolds, PTL

\* conduct throws only for the null safe values: the RuntimeExceptions for empty
\* bottom schemas and for a missing chain never fire.
THEOREM ThrowsOnlyForNull == Spec => []ThrowsOnlyWithoutSafeValues
<1>1. Inv => ThrowsOnlyWithoutSafeValues
  BY DEF Inv, ControlOK, ThrowsOnlyWithoutSafeValues, SafeValuesMissing
<1> QED BY <1>1, InvHolds, PTL

\* With fewer than six parameters the walks of TRT find the maximal and the
\* minimal pending schemas and in the end the minimal faulty ones, whatever the
\* walks before them left in flag.
THEOREM WalksFindAll == ASSUME N < 6 PROVE Spec => []WalksComplete
<1>1. Inv => WalksComplete
  <2> SUFFICES ASSUME Inv, pc = "chain"
               PROVE  /\ topSchemas = Maximal(Pending)
                      /\ getBottomSchemas = Minimal(Pending)
                      /\ Pending = {} => getMFS = Minimal(faulty)
    BY DEF WalksComplete, Pending
  <2>1. Table(healthy, faulty, tfail, MFS) /\ flag \in SUBSET Schema
    BY StudyFacts
  <2> QED BY <2>1, BottomsFound, MFSFound DEF Inv, TopsOK
<1> QED BY <1>1, InvHolds, PTL

\* With any number of parameters, what TRTFaultResolver reports is real, and
\* what it misses are failure-causing combinations that fix every parameter of a
\* test case of six parameters or more: the bit that getBottomSchemas and getMFS
\* do not clear costs nothing else.
MissesOnlyWholeTests ==
    pc = "idle" /\ conducted =>
        /\ MFC_identified \subseteq MFSInTfail
        /\ \A mf \in MFSInTfail \ MFC_identified : N >= 6 /\ schemaOf(mf) = Params

\* MissesOnlyWholeTests holds whenever conduct of TRTFaultResolver has returned.
THEOREM ReportMissesOnlyWholeTests == Spec => []MissesOnlyWholeTests
<1>1. Inv => MissesOnlyWholeTests
  <2>1. ~(N < 6) => N >= 6
    BY NAssumption
  <2> QED BY <2>1 DEF Inv, ReportOK, Reports, MissesOnlyWholeTests
<1> QED BY <1>1, InvHolds, PTL

\* With fewer than six parameters the report is exact.
THEOREM ReportIsExact == ASSUME N < 6 PROVE Spec => []ExactIdentification
<1>1. Inv => ExactIdentification
  BY DEF Inv, ReportOK, Reports, ExactIdentification
<1> QED BY <1>1, InvHolds, PTL

(***************************************************************************)
(* The safety part of the refinement.                                      *)
(***************************************************************************)

\* Identification reads combinations as the resolver does.
LEMMA SameCombinations ==
    /\ \A M : Abstract!HasSafeValues(M) = HasSafeValues(M)
    /\ \A A, B : Abstract!contains(A, B) = contains(A, B)
BY DEF Abstract!HasSafeValues, HasSafeValues, Abstract!ValuesAt, ValuesAt,
       Abstract!contains, contains, Abstract!Params, Params, Abstract!UNKNOWN, UNKNOWN

\* Each step of the resolver is a step of Identification or leaves what is seen
\* of it unchanged.
LEMMA StepIsAbstract ==
    ASSUME N < 6, Inv, [Next]_vars
    PROVE  [Abstract!Next]_(Abstract!vars)
<1>1. Len(Tfail) \in Nat /\ next \in 1 .. Len(Tfail) + 1
  BY InputFacts DEF Inv, TypeOK
<1>2. CASE Conduct
  <2>1. Abstract!Start
    BY <1>2, SameCombinations DEF Conduct, Abstract!Start, SafeValuesMissing, inputs
  <2> QED BY <2>1 DEF Abstract!Next
<1>3. CASE Reset
  <2>1. Abstract!Reset
    BY <1>3 DEF Reset, ResolverReset, Abstract!Reset, inputs
  <2> QED BY <2>1 DEF Abstract!Next
<1>4. CASE FinishConduct
  <2>1. next - 1 = Len(Tfail)
    BY <1>1, <1>4 DEF FinishConduct
  <2>2. Abstract!Finish
    BY <1>4, <2>1 DEF FinishConduct, Abstract!Finish, resolverVars, inputs
  <2> QED BY <2>2 DEF Abstract!Next
<1>5. CASE EndTestcase
  <2>1. next \in 1 .. Len(Tfail) /\ Reports({getComb(s, tfail) : s \in getMFS}, MFSIn(tfail))
    BY <1>5, StudyFacts, MFSReported DEF EndTestcase
  <2>2. {getComb(s, tfail) : s \in getMFS} = {mf \in MFS : contains(tfail, mf)}
    BY <2>1 DEF Reports, MFSIn
  <2>3. next - 1 < Len(Tfail) /\ (next + 1) - 1 = (next - 1) + 1 /\ (next - 1) + 1 = next
    BY <1>1, <2>1
  <2>4. Abstract!Examine
    BY <1>5, <2>2, <2>3, SameCombinations DEF EndTestcase, Abstract!Examine, inputs, tfail
  <2> QED BY <2>4 DEF Abstract!Next
<1>6. CASE BeginTestcase \/ FindTops \/ Iterate \/ SearchStep \/ SearchEnd
  <2>1. UNCHANGED <<inputs, conducted, MFC_identified, next>>
    BY <1>6 DEF BeginTestcase, FindTops, Iterate, SearchStep, SearchEnd, resolverVars
  <2>2. pc # "idle" /\ pc # "thrown" /\ pc' # "idle" /\ pc' # "thrown"
    <3>1. CASE Iterate
      <4>1. \E c \in LongestChains(topSchemas, getBottomSchemas) : TestMaximum(c)
        BY <3>1, ChainFound DEF Iterate
      <4> QED BY <3>1, <4>1 DEF Iterate, TestMaximum
    <3>2. CASE BeginTestcase \/ FindTops \/ SearchStep \/ SearchEnd
      BY <3>2 DEF BeginTestcase, FindTops, SearchStep, SearchEnd
    <3> QED BY <1>6, <3>1, <3>2
  <2> QED BY <2>1, <2>2 DEF Abstract!vars, inputs
<1>7. CASE UNCHANGED vars
  BY <1>7 DEF vars, resolverVars, inputs, Abstract!vars
<1> QED BY <1>2, <1>3, <1>4, <1>5, <1>6, <1>7 DEF Next, Work

\* Seen from outside, and with fewer than six parameters, conduct of
\* TRTFaultResolver examines one failing test case after the other and adds
\* exactly its failure-causing combinations.
THEOREM ImplementsSafety == ASSUME N < 6 PROVE Spec => Abstract!Safety
<1>1. Init => Abstract!Init
  BY DEF Init, ResolverInit, Constructed, Abstract!Init
<1>2. Inv /\ [Next]_vars => [Abstract!Next]_(Abstract!vars)
  BY StepIsAbstract
<1> QED BY <1>1, <1>2, InvHolds, PTL DEF Spec, Abstract!Safety
=============================================================================
