---------------------------- MODULE NoPendProofs ----------------------------
(***************************************************************************)
(* NoPend identifies exactly the failure-causing combinations of the       *)
(* failing test cases, for every number of parameters, every fault set and *)
(* every list of failing test cases.  And the linked lists in which it     *)
(* keeps CMinF and CMaxP, MonotoneSchemaSet, do what is done to these sets  *)
(* here.                                                                   *)
(***************************************************************************)
EXTENDS NoPend, MonotoneSchemaSet, CommonProofs

(***************************************************************************)
(* Frames.                                                                 *)
(***************************************************************************)

\* None of the guards of getMHS, complement and getLongestChain fires.
LEMMA FrameDoesNotThrow ==
    ASSUME NEW M \in SUBSET Comb, Irredundant(M), NEW t \in Testcase,
           NEW f, FrameOK(f, t, M)
    PROVE  ~IterationThrows(f)
<1> DEFINE U == f.universe
           C == complement(f.CMaxP, U)
<1>1. /\ U \in SUBSET Params
      /\ f.CMinF \in SUBSET SUBSET U
      /\ f.CMaxP \in SUBSET SUBSET U
      /\ f.CMinF # {} /\ f.CMaxP # {}
  BY DEF FrameOK, Frame, Schema
<1>2. IsFiniteSet(U)
  BY <1>1, ParamsFinite, FS_Subset
<1>3. \A s \in f.CMinF : s # {}
  BY EmptyIsHealthy DEF FrameOK
<1>4. C \in SUBSET SUBSET U /\ C # {} /\ \A s \in C : s # {}
  <2>1. \A s \in f.CMaxP : U \ s # {}
    <3> SUFFICES ASSUME NEW s \in f.CMaxP, U \ s = {} PROVE FALSE
      OBVIOUS
    <3>1. s = U
      BY <1>1
    <3> QED BY <3>1 DEF FrameOK
  <2>2. \A s \in C : \E r \in f.CMaxP : s = U \ r
    BY DEF complement
  <2>3. C # {}
    <3>1. PICK h \in f.CMaxP : TRUE
      BY <1>1
    <3>2. U \ h \in C
      BY <3>1 DEF complement
    <3> QED BY <3>2
  <2> HIDE DEF C, U
  <2> QED BY <2>1, <2>2, <2>3
<1> HIDE DEF U, C
<1>5. topSchemas(f) # {} /\ \A s \in getMHS(f.CMinF) : s \subseteq U
  <2>1. PICK m \in getMHS(f.CMinF) : m \subseteq U
    <3>1. \A s \in f.CMinF : U \cap s # {}
      BY <1>1, <1>3
    <3> QED BY <1>1, <1>2, <3>1, getMHSBelow
  <2>2. \A s \in getMHS(f.CMinF) : s \subseteq UNION f.CMinF
    BY getMHSHits
  <2>3. topSchemas(f) # {}
    BY <2>1 DEF topSchemas, complement
  <2>4. UNION f.CMinF \subseteq U
    BY <1>1
  <2> QED BY <2>2, <2>3, <2>4
<1>6. bottomSchemas(f) # {}
  <2>1. \A s \in C : U \cap s # {}
    BY <1>4
  <2>2. \E m \in getMHS(C) : m \subseteq U
    BY <1>2, <1>4, <2>1, getMHSBelow
  <2> QED BY <2>2 DEF bottomSchemas, C, U
<1> QED
  BY <1>1, <1>3, <1>4, <1>5, <1>6
     DEF IterationThrows, getMHSThrows, getLongestChainThrows, C, U

\* The ends of a chain that an iteration may pick.
LEMMA ChainWithinFrame ==
    ASSUME NEW t, NEW M, NEW f, FrameOK(f, t, M),
           NEW c \in LongestChains(topSchemas(f), bottomSchemas(f))
    PROVE  /\ c \in [max : Schema, min : Schema]
           /\ c.min \subseteq c.max
           /\ c.max \subseteq f.universe
<1>1. c \in [max : topSchemas(f), min : bottomSchemas(f)] /\ c.min \subseteq c.max
  BY DEF LongestChains, Chains
<1>2. \A s \in topSchemas(f) : s \subseteq f.universe
  BY DEF topSchemas, complement
<1>3. f.universe \in Schema
  BY DEF FrameOK, Frame
<1> QED BY <1>1, <1>2, <1>3 DEF Schema

\* A tested healthy schema may join CMaxP.
LEMMA FrameAddsHealthy ==
    ASSUME NEW t, NEW M, NEW f, FrameOK(f, t, M),
           NEW s, s \subseteq f.universe, ~Faulty(getComb(s, t), M)
    PROVE  LET g == [f EXCEPT !.CMaxP = addMaximal(@, s)]
           IN FrameOK(g, t, M) /\ g.universe = f.universe
<1> DEFINE P == addMaximal(f.CMaxP, s)
           g == [f EXCEPT !.CMaxP = P]
<1>1. /\ f.universe \in Schema /\ f.CMinF \in SUBSET Schema
      /\ f.CMaxP \in SUBSET Schema
      /\ f = [universe |-> f.universe, CMinF |-> f.CMinF, CMaxP |-> f.CMaxP]
  BY DEF FrameOK, Frame
<1>2. P # {} /\ \A r \in P : r \in f.CMaxP \/ r = s
  BY DEF addMaximal, FrameOK
<1>3. s \in Schema
  BY <1>1 DEF Schema
<1> HIDE DEF P
<1>4. g = [universe |-> f.universe, CMinF |-> f.CMinF, CMaxP |-> P]
  BY <1>1
<1>5. g \in Frame
  BY <1>1, <1>2, <1>3, <1>4 DEF Frame
<1>6. FrameOK(g, t, M)
  BY <1>2, <1>4, <1>5 DEF FrameOK
<1> QED BY <1>4, <1>6 DEF P

\* A callee's result may be merged into its caller.
LEMMA FrameMerges ==
    ASSUME NEW t, NEW M, NEW f, FrameOK(f, t, M), NEW g, FrameOK(g, t, M),
           g.universe \subseteq f.universe
    PROVE  FrameOK(Merge(f, g), t, M) /\ Merge(f, g).universe = f.universe
<1> DEFINE F == addAllMinimal(f.CMinF, g.CMinF)
           P == addAllMaximal(f.CMaxP, g.CMaxP)
<1>1. /\ f.universe \in Schema /\ f.CMinF \in SUBSET Schema
      /\ f.CMaxP \in SUBSET Schema
      /\ f = [universe |-> f.universe, CMinF |-> f.CMinF, CMaxP |-> f.CMaxP]
      /\ g.CMinF \in SUBSET Schema /\ g.CMaxP \in SUBSET Schema
  BY DEF FrameOK, Frame
<1>2. F \subseteq f.CMinF \cup g.CMinF /\ \A r, s \in F : r \subseteq s => r = s
  BY DEF addAllMinimal, Minimal
<1>3. P \subseteq f.CMaxP \cup g.CMaxP
  BY DEF addAllMaximal, Maximal
<1>4. F # {} /\ P # {}
  <2>1. PICK s \in f.CMinF : TRUE
    BY DEF FrameOK
  <2>2. f.CMinF \cup g.CMinF \in SUBSET SUBSET Params /\ s \in f.CMinF \cup g.CMinF
    BY <1>1 DEF Schema
  <2>3. PICK h \in f.CMaxP : TRUE
    BY DEF FrameOK
  <2>4. f.CMaxP \cup g.CMaxP \in SUBSET SUBSET Params /\ h \in f.CMaxP \cup g.CMaxP
    BY <1>1 DEF Schema
  <2>5. \E m \in Minimal(f.CMinF \cup g.CMinF) : m \subseteq s
    BY <2>2, ParamsFinite, MinimalBelow
  <2>6. \E m \in Maximal(f.CMaxP \cup g.CMaxP) : h \subseteq m
    BY <2>4, ParamsFinite, MaximalAbove
  <2> QED BY <2>5, <2>6 DEF addAllMinimal, addAllMaximal
<1> HIDE DEF F, P
<1>5. Merge(f, g) = [universe |-> f.universe, CMinF |-> F, CMaxP |-> P]
  BY <1>1 DEF Merge, F, P
<1>6. Merge(f, g) \in Frame
  BY <1>1, <1>2, <1>3, <1>5 DEF Frame
<1>7. /\ \A s \in F : s \subseteq f.universe /\ Faulty(getComb(s, t), M)
      /\ \A s \in P : s \subseteq f.universe /\ ~Faulty(getComb(s, t), M)
  BY <1>2, <1>3 DEF FrameOK
<1>8. Faulty(getComb(f.universe, t), M)
  BY DEF FrameOK
<1> QED BY <1>2, <1>4, <1>5, <1>6, <1>7, <1>8 DEF FrameOK

\* The frame of a recursive call on a faulty schema, and of a test case.
LEMMA FreshFrame ==
    ASSUME NEW M \in SUBSET Comb, Irredundant(M), NEW t \in Testcase,
           NEW m \in Schema, Faulty(getComb(m, t), M)
    PROVE  FrameOK([universe |-> m, CMinF |-> {m}, CMaxP |-> {{}}], t, M)
<1> DEFINE f == [universe |-> m, CMinF |-> {m}, CMaxP |-> {{}}]
<1>1. f \in Frame
  BY DEF Frame, Schema
<1>2. ~Faulty(getComb({}, t), M)
  BY EmptyIsHealthy
<1> QED BY <1>1, <1>2 DEF FrameOK

\* The activation that a known combination of the test case seeds.
LEMMA SeededFrame ==
    ASSUME NEW M \in SUBSET Comb, Irredundant(M), NEW t \in Testcase,
           ~check(t, M), NEW mf \in M, contains(t, mf)
    PROVE  FrameOK([universe |-> Params,
                    CMinF |-> addMinimal({Params}, schemaOf(mf)),
                    CMaxP |-> {{}}], t, M)
<1> DEFINE F == addMinimal({Params}, schemaOf(mf))
           f == [universe |-> Params, CMinF |-> F, CMaxP |-> {{}}]
<1>1. schemaOf(mf) \in Schema /\ Faulty(getComb(schemaOf(mf), t), M)
  <2>1. getComb(schemaOf(mf), t) = mf
    BY CombOfSchema
  <2> QED BY <2>1 DEF schemaOf, Schema, Faulty, contains
<1>2. F = {schemaOf(mf)}
  BY <1>1 DEF addMinimal, Schema
<1>3. Faulty(getComb(Params, t), M) /\ ~Faulty(getComb({}, t), M)
  BY WholeTestcase, EmptyIsHealthy
<1> HIDE DEF F
<1>4. f \in Frame
  BY <1>1, <1>2 DEF Frame, Schema
<1> QED BY <1>1, <1>2, <1>3, <1>4 DEF FrameOK, Schema, F

\* When an activation on the whole test case is finished, the combinations of
\* CMinF are the failure-causing combinations of the test case.
LEMMA FinishedFrame ==
    ASSUME NEW M \in SUBSET Comb, Irredundant(M), NEW t \in Testcase,
           NEW f, FrameOK(f, t, M), f.universe = Params, Finished(f)
    PROVE  {getComb(s, t) : s \in f.CMinF} = {mf \in M : contains(t, mf)}
<1> DEFINE AllFaulty == {s \in Schema : Faulty(getComb(s, t), M)}
<1>1. /\ f.CMinF \in SUBSET SUBSET Params /\ f.CMaxP \in SUBSET SUBSET Params
      /\ \A s \in f.CMinF : Faulty(getComb(s, t), M)
      /\ \A s \in f.CMaxP : ~Faulty(getComb(s, t), M)
      /\ \A r, s \in f.CMinF : r \subseteq s => r = s
      /\ f.CMinF # {}
  BY DEF FrameOK, Frame, Schema
<1>2. ASSUME NEW s \in AllFaulty PROVE \E m \in f.CMinF : m \subseteq s
  <2>1. CASE Cardinality(f.universe) = 1
    <3>1. PICK x : Params = {x}
      BY <2>1, ParamsFinite, FS_Singleton
    <3>2. s # {} /\ \A m \in f.CMinF : m # {}
      BY <1>1, EmptyIsHealthy
    <3>3. s = Params /\ \A m \in f.CMinF : m = Params
      BY <1>1, <3>1, <3>2 DEF Schema
    <3> QED BY <1>1, <3>3
  <2>2. CASE Chains(topSchemas(f), bottomSchemas(f)) = {}
    <3>1. s \notin PendingSchemas(Params, f.CMinF, f.CMaxP)
      BY <1>1, <2>2, ParamsFinite, PendingOnChain DEF topSchemas, bottomSchemas
    <3>2. \A h \in f.CMaxP : ~(s \subseteq h)
      BY <1>1, FaultyMonotone
    <3> QED BY <3>1, <3>2 DEF PendingSchemas, IsPending, Schema
  <2> QED BY <2>1, <2>2 DEF Finished
<1>3. f.CMinF \subseteq AllFaulty
  BY <1>1 DEF Schema
<1> HIDE DEF AllFaulty
<1>4. f.CMinF = Minimal(AllFaulty)
  <2>1. ASSUME NEW s \in f.CMinF PROVE s \in Minimal(AllFaulty)
    <3>1. ASSUME NEW r \in AllFaulty, r \subseteq s PROVE r = s
      <4>1. PICK m \in f.CMinF : m \subseteq r
        BY <1>2
      <4>2. m = s
        BY <1>1, <3>1, <4>1
      <4> QED BY <3>1, <4>1, <4>2
    <3> QED BY <1>3, <3>1 DEF Minimal
  <2>2. ASSUME NEW s \in Minimal(AllFaulty) PROVE s \in f.CMinF
    <3>1. PICK m \in f.CMinF : m \subseteq s
      BY <1>2 DEF Minimal
    <3>2. m = s
      BY <1>3, <3>1 DEF Minimal
    <3> QED BY <3>1, <3>2
  <2> QED BY <2>1, <2>2
<1> QED BY <1>4, MinimalFaultySchemas DEF AllFaulty, Schema

(***************************************************************************)
(* Chains.                                                                 *)
(***************************************************************************)

\* A chain has as many steps as its maximum has parameters more.
LEMMA LastIndexType ==
    ASSUME NEW c \in [max : Schema, min : Schema], c.min \subseteq c.max
    PROVE  /\ LastIndex(c) \in 0 .. N
           /\ IsFiniteSet(c.max \ c.min)
           /\ Cardinality(c.max \ c.min) = LastIndex(c)
<1>1. c.max \in SUBSET Params /\ c.min \in SUBSET c.max
  BY DEF Schema
<1> QED BY <1>1, SizeOfDifference DEF LastIndex

\* Each schema of the list lies between min and max, and the last is max.
LEMMA ChainAtEnds ==
    ASSUME NEW c \in [max : Schema, min : Schema], c.min \subseteq c.max
    PROVE  /\ \A k : c.min \subseteq ChainAt(c, k) /\ ChainAt(c, k) \subseteq c.max
           /\ ChainAt(c, LastIndex(c)) = c.max
<1> DEFINE D == c.max \ c.min
<1>1. \A k : c.min \subseteq ChainAt(c, k) /\ ChainAt(c, k) \subseteq c.max
  BY DEF ChainAt
<1>2. ASSUME NEW i \in D
      PROVE  Cardinality({j \in D : j > i}) < LastIndex(c)
  <2> DEFINE T == {j \in D : j > i}
  <2>1. IsFiniteSet(D) /\ Cardinality(D) = LastIndex(c) /\ LastIndex(c) \in Nat
    BY LastIndexType
  <2>2. i \in Int
    BY DEF Schema, Params
  <2>3. T \in SUBSET D /\ T # D
    BY <2>2
  <2> HIDE DEF T, D
  <2>4. Cardinality(T) <= Cardinality(D) /\ Cardinality(T) # Cardinality(D)
    BY <2>1, <2>3, FS_Subset
  <2>5. Cardinality(T) \in Nat
    BY <2>1, <2>3, FS_Subset, FS_CardinalityType
  <2>6. Cardinality(T) < LastIndex(c)
    BY <2>1, <2>4, <2>5
  <2> QED BY <2>6 DEF T
<1>3. ChainAt(c, LastIndex(c)) = c.max
  BY <1>2 DEF ChainAt
<1> QED BY <1>1, <1>3

-----------------------------------------------------------------------------
(***************************************************************************)
(* The stack of activations.                                               *)
(***************************************************************************)
LEMMA FrameLists ==
    <<>> \in Seq(Frame) /\ \A f \in Frame : <<f>> \in Seq(Frame)
OBVIOUS

\* A stack of one good activation on the whole test case.
LEMMA StackStarts ==
    ASSUME NEW t, NEW M, NEW f, FrameOK(f, t, M), f.universe = Params
    PROVE  GoodStack(<<f>>, t, M)
<1>1. Len(<<f>>) = 1 /\ <<f>>[1] = f
  OBVIOUS
<1>2. \A k \in 1 .. Len(<<f>>) : FrameOK(<<f>>[k], t, M)
  BY <1>1
<1>3. <<f>>[1].universe = Params
  BY <1>1
<1>4. 1 .. Len(<<f>>) - 1 = {}
  BY <1>1
<1> QED BY <1>2, <1>3, <1>4 DEF GoodStack

\* The running activation changes what it knows.
LEMMA StackReplaces ==
    ASSUME NEW t, NEW M, NEW fs \in Seq(Frame), fs # <<>>, GoodStack(fs, t, M),
           NEW g, FrameOK(g, t, M), g.universe = fs[Len(fs)].universe
    PROVE  LET new == [fs EXCEPT ![Len(fs)] = g]
           IN new \in Seq(Frame) /\ new # <<>> /\ GoodStack(new, t, M)
<1> DEFINE n == Len(fs)
           new == [fs EXCEPT ![n] = g]
<1>1. n \in Nat /\ n >= 1 /\ g \in Frame
  BY DEF FrameOK
<1>2. /\ new \in Seq(Frame) /\ Len(new) = n
      /\ \A k \in 1 .. n : new[k] = IF k = n THEN g ELSE fs[k]
  BY <1>1
<1> HIDE DEF new
<1>3. \A k \in 1 .. n : new[k].universe = fs[k].universe /\ FrameOK(new[k], t, M)
  BY <1>2 DEF GoodStack
<1>4. new # <<>> /\ GoodStack(new, t, M)
  BY <1>1, <1>2, <1>3 DEF GoodStack
<1> QED BY <1>2, <1>4 DEF new

\* An activation calls identify.
LEMMA StackPushes ==
    ASSUME NEW t, NEW M, NEW fs \in Seq(Frame), fs # <<>>, GoodStack(fs, t, M),
           NEW g, FrameOK(g, t, M), g.universe \subseteq fs[Len(fs)].universe
    PROVE  LET new == Append(fs, g)
           IN new \in Seq(Frame) /\ new # <<>> /\ GoodStack(new, t, M)
<1> DEFINE n == Len(fs)
           new == Append(fs, g)
<1>1. n \in Nat /\ n >= 1 /\ g \in Frame
  BY DEF FrameOK
<1>2. /\ new \in Seq(Frame) /\ Len(new) = n + 1
      /\ \A k \in 1 .. n : new[k] = fs[k]
      /\ new[n + 1] = g
  BY <1>1
<1> HIDE DEF new
<1>3. \A k \in 1 .. n + 1 : FrameOK(new[k], t, M)
  BY <1>1, <1>2 DEF GoodStack
<1>4. \A k \in 1 .. n : new[k + 1].universe \subseteq new[k].universe
  <2> SUFFICES ASSUME NEW k \in 1 .. n
               PROVE  new[k + 1].universe \subseteq new[k].universe
    OBVIOUS
  <2>1. CASE k = n
    BY <1>1, <1>2, <2>1
  <2>2. CASE k # n
    <3>1. k \in 1 .. n - 1 /\ k + 1 \in 1 .. n
      BY <1>1, <2>2
    <3>2. fs[k + 1].universe \subseteq fs[k].universe
      BY <3>1 DEF GoodStack
    <3> QED BY <1>2, <3>1, <3>2
  <2> QED BY <2>1, <2>2
<1>5. new # <<>> /\ new[1].universe = Params
  BY <1>1, <1>2 DEF GoodStack
<1>6. GoodStack(new, t, M)
  BY <1>1, <1>2, <1>3, <1>4, <1>5 DEF GoodStack
<1> QED BY <1>2, <1>5, <1>6 DEF new

\* The running activation returns and its caller goes on as g.
LEMMA StackPops ==
    ASSUME NEW t, NEW M, NEW fs \in Seq(Frame), Len(fs) > 1, GoodStack(fs, t, M),
           NEW g, FrameOK(g, t, M), g.universe = fs[Len(fs) - 1].universe
    PROVE  LET new == Append(SubSeq(fs, 1, Len(fs) - 2), g)
           IN new \in Seq(Frame) /\ new # <<>> /\ GoodStack(new, t, M)
<1> DEFINE n == Len(fs) - 1
           new == Append(SubSeq(fs, 1, Len(fs) - 2), g)
<1>1. n \in Nat /\ n >= 1 /\ g \in Frame /\ Len(fs) = n + 1
  BY DEF FrameOK
<1>2. /\ new \in Seq(Frame) /\ Len(new) = n
      /\ \A k \in 1 .. n : new[k] = IF k = n THEN g ELSE fs[k]
  <2>1. /\ SubSeq(fs, 1, n - 1) \in Seq(Frame) /\ Len(SubSeq(fs, 1, n - 1)) = n - 1
        /\ \A k \in 1 .. n - 1 : SubSeq(fs, 1, n - 1)[k] = fs[k]
    BY <1>1
  <2>2. new = Append(SubSeq(fs, 1, n - 1), g)
    BY <1>1
  <2> DEFINE below == SubSeq(fs, 1, n - 1)
  <2> HIDE DEF below, n, new
  <2>3. /\ Append(below, g) \in Seq(Frame) /\ Len(Append(below, g)) = Len(below) + 1
        /\ \A k \in 1 .. Len(below) : Append(below, g)[k] = below[k]
        /\ Append(below, g)[Len(below) + 1] = g
    BY <1>1, <2>1 DEF below
  <2> QED BY <1>1, <2>1, <2>2, <2>3 DEF below
<1>a. g.universe = fs[n].universe
  OBVIOUS
<1> HIDE DEF new, n
<1>3. \A k \in 1 .. n : new[k].universe = fs[k].universe /\ FrameOK(new[k], t, M)
  BY <1>a, <1>1, <1>2 DEF GoodStack
<1>4. new # <<>> /\ new[1].universe = Params
  BY <1>1, <1>2, <1>3 DEF GoodStack
<1>5. \A k \in 1 .. n - 1 : new[k + 1].universe \subseteq new[k].universe
  BY <1>1, <1>3 DEF GoodStack
<1>6. GoodStack(new, t, M)
  BY <1>2, <1>3, <1>4, <1>5 DEF GoodStack
<1> QED BY <1>2, <1>4, <1>6 DEF new

-----------------------------------------------------------------------------
(***************************************************************************)
(* Facts about the state that the steps share.                             *)
(***************************************************************************)
LEMMA InputFacts ==
    ASSUME InputsOK
    PROVE  /\ MFS \in SUBSET Comb /\ Irredundant(MFS)
           /\ Tfail \in Seq(Testcase) /\ Len(Tfail) \in Nat
           /\ \A k \in 1 .. Len(Tfail) : Tfail[k] \in Testcase
<1>1. Tfail \in Seq(Testcase)
  BY TestListsAssumption DEF InputsOK
<1> QED BY <1>1, MFSSetsAssumption DEF InputsOK

\* The running activation.
LEMMA TopFacts ==
    ASSUME Inv, pc \in {"identify", "search"}
    PROVE  /\ tfail \in Testcase /\ ~check(tfail, MFS)
           /\ depth \in Nat /\ depth >= 1 /\ top = frames[depth]
           /\ frames \in Seq(Frame)
           /\ FrameOK(top, tfail, MFS)
           /\ HasSafeValues(MFS)
<1>1. next \in 1 .. Len(Tfail)
  BY InputFacts DEF Inv, TypeOK, ControlOK
<1>2. frames \in Seq(Frame) /\ frames # <<>>
  BY DEF Inv, TypeOK, ControlOK
<1>3. depth \in Nat /\ depth >= 1
  BY <1>2 DEF depth
<1> QED BY <1>1, <1>2, <1>3, InputFacts
        DEF Inv, InputsOK, ControlOK, StackOK, GoodStack, tfail, top, depth

\* What running one padded test case tells and records.
LEMMA CheckFacts ==
    ASSUME Inv, pc \in {"identify", "search"}, UNCHANGED inputs,
           NEW s, check_with_safevalues(getComb(s, tfail), tfail)
    PROVE  /\ Healthy(getComb(s, tfail), tfail) <=> ~Faulty(getComb(s, tfail), MFS)
           /\ healthyCombs' \subseteq Comb /\ faultyCombs' \subseteq Comb
           /\ executedTestcase' \subseteq Testcase
           /\ RecordsOK'
<1> DEFINE comb == getComb(s, tfail)
<1>1. tfail \in Testcase /\ HasSafeValues(MFS) /\ MFS \in SUBSET Comb
  BY TopFacts, InputFacts DEF Inv
<1>2. Healthy(comb, tfail) <=> ~Faulty(comb, MFS)
  BY <1>1, SafePadding DEF Healthy, safeValues
<1>3. comb \in Comb
  BY <1>1, getCombType
<1>4. paddingWithSafeValues(comb, safeValues, tfail) \in Testcase
  BY <1>1, PaddingType DEF safeValues
<1>5. MFS' = MFS
  BY DEF inputs
<1> HIDE DEF comb
<1>6. /\ healthyCombs \subseteq Comb /\ faultyCombs \subseteq Comb
      /\ executedTestcase \subseteq Testcase /\ RecordsOK
  BY DEF Inv, TypeOK, ResolverTypeOK
<1>7. check_with_safevalues(comb, tfail)
  BY DEF comb
<1>8. /\ healthyCombs' \subseteq Comb /\ faultyCombs' \subseteq Comb
      /\ executedTestcase' \subseteq Testcase
  BY <1>3, <1>4, <1>6, <1>7 DEF check_with_safevalues
<1>9. RecordsOK'
  BY <1>2, <1>5, <1>6, <1>7 DEF check_with_safevalues, RecordsOK
<1> QED BY <1>2, <1>8, <1>9 DEF comb

-----------------------------------------------------------------------------
(***************************************************************************)
(* Inv holds initially and every action preserves it.                      *)
(***************************************************************************)
LEMMA InitInv == Init => Inv
<1> SUFFICES ASSUME Init PROVE Inv
  OBVIOUS
<1> USE DEF Init, ResolverInit, Constructed, SearchInit
<1>1. InputsOK
  BY DEF InputsOK
<1>2. TypeOK
  <2>1. MFS \subseteq Comb /\ Tfail \in Seq(Testcase) /\ Len(Tfail) \in Nat
    BY <1>1, InputFacts
  <2>2. SearchTypeOK
    BY NAssumption DEF SearchTypeOK, NoChain, Schema
  <2>3. ResolverTypeOK
    BY <2>1 DEF ResolverTypeOK
  <2>4. pc \in {"idle", "tfail", "identify", "search", "thrown"}
    OBVIOUS
  <2>5. next \in 1 .. Len(Tfail) + 1
    BY <2>1
  <2>6. frames \in Seq(Frame)
    BY FrameLists
  <2> QED BY <2>2, <2>3, <2>4, <2>5, <2>6 DEF TypeOK
<1>3. ControlOK /\ StackOK /\ SearchOK
  BY DEF ControlOK, StackOK, GoodStack, SearchOK
<1>4. RecordsOK /\ ReportOK
  BY DEF RecordsOK, ReportOK
<1> QED BY <1>1, <1>2, <1>3, <1>4 DEF Inv

\* InputsOK depends on the inputs alone.
LEMMA InputsStay ==
    ASSUME InputsOK, UNCHANGED inputs
    PROVE  InputsOK'
BY DEF InputsOK, inputs

\* conduct sets out, or throws for null safe values.
LEMMA ConductStep == ASSUME Inv, Conduct PROVE Inv'
<1> USE DEF Conduct, inputs, records, searchVars
<1>1. InputsOK'
  BY InputsStay DEF Inv
<1>2. TypeOK'
  <2>1. Len(Tfail) \in Nat
    BY InputFacts DEF Inv
  <2> QED BY <2>1 DEF Inv, TypeOK, ResolverTypeOK, SearchTypeOK
<1>3. frames' = <<>>
  BY DEF Inv, ControlOK
<1>4. ControlOK' /\ StackOK' /\ SearchOK'
  BY <1>3 DEF ControlOK, StackOK, GoodStack, SearchOK, SafeValuesMissing
<1>5. RecordsOK'
  BY DEF Inv, RecordsOK
<1>6. ReportOK'
  BY DEF Inv, ReportOK
<1> QED BY <1>1, <1>2, <1>4, <1>5, <1>6 DEF Inv

\* reset.
LEMMA ResetStep == ASSUME Inv, Reset PROVE Inv'
<1> USE DEF Reset, ResolverReset, inputs, searchVars
<1>1. InputsOK'
  BY InputsStay DEF Inv
<1>2. TypeOK'
  <2>1. ResolverTypeOK' /\ SearchTypeOK'
    BY DEF Inv, TypeOK, ResolverTypeOK, SearchTypeOK
  <2>2. frames' \in Seq(Frame)
    BY FrameLists
  <2> QED BY <2>1, <2>2 DEF Inv, TypeOK
<1>3. ControlOK' /\ StackOK' /\ SearchOK'
  BY DEF ControlOK, StackOK, GoodStack, SearchOK
<1>4. RecordsOK' /\ ReportOK'
  BY DEF Inv, RecordsOK, ReportOK
<1> QED BY <1>1, <1>2, <1>3, <1>4 DEF Inv

\* identify is called on the next failing test case.
LEMMA BeginTestcaseStep == ASSUME Inv, BeginTestcase PROVE Inv'
<1> USE DEF BeginTestcase, resolverVars, inputs, records, searchVars
<1>1. InputsOK'
  BY InputsStay DEF Inv
<1>2. next \in 1 .. Len(Tfail) /\ tfail \in Testcase /\ ~check(tfail, MFS)
  BY InputFacts DEF Inv, TypeOK, InputsOK, tfail
<1>3. MFS \in SUBSET Comb /\ Irredundant(MFS)
  BY InputFacts DEF Inv
<1>4. PICK CMinF \in InitialCMinF(tfail) :
         frames' = << [universe |-> Params, CMinF |-> CMinF, CMaxP |-> {{}}] >>
  OBVIOUS
<1> DEFINE f == [universe |-> Params, CMinF |-> CMinF, CMaxP |-> {{}}]
<1>5. FrameOK(f, tfail, MFS)
  <2>1. CASE KnownIn(tfail) = {}
    <3>1. CMinF = {Params} /\ Params \in Schema
      BY <2>1 DEF InitialCMinF, Schema
    <3>2. Faulty(getComb(Params, tfail), MFS)
      BY <1>2, <1>3, WholeTestcase
    <3> QED BY <1>2, <1>3, <3>1, <3>2, FreshFrame
  <2>2. CASE KnownIn(tfail) # {}
    <3>1. PICK mf \in KnownIn(tfail) : CMinF = addMinimal({Params}, schemaOf(mf))
      BY <2>2 DEF InitialCMinF
    <3>2. mf \in MFS /\ contains(tfail, mf)
      BY <3>1 DEF KnownIn, Inv, ReportOK, MFSIn
    <3> QED BY <1>2, <1>3, <3>1, <3>2, SeededFrame
  <2> QED BY <2>1, <2>2
<1>6. f \in Frame /\ f.universe = Params
  BY <1>5 DEF FrameOK
<1> HIDE DEF f
<1>7. frames' = <<f>>
  BY <1>4 DEF f
<1>8. TypeOK'
  <2>1. ResolverTypeOK' /\ SearchTypeOK'
    BY DEF Inv, TypeOK, ResolverTypeOK, SearchTypeOK
  <2>2. frames' \in Seq(Frame)
    BY <1>6, <1>7, FrameLists
  <2> QED BY <2>1, <2>2 DEF Inv, TypeOK
<1>9. StackOK'
  <2>1. Tfail'[next'] = tfail /\ MFS' = MFS
    BY DEF tfail
  <2>2. GoodStack(<<f>>, tfail, MFS)
    BY <1>5, <1>6, StackStarts
  <2> QED BY <1>7, <2>1, <2>2 DEF StackOK
<1>10. ControlOK' /\ SearchOK'
  BY <1>2, <1>7 DEF Inv, ControlOK, SearchOK
<1>11. RecordsOK' /\ ReportOK'
  BY DEF Inv, RecordsOK, ReportOK, MFSIn
<1> QED BY <1>1, <1>8, <1>9, <1>10, <1>11 DEF Inv

\* The loop over the failing test cases ends.
LEMMA FinishConductStep == ASSUME Inv, FinishConduct PROVE Inv'
<1> USE DEF FinishConduct, resolverVars, inputs, records, searchVars
<1>1. InputsOK'
  BY InputsStay DEF Inv
<1>2. TypeOK'
  BY DEF Inv, TypeOK, ResolverTypeOK, SearchTypeOK
<1>3. ControlOK' /\ StackOK' /\ SearchOK'
  BY DEF Inv, ControlOK, StackOK, SearchOK
<1>4. RecordsOK'
  BY DEF Inv, RecordsOK
<1>5. ReportOK'
  <2>1. next - 1 = Len(Tfail)
    BY InputFacts DEF Inv, TypeOK
  <2> QED BY <2>1 DEF Inv, ReportOK, MFSInTfail, MFSIn
<1> QED BY <1>1, <1>2, <1>3, <1>4, <1>5 DEF Inv

\* A round of the loop of identify.
LEMMA IterateStep == ASSUME Inv, Iterate PROVE Inv'
<1> USE DEF Iterate
<1>1. /\ tfail \in Testcase /\ frames \in Seq(Frame) /\ frames # <<>>
      /\ depth = Len(frames) /\ top = frames[depth] /\ FrameOK(top, tfail, MFS)
      /\ GoodStack(frames, tfail, MFS)
  BY TopFacts DEF Inv, StackOK, ControlOK, tfail, depth
<1>2. MFS \in SUBSET Comb /\ Irredundant(MFS) /\ Len(Tfail) \in Nat
  BY InputFacts DEF Inv
<1>3. PICK c \in LongestChains(topSchemas(top), bottomSchemas(top)) : TestMaximum(c)
  BY <1>1, <1>2, FrameDoesNotThrow
<1>4. /\ c \in [max : Schema, min : Schema]
      /\ c.min \subseteq c.max /\ c.max \subseteq top.universe
  BY <1>1, ChainWithinFrame
<1>5. UNCHANGED inputs /\ UNCHANGED conducted /\ UNCHANGED MFC_identified
        /\ UNCHANGED next
  BY <1>3 DEF TestMaximum
<1>6. MFS' = MFS /\ Tfail' = Tfail /\ tfail' = tfail
  BY <1>5 DEF inputs, tfail
<1>7. check_with_safevalues(getComb(c.max, tfail), tfail)
  BY <1>3 DEF TestMaximum
<1>8. /\ Healthy(getComb(c.max, tfail), tfail) <=> ~Faulty(getComb(c.max, tfail), MFS)
      /\ healthyCombs' \subseteq Comb /\ faultyCombs' \subseteq Comb
      /\ executedTestcase' \subseteq Testcase
      /\ RecordsOK'
  BY <1>5, <1>7, CheckFacts
<1>9. InputsOK' /\ ResolverTypeOK'
  BY <1>5, <1>6, <1>8, InputsStay DEF Inv, TypeOK, ResolverTypeOK
<1>10. CASE Healthy(getComb(c.max, tfail), tfail)
  <2>1. frames' = AddHealthy(c.max) /\ pc' = pc /\ UNCHANGED searchVars
    BY <1>3, <1>10 DEF TestMaximum
  <2> DEFINE g == [top EXCEPT !.CMaxP = addMaximal(@, c.max)]
  <2>2. FrameOK(g, tfail, MFS) /\ g.universe = top.universe
    BY <1>1, <1>4, <1>8, <1>10, FrameAddsHealthy
  <2>3. frames' = [frames EXCEPT ![Len(frames)] = g]
    BY <1>1, <2>1 DEF AddHealthy
  <2> HIDE DEF g
  <2>4. frames' \in Seq(Frame) /\ frames' # <<>> /\ GoodStack(frames', tfail, MFS)
    BY <1>1, <2>2, <2>3, StackReplaces
  <2>5. TypeOK'
    BY <1>5, <1>6, <1>9, <2>1, <2>4 DEF Inv, TypeOK, SearchTypeOK, searchVars
  <2>6. ControlOK' /\ StackOK' /\ SearchOK'
    BY <1>5, <1>6, <2>1, <2>4 DEF Inv, ControlOK, StackOK, SearchOK, tfail
  <2>7. ReportOK'
    BY <1>5, <1>6, <2>1 DEF Inv, ReportOK, MFSIn
  <2> QED BY <1>8, <1>9, <2>5, <2>6, <2>7 DEF Inv
<1>11. CASE ~Healthy(getComb(c.max, tfail), tfail)
  <2>1. pc' = "search" /\ OpenSearch(c) /\ frames' = frames
    BY <1>3, <1>11 DEF TestMaximum
  <2>2. LastIndex(c) \in 0 .. N
    BY <1>4, LastIndexType
  <2>3. SearchTypeOK'
    BY <1>4, <2>1, <2>2, NAssumption DEF OpenSearch, SearchTypeOK
  <2>4. TypeOK'
    BY <1>1, <1>5, <1>6, <1>9, <2>1, <2>3 DEF Inv, TypeOK
  <2>5. top' = top
    BY <2>1 DEF top, depth
  <2>6. SearchOK'
    BY <1>4, <1>6, <1>8, <1>11, <2>1, <2>2, <2>5 DEF SearchOK, OpenSearch
  <2>7. ControlOK' /\ StackOK'
    BY <1>5, <1>6, <2>1 DEF Inv, ControlOK, StackOK
  <2>8. ReportOK'
    BY <1>5, <1>6, <2>1 DEF Inv, ReportOK, MFSIn
  <2> QED BY <1>8, <1>9, <2>4, <2>6, <2>7, <2>8 DEF Inv
<1> QED BY <1>10, <1>11

\* A round of the bisection.
LEMMA SearchStepStep == ASSUME Inv, SearchStep PROVE Inv'
<1> USE DEF SearchStep
<1> DEFINE comb == getComb(ChainAt(chain, mid), tfail)
<1>1. /\ UNCHANGED inputs /\ UNCHANGED conducted /\ UNCHANGED MFC_identified
      /\ UNCHANGED next /\ UNCHANGED frames /\ pc = "search" /\ pc' = "search"
  OBVIOUS
<1>2. /\ left <= right
      /\ check_with_safevalues(comb, tfail)
      /\ left'   = IF Healthy(comb, tfail) THEN mid + 1 ELSE left
      /\ right'  = IF Healthy(comb, tfail) THEN right ELSE mid - 1
      /\ result' = IF Healthy(comb, tfail) THEN result ELSE mid
      /\ chain' = chain
  BY DEF StepSearch
<1>3. MFS' = MFS /\ Tfail' = Tfail /\ tfail' = tfail /\ top' = top
  BY <1>1 DEF inputs, tfail, top, depth
<1>4. /\ Healthy(comb, tfail) <=> ~Faulty(comb, MFS)
      /\ healthyCombs' \subseteq Comb /\ faultyCombs' \subseteq Comb
      /\ executedTestcase' \subseteq Testcase
      /\ RecordsOK'
  BY <1>1, <1>2, CheckFacts
<1>5. InputsOK' /\ ResolverTypeOK'
  BY <1>1, <1>3, <1>4, InputsStay DEF Inv, TypeOK, ResolverTypeOK
<1>6. /\ chain \in [max : Schema, min : Schema] /\ chain.min \subseteq chain.max
      /\ chain.max \subseteq top.universe /\ Faulty(getComb(chain.max, tfail), MFS)
      /\ left \in 0 .. N + 1 /\ right \in -1 .. N /\ result \in -1 .. N
      /\ left <= right + 1 /\ right <= LastIndex(chain)
      /\ left > 0 => ~Faulty(getComb(ChainAt(chain, left - 1), tfail), MFS)
      /\ IF result = -1 THEN right = LastIndex(chain)
         ELSE Faulty(getComb(ChainAt(chain, result), tfail), MFS)
  BY <1>1 DEF Inv, TypeOK, SearchTypeOK, SearchOK
<1>7. LastIndex(chain) \in 0 .. N /\ N \in Nat
  BY <1>6, LastIndexType, NAssumption
<1>8. mid \in Int /\ left <= mid /\ mid <= right
  BY <1>2, <1>6, <1>7 DEF mid
<1>9. SearchTypeOK'
  BY <1>2, <1>6, <1>7, <1>8 DEF SearchTypeOK
<1>10. TypeOK'
  BY <1>1, <1>3, <1>5, <1>9 DEF Inv, TypeOK
<1>11. SearchOK'
  <2>1. CASE Healthy(comb, tfail)
    <3>1. left' = mid + 1 /\ right' = right /\ result' = result /\ chain' = chain
      BY <1>2, <2>1
    <3>2. left' - 1 = mid /\ left' <= right' + 1
      BY <1>6, <1>8, <3>1
    <3>3. ~Faulty(getComb(ChainAt(chain, left' - 1), tfail), MFS)
      BY <1>4, <2>1, <3>2
    <3> QED BY <1>3, <1>6, <3>1, <3>2, <3>3 DEF SearchOK
  <2>2. CASE ~Healthy(comb, tfail)
    <3>1. left' = left /\ right' = mid - 1 /\ result' = mid /\ chain' = chain
      BY <1>2, <2>2
    <3>2. left' <= right' + 1 /\ right' <= LastIndex(chain) /\ result' # -1
      BY <1>6, <1>7, <1>8, <3>1
    <3>3. Faulty(getComb(ChainAt(chain, result'), tfail), MFS)
      BY <1>4, <2>2, <3>1
    <3> QED BY <1>3, <1>6, <3>1, <3>2, <3>3 DEF SearchOK
  <2> QED BY <2>1, <2>2
<1>12. ControlOK' /\ StackOK'
  BY <1>1, <1>3 DEF Inv, ControlOK, StackOK
<1>13. ReportOK'
  BY <1>1, <1>3 DEF Inv, ReportOK, MFSIn
<1> QED BY <1>4, <1>5, <1>10, <1>11, <1>12, <1>13 DEF Inv

\* The bisection never ends without a faulty schema.
LEMMA SearchEndFaulty ==
    ASSUME Inv, SearchEnd
    PROVE  result # -1
<1> SUFFICES ASSUME result = -1 PROVE FALSE
  OBVIOUS
<1>1. /\ chain \in [max : Schema, min : Schema] /\ chain.min \subseteq chain.max
      /\ Faulty(getComb(chain.max, tfail), MFS)
      /\ left \in 0 .. N + 1 /\ left <= right + 1 /\ right = LastIndex(chain)
      /\ left > 0 => ~Faulty(getComb(ChainAt(chain, left - 1), tfail), MFS)
  BY DEF Inv, TypeOK, SearchTypeOK, SearchOK, SearchEnd
<1>2. LastIndex(chain) \in 0 .. N
  BY <1>1, LastIndexType
<1>3. left > 0 /\ left - 1 = LastIndex(chain)
  BY <1>1, <1>2 DEF SearchEnd, CloseSearch
<1>4. ~Faulty(getComb(chain.max, tfail), MFS)
  BY <1>1, <1>3, ChainAtEnds
<1> QED BY <1>1, <1>4

\* The bisection ends on a faulty schema and identify is called on it: result
\* = -1 would leave the maximum of the chain tested healthy.
LEMMA SearchEndStep == ASSUME Inv, SearchEnd PROVE Inv'
<1> USE DEF SearchEnd, resolverVars, inputs, records
<1>1. /\ tfail \in Testcase /\ frames \in Seq(Frame) /\ frames # <<>>
      /\ top = frames[Len(frames)] /\ GoodStack(frames, tfail, MFS)
  BY TopFacts DEF Inv, StackOK, ControlOK, tfail, depth
<1>2. MFS \in SUBSET Comb /\ Irredundant(MFS)
  BY InputFacts DEF Inv
<1>3. MFS' = MFS /\ Tfail' = Tfail /\ tfail' = tfail /\ next' = next
  BY DEF tfail
<1>4. /\ chain \in [max : Schema, min : Schema] /\ chain.min \subseteq chain.max
      /\ chain.max \subseteq top.universe /\ Faulty(getComb(chain.max, tfail), MFS)
      /\ left \in 0 .. N + 1 /\ right \in -1 .. N /\ left <= right + 1
      /\ left > 0 => ~Faulty(getComb(ChainAt(chain, left - 1), tfail), MFS)
      /\ IF result = -1 THEN right = LastIndex(chain)
         ELSE Faulty(getComb(ChainAt(chain, result), tfail), MFS)
  BY DEF Inv, TypeOK, SearchTypeOK, SearchOK
<1>5. left > right /\ SearchTypeOK'
  BY NAssumption DEF CloseSearch, SearchTypeOK, NoChain, Schema
<1>6. result # -1
  BY SearchEndFaulty
<1> DEFINE m == ChainAt(chain, result)
           g == [universe |-> m, CMinF |-> {m}, CMaxP |-> {{}}]
<1>7. frames' = Append(frames, g)
  BY <1>6
<1>8. m \in Schema /\ m \subseteq top.universe
  BY <1>4, ChainAtEnds DEF Schema
<1>9. FrameOK(g, tfail, MFS)
  <2>1. Faulty(getComb(m, tfail), MFS)
    BY <1>4, <1>6
  <2> HIDE DEF m
  <2> QED BY <1>1, <1>2, <1>8, <2>1, FreshFrame
<1>10. g.universe \subseteq top.universe
  BY <1>8
<1> HIDE DEF g, m
<1>11. frames' \in Seq(Frame) /\ frames' # <<>> /\ GoodStack(frames', tfail, MFS)
  BY <1>1, <1>7, <1>9, <1>10, StackPushes
<1>12. TypeOK'
  BY <1>3, <1>5, <1>11 DEF Inv, TypeOK, ResolverTypeOK
<1>13. InputsOK' /\ RecordsOK'
  BY InputsStay DEF Inv, RecordsOK
<1>14. ControlOK' /\ StackOK' /\ SearchOK'
  BY <1>3, <1>11 DEF Inv, ControlOK, StackOK, SearchOK, tfail
<1>15. ReportOK'
  BY <1>3 DEF Inv, ReportOK, MFSIn
<1> QED BY <1>12, <1>13, <1>14, <1>15 DEF Inv

\* A finished callee is merged into its caller.
LEMMA ReturnToCallerStep == ASSUME Inv, ReturnToCaller PROVE Inv'
<1> USE DEF ReturnToCaller, resolverVars, inputs, records, searchVars
<1>1. /\ frames \in Seq(Frame) /\ GoodStack(frames, tfail, MFS)
      /\ depth = Len(frames) /\ top = frames[depth]
  BY TopFacts DEF Inv, StackOK, tfail, depth
<1>2. MFS' = MFS /\ Tfail' = Tfail /\ tfail' = tfail /\ next' = next
  BY DEF tfail
<1> DEFINE n == Len(frames)
           caller == frames[n - 1]
           g == Merge(caller, top)
<1>3. n \in Nat /\ n > 1 /\ n - 1 \in 1 .. Len(frames) /\ n - 1 \in 1 .. n - 1
  BY <1>1
<1>4. FrameOK(caller, tfail, MFS) /\ FrameOK(top, tfail, MFS)
  BY <1>1, <1>3 DEF GoodStack
<1>5. top.universe \subseteq caller.universe
  <2>1. frames[(n - 1) + 1].universe \subseteq frames[n - 1].universe
    BY <1>1, <1>3 DEF GoodStack
  <2> QED BY <1>1, <1>3, <2>1
<1>6. FrameOK(g, tfail, MFS) /\ g.universe = caller.universe
  BY <1>4, <1>5, FrameMerges
<1>7. frames' = Append(SubSeq(frames, 1, Len(frames) - 2), g)
  BY <1>1
<1> HIDE DEF g
<1>8. frames' \in Seq(Frame) /\ frames' # <<>> /\ GoodStack(frames', tfail, MFS)
  BY <1>1, <1>3, <1>6, <1>7, StackPops
<1>9. TypeOK'
  BY <1>2, <1>8 DEF Inv, TypeOK, ResolverTypeOK, SearchTypeOK
<1>10. InputsOK' /\ RecordsOK'
  BY InputsStay DEF Inv, RecordsOK
<1>11. ControlOK' /\ StackOK' /\ SearchOK'
  BY <1>2, <1>8 DEF Inv, ControlOK, StackOK, SearchOK, tfail
<1>12. ReportOK'
  BY <1>2 DEF Inv, ReportOK, MFSIn
<1> QED BY <1>9, <1>10, <1>11, <1>12 DEF Inv

\* The outermost activation ends: the test case is settled exactly.
LEMMA EndTestcaseStep == ASSUME Inv, EndTestcase PROVE Inv'
<1> USE DEF EndTestcase, inputs, records, searchVars
<1>1. /\ tfail \in Testcase /\ FrameOK(top, tfail, MFS)
      /\ frames # <<>> /\ depth = 1 /\ top = frames[1]
      /\ GoodStack(frames, tfail, MFS)
  BY TopFacts DEF Inv, StackOK, ControlOK, tfail, top
<1>2. /\ MFS \in SUBSET Comb /\ Irredundant(MFS) /\ Len(Tfail) \in Nat
      /\ next \in 1 .. Len(Tfail) + 1 /\ next <= Len(Tfail)
  BY InputFacts DEF Inv, TypeOK, ControlOK
<1>3. MFS' = MFS /\ Tfail' = Tfail /\ next' = next + 1 /\ frames' = <<>> /\ pc' = "tfail"
  OBVIOUS
<1>4. top.universe = Params
  BY <1>1 DEF GoodStack
<1>5. {getComb(s, tfail) : s \in top.CMinF} = MFSIn(tfail)
  BY <1>1, <1>2, <1>4, FinishedFrame DEF MFSIn
<1>6. MFC_identified' = MFC_identified \cup MFSIn(Tfail[next])
  BY <1>5 DEF tfail
<1>7. MFC_identified = UNION {MFSIn(Tfail[k]) : k \in 1 .. next - 1}
  BY DEF Inv, ReportOK
<1>8. ReportOK'
  <2>1. 1 .. next' - 1 = (1 .. next - 1) \cup {next}
    BY <1>2, <1>3
  <2>2. UNION {MFSIn(Tfail[k]) : k \in 1 .. next' - 1}
          = (UNION {MFSIn(Tfail[k]) : k \in 1 .. next - 1}) \cup MFSIn(Tfail[next])
    BY <2>1
  <2>3. MFC_identified' = UNION {MFSIn(Tfail[k]) : k \in 1 .. next' - 1}
    BY <1>6, <1>7, <2>2
  <2>4. conducted
    BY DEF Inv, ControlOK
  <2> QED BY <1>3, <2>3, <2>4 DEF ReportOK, MFSIn
<1>9. TypeOK'
  <2>1. MFC_identified' \subseteq Comb
    BY <1>2, <1>6 DEF Inv, TypeOK, ResolverTypeOK, MFSIn
  <2>2. ResolverTypeOK' /\ SearchTypeOK'
    BY <2>1 DEF Inv, TypeOK, ResolverTypeOK, SearchTypeOK
  <2>3. frames' \in Seq(Frame) /\ next' \in 1 .. Len(Tfail') + 1
    BY <1>2, <1>3, FrameLists
  <2> QED BY <1>3, <2>2, <2>3 DEF TypeOK
<1>10. InputsOK' /\ RecordsOK'
  BY InputsStay DEF Inv, RecordsOK
<1>11. ControlOK' /\ StackOK' /\ SearchOK'
  BY <1>3 DEF Inv, ControlOK, StackOK, GoodStack, SearchOK
<1> QED BY <1>8, <1>9, <1>10, <1>11 DEF Inv

\* A step that changes nothing.
LEMMA StutterStep == ASSUME Inv, UNCHANGED vars PROVE Inv'
<1> USE DEF vars, resolverVars, inputs, records, searchVars
<1>1. TypeOK' /\ InputsOK' /\ ControlOK'
  BY DEF Inv, TypeOK, ResolverTypeOK, SearchTypeOK, InputsOK, ControlOK
<1>2. StackOK' /\ SearchOK'
  BY DEF Inv, StackOK, SearchOK, top, depth, tfail
<1>3. RecordsOK' /\ ReportOK'
  BY DEF Inv, RecordsOK, ReportOK, MFSIn, MFSInTfail
<1> QED BY <1>1, <1>2, <1>3 DEF Inv

-----------------------------------------------------------------------------
(***************************************************************************)
(* The theorems.                                                           *)
(***************************************************************************)

\* Inv holds throughout every run of NoPendFaultResolver.conduct and reset: the
\* activations of identify, the bisection and the report are consistent.
THEOREM InvHolds == Spec => []Inv
<1>1. Init => Inv
  BY InitInv
<1>2. Inv /\ [Next]_vars => Inv'
  <2> SUFFICES ASSUME Inv, [Next]_vars PROVE Inv'
    OBVIOUS
  <2>1. CASE Conduct
    BY <2>1, ConductStep
  <2>2. CASE Reset
    BY <2>2, ResetStep
  <2>3. CASE BeginTestcase
    BY <2>3, BeginTestcaseStep
  <2>4. CASE FinishConduct
    BY <2>4, FinishConductStep
  <2>5. CASE Iterate
    BY <2>5, IterateStep
  <2>6. CASE ReturnToCaller
    BY <2>6, ReturnToCallerStep
  <2>7. CASE EndTestcase
    BY <2>7, EndTestcaseStep
  <2>8. CASE SearchStep
    BY <2>8, SearchStepStep
  <2>9. CASE SearchEnd
    BY <2>9, SearchEndStep
  <2>10. CASE UNCHANGED vars
    BY <2>10, StutterStep
  <2> QED
    BY <2>1, <2>2, <2>3, <2>4, <2>5, <2>6, <2>7, <2>8, <2>9, <2>10 DEF Next, Work
<1> QED BY <1>1, <1>2, PTL DEF Spec

\* The variables of the resolver, of the stack and of the bisection keep their
\* types; in particular every padded test case fixes every parameter.
THEOREM TypeCorrect == Spec => []TypeOK
<1>1. Inv => TypeOK
  BY DEF Inv
<1> QED BY <1>1, InvHolds, PTL

\* conduct reports exactly the failure-causing combinations of Tfail.
THEOREM ReportIsExact == Spec => []ExactIdentification
<1>1. Inv => ExactIdentification
  BY DEF Inv, ReportOK, ExactIdentification
<1> QED BY <1>1, InvHolds, PTL

\* What the activations and the records call faulty or healthy is.
THEOREM KnowledgeIsSound == Spec => []KnowledgeSound
<1>1. Inv => KnowledgeSound
  BY DEF Inv, StackOK, GoodStack, FrameOK, RecordsOK, KnowledgeSound, IsFaulty,
         tfail, depth
<1> QED BY <1>1, InvHolds, PTL

\* conduct never throws from getMHS, complement or getLongestChain.
THEOREM ThrowsOnlyForNull == Spec => []ThrowsOnlyWithoutSafeValues
<1>1. Inv => ThrowsOnlyWithoutSafeValues
  BY DEF Inv, ControlOK, ThrowsOnlyWithoutSafeValues, SafeValuesMissing
<1> QED BY <1>1, InvHolds, PTL

-----------------------------------------------------------------------------
(***************************************************************************)
(* What is pending.                                                        *)
(***************************************************************************)

\* What an activation and its frame know, as sets of sets.
LEMMA FrameSets ==
    ASSUME NEW t, NEW M, NEW f, FrameOK(f, t, M)
    PROVE  /\ f.universe \in SUBSET Params
           /\ f.CMinF \in SUBSET SUBSET f.universe
           /\ f.CMaxP \in SUBSET SUBSET f.universe
           /\ f = [universe |-> f.universe, CMinF |-> f.CMinF, CMaxP |-> f.CMaxP]
BY DEF FrameOK, Frame, Schema

\* The schemas of a chain that an iteration picks are pending.
LEMMA PickedChainIsPending ==
    ASSUME NEW t, NEW M, NEW f, FrameOK(f, t, M),
           NEW c \in LongestChains(topSchemas(f), bottomSchemas(f)),
           NEW s, c.min \subseteq s, s \subseteq c.max
    PROVE  s \in PendingSchemas(f.universe, f.CMinF, f.CMaxP)
<1>1. c \in Chains(topSchemas(f), bottomSchemas(f))
  BY DEF LongestChains
<1>2. c \in Chains(complement(getMHS(f.CMinF), f.universe),
                   getMHS(complement(f.CMaxP, f.universe)))
  BY <1>1 DEF topSchemas, bottomSchemas
<1> QED BY <1>2, FrameSets, ChainIsPending

\* A pending schema that turns out healthy is settled, and nothing becomes pending.
LEMMA HealthySettles ==
    ASSUME NEW U, NEW F, NEW P, NEW s \in PendingSchemas(U, F, P)
    PROVE  /\ PendingSchemas(U, F, addMaximal(P, s)) \subseteq PendingSchemas(U, F, P)
           /\ s \notin PendingSchemas(U, F, addMaximal(P, s))
<1> DEFINE Q == addMaximal(P, s)
<1>1. \E q \in Q : s \subseteq q
  BY DEF addMaximal
<1>2. \A p \in P : \E q \in Q : p \subseteq q
  BY DEF addMaximal
<1> HIDE DEF Q
<1>3. s \notin PendingSchemas(U, F, Q)
  BY <1>1 DEF PendingSchemas, IsPending
<1>4. ASSUME NEW r \in PendingSchemas(U, F, Q) PROVE r \in PendingSchemas(U, F, P)
  <2>1. ASSUME NEW p \in P, r \subseteq p PROVE FALSE
    <3>1. PICK q \in Q : p \subseteq q
      BY <1>2
    <3> QED BY <2>1, <3>1 DEF PendingSchemas, IsPending
  <2> QED BY <2>1 DEF PendingSchemas, IsPending
<1> QED BY <1>3, <1>4 DEF Q

\* A callee on a pending schema settles it for its caller, and nothing becomes
\* pending.
LEMMA MergeSettles ==
    ASSUME NEW t, NEW M, NEW f, FrameOK(f, t, M), NEW g, FrameOK(g, t, M),
           g.universe \in PendingSchemas(f.universe, f.CMinF, f.CMaxP)
    PROVE  LET m == Merge(f, g) IN
           /\ PendingSchemas(m.universe, m.CMinF, m.CMaxP)
                  \subseteq PendingSchemas(f.universe, f.CMinF, f.CMaxP)
           /\ g.universe \notin PendingSchemas(m.universe, m.CMinF, m.CMaxP)
<1> DEFINE S == f.CMinF \cup g.CMinF
           T == f.CMaxP \cup g.CMaxP
           F == Minimal(S)
           P == Maximal(T)
<1>1. S \in SUBSET SUBSET Params /\ T \in SUBSET SUBSET Params
  BY DEF FrameOK, Frame, Schema
<1>2. \A s \in S : \E r \in F : r \subseteq s
  <2> HIDE DEF S
  <2> QED BY <1>1, ParamsFinite, MinimalBelow
<1>3. \A s \in T : \E r \in P : s \subseteq r
  <2> HIDE DEF T
  <2> QED BY <1>1, ParamsFinite, MaximalAbove
<1>4. /\ Merge(f, g).universe = f.universe
      /\ Merge(f, g).CMinF = F
      /\ Merge(f, g).CMaxP = P
  BY DEF Merge, addAllMinimal, addAllMaximal
<1>5. PICK s \in g.CMinF : s \subseteq g.universe
  BY DEF FrameOK
<1>6. /\ \A r \in f.CMinF : \E q \in F : q \subseteq r
      /\ \A r \in f.CMaxP : \E q \in P : r \subseteq q
      /\ \E q \in F : q \subseteq g.universe
  BY <1>2, <1>3, <1>5
<1> HIDE DEF S, T, F, P
<1>7. g.universe \notin PendingSchemas(f.universe, F, P)
  BY <1>6 DEF PendingSchemas, IsPending
<1>8. ASSUME NEW r \in PendingSchemas(f.universe, F, P)
      PROVE  r \in PendingSchemas(f.universe, f.CMinF, f.CMaxP)
  <2>1. ASSUME NEW q \in f.CMinF, q \subseteq r PROVE FALSE
    <3>1. PICK x \in F : x \subseteq q
      BY <1>6
    <3> QED BY <2>1, <3>1 DEF PendingSchemas, IsPending
  <2>2. ASSUME NEW q \in f.CMaxP, r \subseteq q PROVE FALSE
    <3>1. PICK x \in P : q \subseteq x
      BY <1>6
    <3> QED BY <2>2, <3>1 DEF PendingSchemas, IsPending
  <2> QED BY <2>1, <2>2 DEF PendingSchemas, IsPending
<1> QED BY <1>4, <1>7, <1>8

\* The chain climbs from its minimum, one index above the other.
LEMMA ChainAtClimbs ==
    ASSUME NEW c \in [max : Schema, min : Schema], c.min \subseteq c.max
    PROVE  /\ ChainAt(c, 0) = c.min
           /\ \A j, k \in Int : j <= k => ChainAt(c, j) \subseteq ChainAt(c, k)
<1> DEFINE D == c.max \ c.min
           Above(i) == {j \in D : j > i}
<1>1. \A i \in D : Cardinality(Above(i)) \in Nat
  <2>1. IsFiniteSet(D)
    BY LastIndexType
  <2> HIDE DEF D
  <2> QED BY <2>1, FS_Subset, FS_CardinalityType
<1>2. \A k : ChainAt(c, k) = c.min \cup {i \in D : Cardinality(Above(i)) < k}
  BY DEF ChainAt
<1> HIDE DEF D, Above
<1>3. ChainAt(c, 0) = c.min
  <2>1. ChainAt(c, 0) = c.min \cup {i \in D : Cardinality(Above(i)) < 0}
    BY <1>2
  <2>2. ASSUME NEW i \in D
        PROVE  ~(Cardinality(Above(i)) < 0)
    <3>1. Cardinality(Above(i)) \in Nat
      BY <1>1
    <3> QED BY <3>1
  <2> QED BY <2>1, <2>2, ZenonT(30)
<1>4. \A j, k \in Int : j <= k => ChainAt(c, j) \subseteq ChainAt(c, k)
  BY <1>1, <1>2
<1> QED BY <1>3, <1>4

-----------------------------------------------------------------------------
(***************************************************************************)
(* CalleeIsPending and SearchInvariant.                                    *)
(***************************************************************************)

\* The callees of a stack are pending in their callers.
PendingStack(fs) ==
    \A k \in 2 .. Len(fs) :
        fs[k].universe \in
            PendingSchemas(fs[k - 1].universe, fs[k - 1].CMinF, fs[k - 1].CMaxP)

\* A stack of which only the running activation's knowledge has changed.
LEMMA PendingReplaces ==
    ASSUME NEW fs \in Seq(Frame), PendingStack(fs), NEW gs \in Seq(Frame),
           Len(gs) \in 0 .. Len(fs),
           \A k \in 1 .. Len(gs) : gs[k].universe = fs[k].universe,
           \A k \in 1 .. Len(gs) - 1 : gs[k] = fs[k]
    PROVE  PendingStack(gs)
<1> SUFFICES ASSUME NEW k \in 2 .. Len(gs)
             PROVE  gs[k].universe \in
                        PendingSchemas(gs[k - 1].universe, gs[k - 1].CMinF,
                                       gs[k - 1].CMaxP)
  BY DEF PendingStack
<1>1. Len(fs) \in Nat /\ Len(gs) \in Nat
  OBVIOUS
<1>2. k \in 2 .. Len(fs) /\ k - 1 \in 1 .. Len(gs) - 1 /\ k \in 1 .. Len(gs)
  BY <1>1
<1>3. gs[k].universe = fs[k].universe /\ gs[k - 1] = fs[k - 1]
  BY <1>2
<1> QED BY <1>2, <1>3 DEF PendingStack

SearchChainPending ==
    \A s : chain.min \subseteq s /\ s \subseteq chain.max =>
        s \in PendingSchemas(top.universe, top.CMinF, top.CMaxP)

\* The invariant of the search: what it works on is pending, and it bisects.
CallInv ==
    /\ PendingStack(frames)
    /\ pc = "search" =>
          /\ SearchChainPending
          /\ result = IF right = LastIndex(chain) THEN -1 ELSE right + 1

\* The bisection, from the parts that single steps keep.
LEMMA SearchFacts ==
    ASSUME Inv, CallInv, pc = "search"
    PROVE  /\ chain \in [max : Schema, min : Schema] /\ chain.min \subseteq chain.max
           /\ LastIndex(chain) \in 0 .. N
           /\ left \in 0 .. N + 1 /\ right \in -1 .. N
           /\ left <= right + 1 /\ right <= LastIndex(chain)
           /\ left > 0 => ~Faulty(getComb(ChainAt(chain, left - 1), tfail), MFS)
           /\ right < LastIndex(chain) =>
                 result = right + 1 /\ Faulty(getComb(ChainAt(chain, result), tfail), MFS)
           /\ right = LastIndex(chain) => result = -1
           /\ Faulty(getComb(chain.max, tfail), MFS)
<1>1. chain \in [max : Schema, min : Schema] /\ chain.min \subseteq chain.max
  BY DEF Inv, TypeOK, SearchTypeOK, SearchOK
<1>2. LastIndex(chain) \in 0 .. N /\ N \in Nat
  BY <1>1, LastIndexType, NAssumption
<1>3. /\ left \in 0 .. N + 1 /\ right \in -1 .. N
      /\ left <= right + 1 /\ right <= LastIndex(chain)
      /\ left > 0 => ~Faulty(getComb(ChainAt(chain, left - 1), tfail), MFS)
      /\ result # -1 => Faulty(getComb(ChainAt(chain, result), tfail), MFS)
      /\ Faulty(getComb(chain.max, tfail), MFS)
  BY DEF Inv, TypeOK, SearchTypeOK, SearchOK
<1>4. result = IF right = LastIndex(chain) THEN -1 ELSE right + 1
  BY DEF CallInv
<1>5. right < LastIndex(chain) => result = right + 1 /\ result # -1
  BY <1>2, <1>3, <1>4
<1> QED BY <1>1, <1>2, <1>3, <1>4, <1>5

\* The invariant implies what the run checks of the search.
LEMMA BisectionHolds ==
    ASSUME Inv, CallInv
    PROVE  SearchInvariant
<1> SUFFICES ASSUME pc = "search"
             PROVE  /\ Bisecting(ChainAt, tfail)
                    /\ \A k \in 0 .. LastIndex(chain) :
                          ChainAt(chain, k) \in
                              PendingSchemas(top.universe, top.CMinF, top.CMaxP)
  BY DEF SearchInvariant
<1>1. /\ chain \in [max : Schema, min : Schema] /\ chain.min \subseteq chain.max
      /\ LastIndex(chain) \in 0 .. N
      /\ left \in 0 .. N + 1 /\ right \in -1 .. N
      /\ right <= LastIndex(chain)
      /\ left > 0 => ~Faulty(getComb(ChainAt(chain, left - 1), tfail), MFS)
      /\ right < LastIndex(chain) =>
            result = right + 1 /\ Faulty(getComb(ChainAt(chain, result), tfail), MFS)
      /\ right = LastIndex(chain) => result = -1
      /\ Faulty(getComb(chain.max, tfail), MFS)
  BY SearchFacts
<1>2. MFS \in SUBSET Comb /\ tfail \in Testcase
  BY InputFacts, TopFacts DEF Inv
<1>3. /\ ChainAt(chain, 0) = chain.min
      /\ \A j, k \in Int : j <= k => ChainAt(chain, j) \subseteq ChainAt(chain, k)
      /\ ChainAt(chain, LastIndex(chain)) = chain.max
      /\ \A k : chain.min \subseteq ChainAt(chain, k) /\ ChainAt(chain, k) \subseteq chain.max
  BY <1>1, ChainAtClimbs, ChainAtEnds
<1>4. N \in Nat
  BY NAssumption
<1>5. ASSUME NEW k \in 0 .. left - 1
      PROVE  ~Faulty(getComb(ChainAt(chain, k), tfail), MFS)
  <2>1. left > 0 /\ k \in Int /\ left - 1 \in Int /\ k <= left - 1
    BY <1>1, <1>4
  <2>2. ChainAt(chain, k) \subseteq ChainAt(chain, left - 1)
    BY <1>3, <2>1
  <2> QED BY <1>1, <1>2, <2>1, <2>2, FaultyMonotone
<1>6. ASSUME NEW k \in right + 1 .. LastIndex(chain)
      PROVE  Faulty(getComb(ChainAt(chain, k), tfail), MFS)
  <2>1. right < LastIndex(chain) /\ k \in Int /\ right + 1 \in Int /\ right + 1 <= k
    BY <1>1, <1>4
  <2>2. ChainAt(chain, right + 1) \subseteq ChainAt(chain, k)
    BY <1>3, <2>1
  <2>3. Faulty(getComb(ChainAt(chain, right + 1), tfail), MFS)
    BY <1>1, <2>1
  <2> QED BY <1>2, <2>2, <2>3, FaultyMonotone
<1>7. result = IF right = LastIndex(chain) THEN -1 ELSE right + 1
  BY DEF CallInv
<1>8. Bisecting(ChainAt, tfail)
  BY <1>1, <1>3, <1>5, <1>6, <1>7 DEF Bisecting, IsFaulty
<1>9. \A k : ChainAt(chain, k) \in PendingSchemas(top.universe, top.CMinF, top.CMaxP)
  BY <1>3 DEF CallInv, SearchChainPending
<1> QED BY <1>8, <1>9

\* Every step keeps CallInv.
LEMMA CallStep == ASSUME Inv, CallInv, Next PROVE CallInv'
<1>1. CASE Conduct \/ Reset \/ BeginTestcase \/ FinishConduct \/ EndTestcase
  <2>1. Len(frames') < 2 /\ pc' # "search"
    <3>1. CASE Conduct \/ FinishConduct
      BY <3>1 DEF Conduct, FinishConduct, Inv, ControlOK
    <3>2. CASE Reset \/ EndTestcase
      BY <3>2 DEF Reset, EndTestcase
    <3>3. CASE BeginTestcase
      BY <3>3 DEF BeginTestcase
    <3> QED BY <1>1, <3>1, <3>2, <3>3
  <2>2. frames' \in Seq(Frame)
    BY <1>1, ConductStep, ResetStep, BeginTestcaseStep, FinishConductStep,
       EndTestcaseStep DEF Inv, TypeOK
  <2>3. 2 .. Len(frames') = {}
    BY <2>1, <2>2
  <2> QED BY <2>1, <2>3 DEF CallInv, PendingStack
<1>2. CASE Iterate
  <2> USE DEF Iterate
  <2>1. /\ tfail \in Testcase /\ frames \in Seq(Frame) /\ depth = Len(frames)
        /\ depth \in Nat /\ depth >= 1 /\ top = frames[depth]
        /\ FrameOK(top, tfail, MFS)
    BY <1>2, TopFacts DEF depth
  <2>2. MFS \in SUBSET Comb /\ Irredundant(MFS)
    BY InputFacts DEF Inv
  <2>3. PICK c \in LongestChains(topSchemas(top), bottomSchemas(top)) : TestMaximum(c)
    BY <1>2, <2>1, <2>2, FrameDoesNotThrow
  <2>4. CASE Healthy(getComb(c.max, tfail), tfail)
    <3>1. frames' = AddHealthy(c.max) /\ pc' # "search"
      BY <1>2, <2>3, <2>4 DEF TestMaximum
    <3>2. /\ Len(frames') = Len(frames)
          /\ \A k \in 1 .. Len(frames) : frames'[k].universe = frames[k].universe
          /\ \A k \in 1 .. Len(frames) - 1 : frames'[k] = frames[k]
      BY <2>1, <3>1 DEF AddHealthy, Frame
    <3>3. frames' \in Seq(Frame)
      BY <1>2, IterateStep DEF Inv, TypeOK
    <3>4. PendingStack(frames')
      BY <2>1, <3>2, <3>3, PendingReplaces DEF CallInv
    <3> QED BY <3>1, <3>4 DEF CallInv
  <2>5. CASE ~Healthy(getComb(c.max, tfail), tfail)
    <3>1. OpenSearch(c) /\ frames' = frames
      BY <2>3, <2>5 DEF TestMaximum
    <3>2. top' = top
      BY <3>1 DEF top, depth
    <3>3. SearchChainPending'
      BY <2>1, <3>1, <3>2, PickedChainIsPending DEF OpenSearch, SearchChainPending
    <3>4. PendingStack(frames')
      BY <3>1 DEF CallInv
    <3> QED BY <3>1, <3>3, <3>4 DEF CallInv, OpenSearch
  <2> QED BY <2>4, <2>5
<1>3. CASE SearchStep
  <2>1. frames' = frames /\ chain' = chain /\ pc = "search"
    BY <1>3 DEF SearchStep, StepSearch
  <2>2. top' = top
    BY <2>1 DEF top, depth
  <2>3. SearchChainPending' /\ PendingStack(frames')
    BY <2>1, <2>2 DEF CallInv, SearchChainPending
  <2>4. left <= right /\ \/ right' = right /\ result' = result
                         \/ right' = mid - 1 /\ result' = mid
    BY <1>3 DEF SearchStep, StepSearch
  <2>5. /\ LastIndex(chain) \in 0 .. N /\ left \in 0 .. N + 1 /\ right \in -1 .. N
        /\ right <= LastIndex(chain) /\ N \in Nat
    BY <2>1, SearchFacts, NAssumption
  <2>6. mid \in Int /\ mid <= right
    BY <2>4, <2>5 DEF mid
  <2>7. LastIndex(chain') = LastIndex(chain)
    BY <2>1
  <2>8. result' = IF right' = LastIndex(chain) THEN -1 ELSE right' + 1
    BY <2>1, <2>4, <2>5, <2>6 DEF CallInv
  <2> QED BY <2>3, <2>7, <2>8 DEF CallInv
<1>4. CASE SearchEnd
  <2>1. /\ frames \in Seq(Frame) /\ depth = Len(frames) /\ depth \in Nat /\ depth >= 1
        /\ top = frames[depth]
    BY <1>4, TopFacts DEF SearchEnd, depth
  <2>2. result # -1
    BY <1>4, SearchEndFaulty
  <2> DEFINE m == ChainAt(chain, result)
             g == [universe |-> m, CMinF |-> {m}, CMaxP |-> {{}}]
  <2>3. frames' = Append(frames, g) /\ pc' # "search"
    BY <1>4, <2>2 DEF SearchEnd
  <2>4. m \in PendingSchemas(top.universe, top.CMinF, top.CMaxP)
    <3>1. chain.min \subseteq m /\ m \subseteq chain.max
      BY <1>4, SearchFacts, ChainAtEnds DEF SearchEnd
    <3> QED BY <1>4, <3>1 DEF CallInv, SearchChainPending, SearchEnd
  <2>5. g.universe = m
    OBVIOUS
  <2> HIDE DEF m, g
  <2>6. g \in Frame /\ frames' \in Seq(Frame)
    <3>1. frames' \in Seq(Frame)
      BY <1>4, SearchEndStep DEF Inv, TypeOK
    <3>2. top.universe \in SUBSET Params
      BY <1>4, TopFacts, FrameSets DEF SearchEnd
    <3>3. m \in Schema
      BY <2>4, <3>2 DEF PendingSchemas, Schema
    <3> QED BY <3>1, <3>3 DEF Frame, Schema, g
  <2>7. /\ Len(frames') = depth + 1 /\ frames'[depth + 1] = g
        /\ \A k \in 1 .. depth : frames'[k] = frames[k]
    BY <2>1, <2>3, <2>6
  <2>8. ASSUME NEW k \in 2 .. depth + 1
        PROVE  frames'[k].universe \in
                  PendingSchemas(frames'[k - 1].universe, frames'[k - 1].CMinF,
                                 frames'[k - 1].CMaxP)
    <3>1. k - 1 \in 1 .. depth /\ frames'[k - 1] = frames[k - 1]
      BY <2>1, <2>7
    <3>2. CASE k = depth + 1
      <4>1. k - 1 = depth
        BY <2>1, <3>2
      <4> QED BY <2>1, <2>4, <2>5, <2>7, <3>1, <3>2, <4>1
    <3>3. CASE k # depth + 1
      <4>1. k \in 2 .. depth /\ k \in 1 .. depth
        BY <2>1, <3>3
      <4> QED BY <2>1, <2>7, <3>1, <4>1 DEF CallInv, PendingStack
    <3> QED BY <3>2, <3>3
  <2> QED BY <2>3, <2>7, <2>8 DEF CallInv, PendingStack
<1>5. CASE ReturnToCaller
  <2>1. /\ frames \in Seq(Frame) /\ depth = Len(frames) /\ depth \in Nat /\ depth > 1
        /\ top = frames[depth]
    BY <1>5, TopFacts DEF ReturnToCaller, depth
  <2> DEFINE below == SubSeq(frames, 1, depth - 2)
             g == Merge(frames[depth - 1], top)
  <2>2. frames' = Append(below, g) /\ pc' # "search"
    BY <1>5 DEF ReturnToCaller
  <2>3. g.universe = frames[depth - 1].universe
    BY DEF Merge
  <2>4. /\ below \in Seq(Frame) /\ Len(below) = depth - 2
        /\ \A k \in 1 .. depth - 2 : below[k] = frames[k]
    BY <2>1
  <2> HIDE DEF below, g
  <2>5. frames' \in Seq(Frame)
    BY <1>5, ReturnToCallerStep DEF Inv, TypeOK
  <2>6. /\ Len(frames') = depth - 1 /\ frames'[depth - 1] = g
        /\ \A k \in 1 .. depth - 2 : frames'[k] = frames[k]
    BY <2>1, <2>2, <2>4
  <2>7. PendingStack(frames')
    <3>1. Len(frames') \in 0 .. Len(frames)
      BY <2>1, <2>6
    <3>2. \A k \in 1 .. Len(frames') : frames'[k].universe = frames[k].universe
      BY <2>1, <2>3, <2>6
    <3>3. \A k \in 1 .. Len(frames') - 1 : frames'[k] = frames[k]
      BY <2>1, <2>6
    <3> QED BY <2>1, <2>5, <3>1, <3>2, <3>3, PendingReplaces DEF CallInv
  <2> QED BY <2>2, <2>7 DEF CallInv
<1> QED BY <1>1, <1>2, <1>3, <1>4, <1>5 DEF Next, Work

\* A step that changes nothing keeps CallInv.
LEMMA CallStutter == ASSUME CallInv, UNCHANGED vars PROVE CallInv'
BY DEF vars, searchVars, CallInv, SearchChainPending, top, depth

-----------------------------------------------------------------------------
(***************************************************************************)
(* EveryRoundSettles.                                                      *)
(***************************************************************************)

\* How a frame may change: something that was pending is settled.
Settles(f, g) ==
    /\ g.universe = f.universe
    /\ PendingSchemas(g.universe, g.CMinF, g.CMaxP) #
           PendingSchemas(f.universe, f.CMinF, f.CMaxP)
    /\ PendingSchemas(g.universe, g.CMinF, g.CMaxP) \subseteq
           PendingSchemas(f.universe, f.CMinF, f.CMaxP)

\* A round that finds a healthy maximum settles it, and a return settles the
\* callee's universe; no other step changes a frame that stays on the stack.
LEMMA FramesSettle ==
    ASSUME Inv, CallInv, Next,
           NEW k \in 1 .. depth, k <= depth', frames[k] # frames'[k]
    PROVE  Settles(frames[k], frames'[k])
<1>1. frames \in Seq(Frame) /\ depth = Len(frames) /\ depth \in Nat /\ k \in Nat
  BY DEF Inv, TypeOK, depth
<1>2. CASE Conduct \/ Reset \/ BeginTestcase \/ FinishConduct \/ EndTestcase
  <2>1. CASE Conduct \/ FinishConduct
    BY <2>1 DEF Conduct, FinishConduct
  <2>2. CASE Reset \/ EndTestcase
    <3>1. depth' = 0
      BY <2>2 DEF Reset, EndTestcase, depth
    <3> QED BY <1>1, <3>1
  <2>3. CASE BeginTestcase
    <3>1. depth = 0
      BY <2>3 DEF BeginTestcase, Inv, ControlOK, depth
    <3> QED BY <3>1
  <2> QED BY <1>2, <2>1, <2>2, <2>3
<1>3. CASE Iterate
  <2> USE DEF Iterate
  <2>1. depth >= 1 /\ top = frames[depth] /\ FrameOK(top, tfail, MFS) /\ tfail \in Testcase
    BY <1>3, TopFacts
  <2>2. MFS \in SUBSET Comb /\ Irredundant(MFS)
    BY InputFacts DEF Inv
  <2>3. PICK c \in LongestChains(topSchemas(top), bottomSchemas(top)) : TestMaximum(c)
    BY <1>3, <2>1, <2>2, FrameDoesNotThrow
  <2>4. frames' = AddHealthy(c.max)
    BY <2>3 DEF TestMaximum
  <2>5. k = depth /\ frames'[k] = [top EXCEPT !.CMaxP = addMaximal(@, c.max)]
    BY <1>1, <2>1, <2>4 DEF AddHealthy
  <2>6. c.max \in PendingSchemas(top.universe, top.CMinF, top.CMaxP)
    <3>1. c.min \subseteq c.max
      BY <2>1, ChainWithinFrame
    <3> QED BY <2>1, <3>1, PickedChainIsPending
  <2>7. /\ frames'[k].universe = top.universe
        /\ frames'[k].CMinF = top.CMinF
        /\ frames'[k].CMaxP = addMaximal(top.CMaxP, c.max)
    BY <2>1, <2>5, FrameSets
  <2> QED BY <2>1, <2>5, <2>6, <2>7, HealthySettles DEF Settles
<1>4. CASE SearchStep
  BY <1>4 DEF SearchStep
<1>5. CASE SearchEnd
  <2>1. \E g : frames' = Append(frames, g)
    BY <1>5, SearchEndFaulty DEF SearchEnd
  <2>2. frames'[k] = frames[k]
    BY <1>1, <2>1
  <2> QED BY <2>2
<1>6. CASE ReturnToCaller
  <2> DEFINE below == SubSeq(frames, 1, depth - 2)
             g == Merge(frames[depth - 1], top)
  <2>1. depth > 1 /\ top = frames[depth] /\ frames' = Append(below, g)
    BY <1>6 DEF ReturnToCaller, top
  <2>2. /\ below \in Seq(Frame) /\ Len(below) = depth - 2
        /\ \A j \in 1 .. depth - 2 : below[j] = frames[j]
    BY <1>1, <2>1
  <2> HIDE DEF below, g
  <2>3. /\ Len(frames') = depth - 1 /\ frames'[depth - 1] = g
        /\ \A j \in 1 .. depth - 2 : frames'[j] = frames[j]
    BY <1>1, <2>1, <2>2
  <2>4. k = depth - 1
    BY <1>1, <2>1, <2>3 DEF depth
  <2>5. FrameOK(frames[depth - 1], tfail, MFS) /\ FrameOK(top, tfail, MFS)
    BY <1>1, <2>1 DEF Inv, StackOK, GoodStack, tfail
  <2>6. top.universe \in
            PendingSchemas(frames[depth - 1].universe, frames[depth - 1].CMinF,
                           frames[depth - 1].CMaxP)
    <3>1. depth \in 2 .. Len(frames)
      BY <1>1, <2>1
    <3> QED BY <2>1, <3>1 DEF CallInv, PendingStack
  <2>7. g.universe = frames[depth - 1].universe
    BY DEF Merge, g
  <2> QED BY <2>3, <2>4, <2>5, <2>6, <2>7, MergeSettles DEF Settles, g
<1> QED BY <1>2, <1>3, <1>4, <1>5, <1>6 DEF Next, Work

-----------------------------------------------------------------------------
(***************************************************************************)
(* NothingLeftPending.                                                     *)
(***************************************************************************)

\* A combination of F is within comb.
FaultIn(comb, F) == \E faultyComb \in F : contains(comb, faultyComb)

\* The healthy combinations H and the faulty ones F decide the combinations of t
\* but for the two exceptions, when M are the real faults.
Decided(t, H, F, M) ==
    \A s \in Schema :
        \/ \E healthyComb \in H : contains(healthyComb, getComb(s, t))
        \/ FaultIn(getComb(s, t), F)
        \/ s = {}
        \/ getComb(s, t) \in M

\* What a frame knows is on record, but for the universe identify starts from
\* and the empty schema.
FrameRecorded(f, t, H, F) ==
    /\ \A s \in f.CMinF : s = Params \/ FaultIn(getComb(s, t), F)
    /\ \A s \in f.CMaxP : s = {} \/ getComb(s, t) \in H

RecordInv ==
    /\ \A k \in 1 .. Len(frames) :
          FrameRecorded(frames[k], tfail, healthyCombs, faultyCombs)
    /\ pc = "search" /\ result # -1 =>
          getComb(ChainAt(chain, result), tfail) \in faultyCombs
    /\ \A mf \in MFC_identified : schemaOf(mf) = Params \/ FaultIn(mf, faultyCombs)
    /\ pc \in {"tfail", "identify", "search"} =>
          \A k \in 1 .. next - 1 : Decided(Tfail[k], healthyCombs, faultyCombs, MFS)
    /\ pc = "idle" /\ conducted =>
          \A k \in 1 .. Len(Tfail) : Decided(Tfail[k], healthyCombs, faultyCombs, MFS)

\* A finished activation on the whole test case leaves nothing undecided.
LEMMA FinishedDecides ==
    ASSUME NEW M \in SUBSET Comb, Irredundant(M), NEW t \in Testcase,
           NEW f, FrameOK(f, t, M), f.universe = Params, Finished(f),
           NEW H, NEW F, FrameRecorded(f, t, H, F)
    PROVE  Decided(t, H, F, M)
<1> SUFFICES ASSUME NEW s \in Schema, s # {}
             PROVE  \/ \E healthyComb \in H : contains(healthyComb, getComb(s, t))
                    \/ FaultIn(getComb(s, t), F)
                    \/ getComb(s, t) \in M
  BY DEF Decided
<1>2. f.CMinF \in SUBSET SUBSET Params /\ f.CMaxP \in SUBSET SUBSET Params
  BY FrameSets
<1>3. {getComb(r, t) : r \in f.CMinF} \subseteq M
  BY FinishedFrame
<1>4. ASSUME NEW h \in f.CMaxP, s \subseteq h
      PROVE  \E healthyComb \in H : contains(healthyComb, getComb(s, t))
  <2>1. h # {}
    BY <1>4
  <2>2. getComb(h, t) \in H
    BY <2>1 DEF FrameRecorded
  <2> QED BY <1>4, <2>2, SchemaOrder
<1>5. ASSUME NEW r \in f.CMinF, r \subseteq s
      PROVE  FaultIn(getComb(s, t), F) \/ getComb(s, t) \in M
  <2>1. CASE FaultIn(getComb(r, t), F)
    <3>1. PICK comb \in F : contains(getComb(r, t), comb)
      BY <2>1 DEF FaultIn
    <3>2. contains(getComb(s, t), getComb(r, t))
      BY <1>5, SchemaOrder
    <3>3. contains(getComb(s, t), comb)
      BY <3>1, <3>2, ContainsTransitive
    <3> QED BY <3>1, <3>3 DEF FaultIn
  <2>2. CASE r = Params
    <3>1. s = r
      BY <1>5, <2>2 DEF Schema
    <3> QED BY <1>3, <1>5, <3>1
  <2> QED BY <2>1, <2>2 DEF FrameRecorded
<1>6. (\E r \in f.CMinF : r \subseteq s) \/ (\E h \in f.CMaxP : s \subseteq h)
  <2>1. CASE Cardinality(f.universe) = 1
    <3>1. PICK x : Params = {x}
      BY <2>1, ParamsFinite, FS_Singleton
    <3>2. s = Params
      BY <3>1 DEF Schema
    <3>3. PICK r \in f.CMinF : TRUE
      BY DEF FrameOK
    <3> QED BY <1>2, <3>2, <3>3
  <2>2. CASE Chains(topSchemas(f), bottomSchemas(f)) = {}
    <3>1. s \notin PendingSchemas(Params, f.CMinF, f.CMaxP)
      BY <1>2, <2>2, ParamsFinite, PendingOnChain DEF topSchemas, bottomSchemas
    <3> QED BY <3>1 DEF PendingSchemas, IsPending, Schema
  <2> QED BY <2>1, <2>2 DEF Finished
<1> QED BY <1>4, <1>5, <1>6

\* What is on record stays known when the records grow.
LEMMA MoreRecords ==
    ASSUME NEW H, NEW F, NEW H2, H \subseteq H2, NEW F2, F \subseteq F2
    PROVE  /\ \A comb : FaultIn(comb, F) => FaultIn(comb, F2)
           /\ \A t, M : Decided(t, H, F, M) => Decided(t, H2, F2, M)
           /\ \A f, t : FrameRecorded(f, t, H, F) => FrameRecorded(f, t, H2, F2)
<1>1. \A comb : FaultIn(comb, F) => FaultIn(comb, F2)
  BY DEF FaultIn
<1>2. \A t, M : Decided(t, H, F, M) => Decided(t, H2, F2, M)
  BY <1>1 DEF Decided
<1>3. \A f, t : FrameRecorded(f, t, H, F) => FrameRecorded(f, t, H2, F2)
  BY <1>1 DEF FrameRecorded
<1> QED BY <1>1, <1>2, <1>3

\* No step takes a record back or changes the inputs.
LEMMA RecordsGrow ==
    ASSUME Next
    PROVE  /\ MFS' = MFS /\ Tfail' = Tfail
           /\ healthyCombs \subseteq healthyCombs' /\ faultyCombs \subseteq faultyCombs'
<1>1. UNCHANGED inputs
  BY DEF Next, Work, Conduct, Reset, ResolverReset, BeginTestcase, FinishConduct, Iterate,
         IterationFails, TestMaximum, ReturnToCaller, EndTestcase, SearchStep, SearchEnd,
         resolverVars
<1>2. healthyCombs \subseteq healthyCombs' /\ faultyCombs \subseteq faultyCombs'
  BY DEF Next, Work, Conduct, Reset, ResolverReset, BeginTestcase, FinishConduct, Iterate,
         IterationFails, TestMaximum, ReturnToCaller, EndTestcase, SearchStep, StepSearch,
         SearchEnd, check_with_safevalues, resolverVars, records
<1> QED BY <1>1, <1>2 DEF inputs

\* Every step keeps RecordInv.
LEMMA RecordStep == ASSUME Inv, CallInv, RecordInv, Next PROVE RecordInv'
<1>1. /\ MFS' = MFS /\ Tfail' = Tfail
      /\ healthyCombs \subseteq healthyCombs' /\ faultyCombs \subseteq faultyCombs'
  BY RecordsGrow
<1>2. /\ \A comb : FaultIn(comb, faultyCombs) => FaultIn(comb, faultyCombs')
      /\ \A t : Decided(t, healthyCombs, faultyCombs, MFS)
                    => Decided(t, healthyCombs', faultyCombs', MFS')
      /\ \A f, t : FrameRecorded(f, t, healthyCombs, faultyCombs)
                       => FrameRecorded(f, t, healthyCombs', faultyCombs')
  BY <1>1, MoreRecords
<1>3. CASE Conduct
  <2>1. /\ next' = 1 /\ pc' \in {"tfail", "thrown"}
        /\ UNCHANGED <<frames, MFC_identified>> /\ frames = <<>>
    BY <1>3 DEF Conduct, Inv, ControlOK
  <2>2. 1 .. Len(frames') = {} /\ 1 .. next' - 1 = {}
    BY <2>1
  <2> QED BY <1>2, <2>1, <2>2 DEF RecordInv
<1>4. CASE Reset
  <2>1. frames' = <<>> /\ MFC_identified' = {} /\ pc' = "idle" /\ ~conducted'
    BY <1>4 DEF Reset, ResolverReset
  <2>2. 1 .. Len(frames') = {}
    BY <2>1
  <2> QED BY <2>1, <2>2 DEF RecordInv
<1>5. CASE BeginTestcase
  <2>1. /\ next' = next /\ pc' = "identify" /\ pc = "tfail" /\ UNCHANGED MFC_identified
        /\ tfail' = tfail
    BY <1>1, <1>5 DEF BeginTestcase, resolverVars, tfail
  <2>2. PICK C \in InitialCMinF(tfail) :
            frames' = << [universe |-> Params, CMinF |-> C, CMaxP |-> {{}}] >>
    BY <1>5 DEF BeginTestcase
  <2>3. next \in 1 .. Len(Tfail) /\ tfail \in Testcase
    BY <1>5, InputFacts DEF BeginTestcase, Inv, TypeOK, tfail
  <2>4. \A s \in C : s = Params \/ FaultIn(getComb(s, tfail), faultyCombs)
    <3>1. CASE KnownIn(tfail) = {}
      BY <3>1 DEF InitialCMinF
    <3>2. CASE KnownIn(tfail) # {}
      <4>1. PICK mf \in KnownIn(tfail) : C = addMinimal({Params}, schemaOf(mf))
        BY <3>2 DEF InitialCMinF
      <4>2. \A s \in C : s = Params \/ s = schemaOf(mf)
        BY <4>1 DEF addMinimal
      <4>3. mf \in MFC_identified /\ mf \in Comb /\ contains(tfail, mf)
        BY <4>1 DEF KnownIn, Inv, TypeOK, ResolverTypeOK
      <4>4. getComb(schemaOf(mf), tfail) = mf
        BY <2>3, <4>3, CombOfSchema
      <4> QED BY <4>2, <4>3, <4>4 DEF RecordInv
    <3> QED BY <3>1, <3>2
  <2> DEFINE f == [universe |-> Params, CMinF |-> C, CMaxP |-> {{}}]
  <2>5. FrameRecorded(f, tfail, healthyCombs, faultyCombs)
    BY <2>4 DEF FrameRecorded
  <2> HIDE DEF f
  <2>6. Len(frames') = 1 /\ frames'[1] = f
    BY <2>2 DEF f
  <2>7. \A k \in 1 .. Len(frames') :
            FrameRecorded(frames'[k], tfail', healthyCombs', faultyCombs')
    BY <1>2, <2>1, <2>5, <2>6
  <2> QED BY <1>1, <1>2, <2>1, <2>7 DEF RecordInv
<1>6. CASE FinishConduct
  <2>1. /\ pc = "tfail" /\ pc' = "idle" /\ UNCHANGED <<frames, MFC_identified, next>>
        /\ tfail' = tfail
    BY <1>1, <1>6 DEF FinishConduct, resolverVars, tfail
  <2>2. next - 1 = Len(Tfail)
    BY <1>6, InputFacts DEF FinishConduct, Inv, TypeOK
  <2> QED BY <1>1, <1>2, <2>1, <2>2 DEF RecordInv
<1>7. CASE Iterate
  <2> USE DEF Iterate
  <2>1. /\ tfail \in Testcase /\ frames \in Seq(Frame) /\ depth = Len(frames)
        /\ depth \in Nat /\ depth >= 1 /\ top = frames[depth]
        /\ FrameOK(top, tfail, MFS)
    BY <1>7, TopFacts DEF depth
  <2>2. MFS \in SUBSET Comb /\ Irredundant(MFS)
    BY InputFacts DEF Inv
  <2>3. PICK c \in LongestChains(topSchemas(top), bottomSchemas(top)) : TestMaximum(c)
    BY <1>7, <2>1, <2>2, FrameDoesNotThrow
  <2>4. UNCHANGED <<MFC_identified, next>> /\ tfail' = tfail
    BY <1>1, <2>3 DEF TestMaximum, tfail
  <2>5. pc = "identify" /\ pc' \in {"identify", "search"}
    BY <1>7, <2>3 DEF TestMaximum
  <2>6. CASE Healthy(getComb(c.max, tfail), tfail)
    <3>1. frames' = AddHealthy(c.max) /\ pc' # "search"
      BY <1>7, <2>3, <2>6 DEF TestMaximum
    <3>2. getComb(c.max, tfail) \in healthyCombs'
      BY <2>3, <2>6 DEF TestMaximum, check_with_safevalues
    <3> DEFINE g == [top EXCEPT !.CMaxP = addMaximal(@, c.max)]
    <3>3. /\ Len(frames') = depth /\ frames'[depth] = g
          /\ \A k \in 1 .. depth : k # depth => frames'[k] = frames[k]
      BY <2>1, <3>1 DEF AddHealthy
    <3>4. g.CMinF = top.CMinF /\ \A s \in g.CMaxP : s \in top.CMaxP \/ s = c.max
      <4>1. g.CMinF = top.CMinF /\ g.CMaxP = addMaximal(top.CMaxP, c.max)
        BY <2>1, FrameSets
      <4> QED BY <4>1 DEF addMaximal
    <3> HIDE DEF g
    <3>5. FrameRecorded(top, tfail, healthyCombs', faultyCombs')
      BY <1>2, <2>1 DEF RecordInv
    <3>6. FrameRecorded(g, tfail, healthyCombs', faultyCombs')
      BY <3>2, <3>4, <3>5 DEF FrameRecorded
    <3>7. \A k \in 1 .. Len(frames') :
              FrameRecorded(frames'[k], tfail', healthyCombs', faultyCombs')
      BY <1>2, <2>1, <2>4, <3>3, <3>6 DEF RecordInv
    <3> QED BY <1>1, <1>2, <2>4, <2>5, <3>1, <3>7 DEF RecordInv
  <2>7. CASE ~Healthy(getComb(c.max, tfail), tfail)
    <3>1. frames' = frames /\ result' = -1
      BY <2>3, <2>7 DEF TestMaximum, OpenSearch
    <3> QED BY <1>1, <1>2, <2>4, <2>5, <3>1 DEF RecordInv
  <2> QED BY <2>6, <2>7
<1>8. CASE SearchStep
  <2>1. /\ UNCHANGED <<frames, chain, MFC_identified, next, pc>> /\ pc = "search"
        /\ tfail' = tfail
    BY <1>1, <1>8 DEF SearchStep, StepSearch, tfail
  <2>2. \/ result' = result
        \/ result' = mid /\ getComb(ChainAt(chain, mid), tfail) \in faultyCombs'
    BY <1>8 DEF SearchStep, StepSearch, check_with_safevalues
  <2>3. pc' = "search" /\ result' # -1 =>
            getComb(ChainAt(chain', result'), tfail') \in faultyCombs'
    BY <1>1, <2>1, <2>2 DEF RecordInv
  <2>4. pc' \in {"tfail", "identify", "search"} /\ pc' # "idle"
    BY <2>1
  <2>5. \A k \in 1 .. Len(frames') :
            FrameRecorded(frames'[k], tfail', healthyCombs', faultyCombs')
    BY <1>2, <2>1 DEF RecordInv
  <2>6. \A mf \in MFC_identified' : schemaOf(mf) = Params \/ FaultIn(mf, faultyCombs')
    BY <1>2, <2>1 DEF RecordInv
  <2>7. \A k \in 1 .. next' - 1 : Decided(Tfail'[k], healthyCombs', faultyCombs', MFS')
    BY <1>1, <1>2, <2>1 DEF RecordInv
  <2> QED BY <2>3, <2>4, <2>5, <2>6, <2>7 DEF RecordInv
<1>9. CASE SearchEnd
  <2>1. /\ frames \in Seq(Frame) /\ depth = Len(frames) /\ depth \in Nat
    BY <1>9, TopFacts DEF SearchEnd, depth
  <2>2. /\ UNCHANGED <<MFC_identified, next>> /\ pc' = "identify" /\ pc = "search"
        /\ tfail' = tfail /\ result # -1
    BY <1>1, <1>9, SearchEndFaulty DEF SearchEnd, resolverVars, tfail
  <2> DEFINE m == ChainAt(chain, result)
             g == [universe |-> m, CMinF |-> {m}, CMaxP |-> {{}}]
  <2>3. frames' = Append(frames, g)
    BY <1>9, <2>2 DEF SearchEnd
  <2>4. FaultIn(getComb(m, tfail), faultyCombs)
    <3>1. getComb(m, tfail) \in faultyCombs
      BY <2>2 DEF RecordInv
    <3>2. contains(getComb(m, tfail), getComb(m, tfail))
      BY SchemaOrder
    <3> QED BY <3>1, <3>2 DEF FaultIn
  <2>5. FrameRecorded(g, tfail, healthyCombs, faultyCombs)
    BY <2>4 DEF FrameRecorded
  <2> HIDE DEF m, g
  <2>6. /\ Len(frames') = depth + 1 /\ frames'[depth + 1] = g
        /\ \A k \in 1 .. depth : frames'[k] = frames[k]
    BY <2>1, <2>3
  <2>7. \A k \in 1 .. Len(frames') :
            FrameRecorded(frames'[k], tfail', healthyCombs', faultyCombs')
    BY <1>2, <2>1, <2>2, <2>5, <2>6 DEF RecordInv
  <2> QED BY <1>1, <1>2, <2>2, <2>7 DEF RecordInv
<1>10. CASE ReturnToCaller
  <2>1. /\ frames \in Seq(Frame) /\ depth = Len(frames) /\ depth \in Nat /\ depth > 1
        /\ top = frames[depth]
    BY <1>10, TopFacts DEF ReturnToCaller, depth
  <2>2. /\ UNCHANGED <<MFC_identified, next, pc>> /\ pc = "identify" /\ tfail' = tfail
    BY <1>1, <1>10 DEF ReturnToCaller, resolverVars, tfail
  <2> DEFINE below == SubSeq(frames, 1, depth - 2)
             g == Merge(frames[depth - 1], top)
  <2>3. frames' = Append(below, g)
    BY <1>10 DEF ReturnToCaller
  <2>4. /\ \A s \in g.CMinF : s \in frames[depth - 1].CMinF \/ s \in top.CMinF
        /\ \A s \in g.CMaxP : s \in frames[depth - 1].CMaxP \/ s \in top.CMaxP
    BY DEF Merge, addAllMinimal, addAllMaximal, Minimal, Maximal
  <2>5. /\ below \in Seq(Frame) /\ Len(below) = depth - 2
        /\ \A k \in 1 .. depth - 2 : below[k] = frames[k]
    BY <2>1
  <2> HIDE DEF below, g
  <2>6. /\ Len(frames') = depth - 1 /\ frames'[depth - 1] = g
        /\ \A k \in 1 .. depth - 2 : frames'[k] = frames[k]
    BY <2>1, <2>3, <2>5
  <2>7. /\ FrameRecorded(frames[depth - 1], tfail, healthyCombs', faultyCombs')
        /\ FrameRecorded(top, tfail, healthyCombs', faultyCombs')
    BY <1>2, <2>1 DEF RecordInv
  <2>8. FrameRecorded(g, tfail, healthyCombs', faultyCombs')
    BY <2>4, <2>7 DEF FrameRecorded
  <2>9. \A k \in 1 .. Len(frames') :
            FrameRecorded(frames'[k], tfail', healthyCombs', faultyCombs')
    BY <1>2, <2>1, <2>2, <2>6, <2>8 DEF RecordInv
  <2> QED BY <1>1, <1>2, <2>2, <2>9 DEF RecordInv
<1>11. CASE EndTestcase
  <2>1. /\ tfail \in Testcase /\ FrameOK(top, tfail, MFS) /\ Finished(top)
        /\ frames # <<>> /\ depth = 1 /\ top = frames[1] /\ Len(frames) = 1
        /\ top.universe = Params
    BY <1>11, TopFacts DEF EndTestcase, Inv, StackOK, GoodStack, ControlOK, top, depth
  <2>2. MFS \in SUBSET Comb /\ Irredundant(MFS)
    BY InputFacts DEF Inv
  <2>3. FrameRecorded(top, tfail, healthyCombs, faultyCombs)
    BY <2>1 DEF RecordInv
  <2>4. Decided(tfail, healthyCombs, faultyCombs, MFS)
    BY <2>1, <2>2, <2>3, FinishedDecides
  <2>5. /\ MFC_identified' = MFC_identified \cup {getComb(s, tfail) : s \in top.CMinF}
        /\ frames' = <<>> /\ next' = next + 1 /\ pc' = "tfail" /\ pc = "identify"
    BY <1>11 DEF EndTestcase
  <2>6. \A mf \in MFC_identified' : schemaOf(mf) = Params \/ FaultIn(mf, faultyCombs')
    <3>1. schemaOf(getComb(Params, tfail)) = Params
      BY <2>1 DEF schemaOf, getComb, Testcase, UNKNOWN
    <3>2. \A s \in top.CMinF : \/ schemaOf(getComb(s, tfail)) = Params
                               \/ FaultIn(getComb(s, tfail), faultyCombs)
      BY <2>3, <3>1 DEF FrameRecorded
    <3> QED BY <1>2, <2>5, <3>2 DEF RecordInv
  <2>7. \A k \in 1 .. next' - 1 : Decided(Tfail'[k], healthyCombs', faultyCombs', MFS')
    <3>1. next \in Nat /\ \A k \in 1 .. next' - 1 : k \in 1 .. next - 1 \/ k = next
      BY <2>5 DEF Inv, TypeOK
    <3>2. \A k \in 1 .. next - 1 : Decided(Tfail[k], healthyCombs, faultyCombs, MFS)
      BY <2>5 DEF RecordInv
    <3> QED BY <1>1, <1>2, <2>4, <3>1, <3>2 DEF tfail
  <2>8. 1 .. Len(frames') = {}
    BY <2>5
  <2> QED BY <2>5, <2>6, <2>7, <2>8 DEF RecordInv
<1> QED BY <1>3, <1>4, <1>5, <1>6, <1>7, <1>8, <1>9, <1>10, <1>11 DEF Next, Work

\* A step that changes nothing keeps RecordInv.
LEMMA RecordStutter == ASSUME RecordInv, UNCHANGED vars PROVE RecordInv'
BY DEF vars, resolverVars, inputs, records, searchVars, RecordInv, tfail

-----------------------------------------------------------------------------
(***************************************************************************)
(* The theorems on what is pending.                                        *)
(***************************************************************************)

\* Inv, CallInv and RecordInv hold throughout: a chain that identify searches, a
\* schema it recurses into and a record it keeps are what later rounds assume.
THEOREM PendingInvHolds == Spec => [](Inv /\ CallInv /\ RecordInv)
<1>1. Init => CallInv /\ RecordInv
  <2> SUFFICES ASSUME Init PROVE CallInv /\ RecordInv
    OBVIOUS
  <2>1. frames = <<>> /\ pc = "idle" /\ ~conducted /\ MFC_identified = {}
    BY DEF Init, ResolverInit, Constructed
  <2>2. 1 .. Len(frames) = {} /\ 2 .. Len(frames) = {}
    BY <2>1
  <2> QED BY <2>1, <2>2 DEF CallInv, PendingStack, RecordInv
<1>2. Inv /\ CallInv /\ RecordInv /\ [Next]_vars => CallInv' /\ RecordInv'
  BY CallStep, CallStutter, RecordStep, RecordStutter
<1> QED BY <1>1, <1>2, InvHolds, PTL DEF Spec

\* identify never recurses into a schema whose status its caller knows.
THEOREM CalleesArePending == Spec => []CalleeIsPending
<1>1. CallInv => CalleeIsPending
  BY DEF CallInv, PendingStack, CalleeIsPending, depth
<1> QED BY <1>1, PendingInvHolds, PTL

\* binarySearch bisects, over a chain that is pending from end to end.
THEOREM SearchBisects == Spec => []SearchInvariant
<1>1. Inv /\ CallInv => SearchInvariant
  BY BisectionHolds
<1> QED BY <1>1, PendingInvHolds, PTL

\* Once conduct has returned, checkPending finds every combination of every
\* failing test case decided but the empty one and a test case that is its own fault.
THEOREM NoneIsLeftPending == Spec => []NothingLeftPending
<1>1. RecordInv => NothingLeftPending
  <2> SUFFICES ASSUME RecordInv, pc = "idle", conducted,
                      NEW k \in 1 .. Len(Tfail), NEW s \in Schema,
                      checkPending(getComb(s, Tfail[k]))
               PROVE  s = {} \/ getComb(s, Tfail[k]) \in MFS
    BY DEF NothingLeftPending
  <2>1. Decided(Tfail[k], healthyCombs, faultyCombs, MFS)
    BY DEF RecordInv
  <2> QED BY <2>1 DEF Decided, FaultIn, checkPending
<1> QED BY <1>1, PendingInvHolds, PTL

\* Whatever identify, binarySearch or a return changes in an activation that
\* stays on the stack settles a pending schema and unsettles none.
THEOREM RoundsSettle == Spec => EveryRoundSettles
<1> DEFINE Progress ==
        \A k \in 1 .. depth :
            k <= depth' /\ frames[k] # frames'[k] =>
                LET f == frames[k] g == frames'[k] IN
                /\ g.universe = f.universe
                /\ PendingSchemas(g.universe, g.CMinF, g.CMaxP) #
                       PendingSchemas(f.universe, f.CMinF, f.CMaxP)
                /\ PendingSchemas(g.universe, g.CMinF, g.CMaxP) \subseteq
                       PendingSchemas(f.universe, f.CMinF, f.CMaxP)
<1>1. Inv /\ CallInv /\ Next => Progress
  BY FramesSettle DEF Settles
<1> HIDE DEF Progress
<1>2. Inv /\ CallInv /\ [Next]_vars => [Progress]_vars
  BY <1>1
<1>3. Spec => [][Progress]_vars
  BY <1>2, PendingInvHolds, PTL DEF Spec
<1> QED BY <1>3 DEF Progress, EveryRoundSettles

-----------------------------------------------------------------------------
(***************************************************************************)
(* The safety part of the refinement.                                      *)
(***************************************************************************)

\* Identification reads combinations as the resolver does.
LEMMA SameCombinations ==
    /\ \A M : Abstract!HasSafeValues(M) = HasSafeValues(M)
    /\ \A A, B : Abstract!contains(A, B) = contains(A, B)
BY DEF Abstract!HasSafeValues, HasSafeValues, Abstract!ValuesAt, ValuesAt,
       Abstract!contains, contains, Abstract!Params, Params, Abstract!UNKNOWN, UNKNOWN

\* Each step of the resolver is a step of Identification or leaves what is seen
\* of it unchanged; a test case is settled by the return of its first activation.
LEMMA StepIsAbstract ==
    ASSUME Inv, [Next]_vars
    PROVE  [Abstract!Next]_(Abstract!vars)
<1>1. /\ MFS \in SUBSET Comb /\ Irredundant(MFS) /\ Len(Tfail) \in Nat
      /\ next \in 1 .. Len(Tfail) + 1
  BY InputFacts DEF Inv, TypeOK
<1>2. CASE Conduct
  <2>1. Abstract!Start
    BY <1>2, SameCombinations DEF Conduct, Abstract!Start, SafeValuesMissing, inputs
  <2> QED BY <2>1 DEF Abstract!Next
<1>3. CASE Reset
  <2>1. Abstract!Reset
    BY <1>3 DEF Reset, ResolverReset, Abstract!Reset, inputs
  <2> QED BY <2>1 DEF Abstract!Next
<1>4. CASE FinishConduct
  <2>1. next - 1 = Len(Tfail)
    BY <1>1, <1>4 DEF FinishConduct
  <2>2. Abstract!Finish
    BY <1>4, <2>1 DEF FinishConduct, Abstract!Finish, resolverVars, inputs
  <2> QED BY <2>2 DEF Abstract!Next
<1>5. CASE EndTestcase
  <2>1. /\ tfail \in Testcase /\ FrameOK(top, tfail, MFS) /\ Finished(top)
        /\ top.universe = Params /\ next <= Len(Tfail)
    BY <1>5, TopFacts DEF EndTestcase, Inv, StackOK, GoodStack, ControlOK, top, depth
  <2>2. {getComb(s, tfail) : s \in top.CMinF} = {mf \in MFS : contains(tfail, mf)}
    BY <1>1, <2>1, FinishedFrame
  <2>3. next - 1 < Len(Tfail) /\ (next + 1) - 1 = (next - 1) + 1 /\ (next - 1) + 1 = next
    BY <1>1, <2>1
  <2>4. Abstract!Examine
    BY <1>5, <2>2, <2>3, SameCombinations DEF EndTestcase, Abstract!Examine, inputs, tfail
  <2> QED BY <2>4 DEF Abstract!Next
<1>6. CASE BeginTestcase \/ Iterate \/ ReturnToCaller \/ SearchStep \/ SearchEnd
  <2>1. UNCHANGED <<inputs, conducted, MFC_identified, next>>
    BY <1>6, RecordsGrow DEF BeginTestcase, Iterate, IterationFails, TestMaximum,
       ReturnToCaller, SearchStep, SearchEnd, resolverVars
  <2>2. /\ pc # "idle" /\ pc # "thrown" /\ pc' # "idle" /\ pc' # "thrown"
    <3>1. CASE Iterate
      <4> USE DEF Iterate
      <4>1. FrameOK(top, tfail, MFS) /\ tfail \in Testcase
        BY <3>1, TopFacts
      <4>2. \E c \in LongestChains(topSchemas(top), bottomSchemas(top)) : TestMaximum(c)
        BY <1>1, <3>1, <4>1, FrameDoesNotThrow
      <4> QED BY <3>1, <4>2 DEF TestMaximum
    <3>2. CASE BeginTestcase \/ ReturnToCaller \/ SearchStep \/ SearchEnd
      BY <3>2 DEF BeginTestcase, ReturnToCaller, SearchStep, SearchEnd
    <3> QED BY <1>6, <3>1, <3>2
  <2> QED BY <2>1, <2>2 DEF Abstract!vars, inputs
<1>7. CASE UNCHANGED vars
  BY <1>7 DEF vars, resolverVars, inputs, Abstract!vars
<1> QED BY <1>2, <1>3, <1>4, <1>5, <1>6, <1>7 DEF Next, Work

\* Seen from outside, conduct of NoPendFaultResolver examines one failing test
\* case after the other and adds exactly its failure-causing combinations.
THEOREM ImplementsSafety == Spec => Abstract!Safety
<1>1. Init => Abstract!Init
  BY DEF Init, ResolverInit, Constructed, Abstract!Init
<1>2. Inv /\ [Next]_vars => [Abstract!Next]_(Abstract!vars)
  BY StepIsAbstract
<1> QED BY <1>1, <1>2, InvHolds, PTL DEF Spec, Abstract!Safety

-----------------------------------------------------------------------------
(***************************************************************************)
(* Both kinds of monotone schema sets at once: an order on schemas, what   *)
(* is extremal in it, and what it means to add one schema.                 *)
(***************************************************************************)
Extremal(S, minimal) ==
    {s \in S : \A r \in S : Redundant(s, r, minimal) => r = s}

Antichain(S, minimal) == \A r, s \in S : Redundant(s, r, minimal) => r = s

AddToSet(S, newschema, minimal) ==
    IF \E cur \in S : Redundant(newschema, cur, minimal) THEN S
    ELSE {cur \in S : ~Redundant(cur, newschema, minimal)} \cup {newschema}

\* Being redundant is a partial order.
LEMMA RedundantOrder ==
    ASSUME NEW minimal \in BOOLEAN
    PROVE  /\ \A r : Redundant(r, r, minimal)
           /\ \A r, s, u : Redundant(r, s, minimal) /\ Redundant(s, u, minimal)
                               => Redundant(r, u, minimal)
           /\ \A r, s : Redundant(r, s, minimal) /\ Redundant(s, r, minimal) => r = s
<1>1. CASE minimal
  BY <1>1 DEF Redundant
<1>2. CASE ~minimal
  BY <1>2 DEF Redundant
<1> QED BY <1>1, <1>2

\* The two kinds.
LEMMA ExtremalKinds ==
    ASSUME NEW S, NEW newschema, NEW minimal \in BOOLEAN
    PROVE  /\ Extremal(S, minimal) = IF minimal THEN Minimal(S) ELSE Maximal(S)
           /\ AddToSet(S, newschema, minimal)
                  = IF minimal THEN addMinimal(S, newschema)
                               ELSE addMaximal(S, newschema)
<1>1. CASE minimal
  BY <1>1 DEF Extremal, AddToSet, Redundant, Minimal, addMinimal
<1>2. CASE ~minimal
  BY <1>2 DEF Extremal, AddToSet, Redundant, Maximal, addMaximal
<1> QED BY <1>1, <1>2

\* Every schema of a set is redundant beside an extremal one.
LEMMA ExtremalBeyond ==
    ASSUME NEW minimal \in BOOLEAN, NEW S \in SUBSET Schema, NEW s \in S
    PROVE  \E r \in Extremal(S, minimal) : Redundant(s, r, minimal)
<1>1. S \in SUBSET SUBSET Params /\ IsFiniteSet(Params)
  BY ParamsFinite DEF Schema
<1>2. CASE minimal
  <2>1. \E r \in Minimal(S) : r \subseteq s
    BY <1>1, MinimalBelow
  <2>2. Extremal(S, minimal) = Minimal(S)
    BY <1>2, ExtremalKinds
  <2> QED BY <1>2, <2>1, <2>2 DEF Redundant
<1>3. CASE ~minimal
  <2>1. \E r \in Maximal(S) : s \subseteq r
    BY <1>1, MaximalAbove
  <2>2. Extremal(S, minimal) = Maximal(S)
    BY <1>3, ExtremalKinds
  <2> QED BY <1>3, <2>1, <2>2 DEF Redundant
<1> QED BY <1>2, <1>3

\* What is extremal in two sets is found by first looking at one of them.
LEMMA ExtremalOfUnion ==
    ASSUME NEW minimal \in BOOLEAN, NEW S \in SUBSET Schema, NEW T \in SUBSET Schema
    PROVE  Extremal(Extremal(S, minimal) \cup T, minimal) = Extremal(S \cup T, minimal)
<1> DEFINE E == Extremal(S, minimal)
<1>1. E \subseteq S
  BY DEF Extremal
<1>2. \A s \in S : \E r \in E : Redundant(s, r, minimal)
  BY ExtremalBeyond
<1>3. /\ \A r, s, u : Redundant(r, s, minimal) /\ Redundant(s, u, minimal)
                          => Redundant(r, u, minimal)
      /\ \A r, s : Redundant(r, s, minimal) /\ Redundant(s, r, minimal) => r = s
  BY RedundantOrder
<1>4. \A s \in S : (\A r \in S : Redundant(s, r, minimal) => r = s) => s \in E
  BY DEF Extremal
<1> HIDE DEF E
<1>5. ASSUME NEW s \in Extremal(S \cup T, minimal)
      PROVE  s \in Extremal(E \cup T, minimal)
  BY <1>1, <1>4, <1>5 DEF Extremal
<1>6. ASSUME NEW s \in Extremal(E \cup T, minimal)
      PROVE  s \in Extremal(S \cup T, minimal)
  <2>1. s \in E \cup T /\ \A r \in E \cup T : Redundant(s, r, minimal) => r = s
    BY DEF Extremal
  <2>2. ASSUME NEW r \in S, Redundant(s, r, minimal) PROVE r = s
    <3>1. PICK e \in E : Redundant(r, e, minimal)
      BY <1>2
    <3>2. e = s
      BY <1>3, <2>1, <2>2, <3>1
    <3> QED BY <1>3, <2>2, <3>1, <3>2
  <2> QED BY <1>1, <2>1, <2>2 DEF Extremal
<1>7. Extremal(E \cup T, minimal) = Extremal(S \cup T, minimal)
  BY <1>5, <1>6
<1> QED BY <1>7 DEF E

\* The extremal schemas make none of each other redundant, and in such a set
\* adding one schema is what AddToSet says.
LEMMA ExtremalIsAntichain ==
    ASSUME NEW S, NEW minimal
    PROVE  /\ Antichain(Extremal(S, minimal), minimal)
           /\ Antichain(S, minimal) => Extremal(S, minimal) = S
BY DEF Antichain, Extremal

\* In an antichain, adding one schema leaves what is extremal.
LEMMA AddToAntichain ==
    ASSUME NEW S, NEW newschema, NEW minimal \in BOOLEAN, Antichain(S, minimal)
    PROVE  AddToSet(S, newschema, minimal) = Extremal(S \cup {newschema}, minimal)
<1>1. /\ \A r : Redundant(r, r, minimal)
      /\ \A r, s, u : Redundant(r, s, minimal) /\ Redundant(s, u, minimal)
                          => Redundant(r, u, minimal)
      /\ \A r, s : Redundant(r, s, minimal) /\ Redundant(s, r, minimal) => r = s
  BY RedundantOrder
<1>2. CASE \E cur \in S : Redundant(newschema, cur, minimal)
  <2>1. AddToSet(S, newschema, minimal) = S
    BY <1>2 DEF AddToSet
  <2>2. PICK cur \in S : Redundant(newschema, cur, minimal)
    BY <1>2
  <2>3. ASSUME NEW s \in S PROVE s \in Extremal(S \cup {newschema}, minimal)
    <3>1. ASSUME Redundant(s, newschema, minimal) PROVE newschema = s
      <4>1. cur = s
        BY <1>1, <2>2, <3>1 DEF Antichain
      <4> QED BY <1>1, <2>2, <3>1, <4>1
    <3> QED BY <3>1 DEF Antichain, Extremal
  <2>4. ASSUME NEW s \in Extremal(S \cup {newschema}, minimal) PROVE s \in S
    BY <2>2 DEF Extremal
  <2> QED BY <2>1, <2>3, <2>4
<1>3. CASE ~ \E cur \in S : Redundant(newschema, cur, minimal)
  <2>1. AddToSet(S, newschema, minimal)
            = {cur \in S : ~Redundant(cur, newschema, minimal)} \cup {newschema}
    BY <1>3 DEF AddToSet
  <2> QED BY <1>1, <1>3, <2>1 DEF Antichain, Extremal
<1> QED BY <1>2, <1>3

\* add: the list that is left has the schemas of AddToSet, each once.
LEMMA addToFacts ==
    ASSUME NEW list \in Seq(Schema), NEW newschema \in Schema,
           NEW minimal \in BOOLEAN
    PROVE  LET output == addTo(list, newschema, minimal) IN
           /\ output \in Seq(Schema)
           /\ IsInjective(list) /\ Antichain(ToSet(list), minimal) =>
                 /\ ToSet(output) = AddToSet(ToSet(list), newschema, minimal)
                 /\ IsInjective(output)
           /\ (\A cur \in ToSet(list) : /\ ~Redundant(newschema, cur, minimal)
                                        /\ ~Redundant(cur, newschema, minimal)) =>
                 /\ ToSet(output) = ToSet(list) \cup {newschema}
                 /\ Len(output) = Len(list) + 1
<1> DEFINE stops   == {k \in DOMAIN list : Redundant(newschema, list[k], minimal)}
           stays   == [k \in DOMAIN list |-> \/ ~Redundant(list[k], newschema, minimal)
                                             \/ 1 .. k \cap stops # {}]
           rest    == Select(list, stays)
           output  == addTo(list, newschema, minimal)
           S       == ToSet(list)
<1>1. output = IF stops = {} THEN Append(rest, newschema) ELSE rest
  BY DEF addTo
<1>2. DOMAIN list = 1 .. Len(list) /\ Len(list) \in Nat
  OBVIOUS
<1>3. \A x : x \in S <=> \E k \in 1 .. Len(list) : list[k] = x
  BY ToSetMember
<1>4. /\ rest \in Seq(Schema)
      /\ ToSet(rest) = {list[k] : k \in {j \in 1 .. Len(list) : stays[j]}}
      /\ IsInjective(list) => IsInjective(rest)
      /\ (\A k \in 1 .. Len(list) : stays[k]) => Len(rest) = Len(list)
  <2>1. stays \in [1 .. Len(list) -> BOOLEAN]
    BY <1>2
  <2> HIDE DEF stays
  <2> QED BY <2>1, SelectFacts
<1>5. \A x : x \in ToSet(rest) <=> \E k \in 1 .. Len(list) : stays[k] /\ list[k] = x
  <2> HIDE DEF stays, rest
  <2> QED BY <1>4
<1>6. ASSUME NEW k \in 1 .. Len(list)
      PROVE  /\ k \in stops <=> Redundant(newschema, list[k], minimal)
             /\ stays[k] <=> \/ ~Redundant(list[k], newschema, minimal)
                             \/ 1 .. k \cap stops # {}
  BY <1>2
<1>7. \A k \in stops : k \in 1 .. Len(list)
  BY <1>2
<1> HIDE DEF stops, stays, rest, output, S
<1>8. output \in Seq(Schema)
  BY <1>1, <1>4, AppendFacts
<1>9. /\ \A r : Redundant(r, r, minimal)
      /\ \A r, s, u : Redundant(r, s, minimal) /\ Redundant(s, u, minimal)
                          => Redundant(r, u, minimal)
  BY RedundantOrder
<1>10. ASSUME IsInjective(list), Antichain(S, minimal)
       PROVE  ToSet(output) = AddToSet(S, newschema, minimal) /\ IsInjective(output)
  <2>1. CASE stops = {}
    <3>1. \A cur \in S : ~Redundant(newschema, cur, minimal)
      BY <1>3, <1>6, <2>1
    <3>2. \A x : x \in ToSet(rest) <=> x \in S /\ ~Redundant(x, newschema, minimal)
      <4>1. \A k \in 1 .. Len(list) : stays[k] <=> ~Redundant(list[k], newschema, minimal)
        BY <1>6, <2>1
      <4> QED BY <1>3, <1>5, <4>1
    <3>3. newschema \notin ToSet(rest)
      BY <1>9, <3>2
    <3>4. ToSet(output) = ToSet(rest) \cup {newschema} /\ IsInjective(output)
      BY <1>1, <1>4, <1>10, <2>1, <3>3, AppendFacts
    <3>5. AddToSet(S, newschema, minimal)
              = {cur \in S : ~Redundant(cur, newschema, minimal)} \cup {newschema}
      BY <3>1 DEF AddToSet
    <3> QED BY <3>2, <3>4, <3>5
  <2>2. CASE stops # {}
    <3>1. PICK j \in 1 .. Len(list) : Redundant(newschema, list[j], minimal)
      BY <1>6, <1>7, <2>2
    <3>2. \E cur \in S : Redundant(newschema, cur, minimal)
      BY <1>3, <3>1
    <3>3. ASSUME NEW k \in 1 .. Len(list), ~stays[k] PROVE FALSE
      <4>1. Redundant(list[k], newschema, minimal) /\ 1 .. k \cap stops = {}
        BY <1>6, <3>3
      <4>2. Redundant(list[k], list[j], minimal)
        BY <1>9, <3>1, <4>1
      <4>3. list[j] = list[k]
        BY <1>3, <1>10, <4>2 DEF Antichain
      <4>4. j = k
        BY <1>2, <1>10, <4>3 DEF IsInjective
      <4>5. k \in stops /\ k \in 1 .. k
        BY <1>6, <3>1, <4>4
      <4> QED BY <4>1, <4>5
    <3>4. \A x : x \in ToSet(rest) <=> x \in S
      BY <1>3, <1>5, <3>3
    <3>5. ToSet(output) = S /\ IsInjective(output)
      BY <1>1, <1>4, <1>10, <2>2, <3>4
    <3> QED BY <3>2, <3>5 DEF AddToSet
  <2> QED BY <2>1, <2>2
<1>11. ASSUME \A cur \in S : /\ ~Redundant(newschema, cur, minimal)
                             /\ ~Redundant(cur, newschema, minimal)
       PROVE  ToSet(output) = S \cup {newschema} /\ Len(output) = Len(list) + 1
  <2>1. \A k \in 1 .. Len(list) : k \notin stops /\ stays[k]
    BY <1>3, <1>6, <1>11
  <2>2. stops = {}
    BY <1>7, <2>1
  <2>4. ToSet(rest) = S /\ Len(rest) = Len(list)
    BY <1>3, <1>4, <1>5, <2>1
  <2>5. ToSet(Append(rest, newschema)) = S \cup {newschema}
    BY <1>4, <2>4, AppendFacts
  <2>6. Len(Append(rest, newschema)) = Len(rest) + 1
    BY <1>4
  <2> QED BY <1>1, <2>2, <2>4, <2>5, <2>6
<1> QED BY <1>8, <1>10, <1>11 DEF S, output

\* The inductive invariant of the list: it holds the extremal ones among all
\* schemas that were added, each once.
ListInv ==
    /\ schemas \in Seq(Schema)
    /\ isMinimal \in BOOLEAN
    /\ added \subseteq Schema
    /\ IsInjective(schemas)
    /\ Listed = Extremal(added, isMinimal)

\* One add to the list adds the schema to the set that the list stands for.
LEMMA addStep ==
    ASSUME ListInv, NEW newschema \in Schema, add(newschema)
    PROVE  /\ ListInv'
           /\ ToSet(schemas') = AddToSet(Listed, newschema, isMinimal)
<1> DEFINE S == ToSet(schemas)
<1>1. /\ schemas \in Seq(Schema) /\ isMinimal \in BOOLEAN /\ added \subseteq Schema
      /\ IsInjective(schemas) /\ S = Extremal(added, isMinimal)
  BY DEF ListInv, Listed
<1>2. /\ schemas' = addTo(schemas, newschema, isMinimal)
      /\ added' = added \cup {newschema} /\ isMinimal' = isMinimal
  BY DEF add
<1> HIDE DEF S
<1>3. Antichain(S, isMinimal)
  BY <1>1, ExtremalIsAntichain
<1>4. /\ schemas' \in Seq(Schema) /\ IsInjective(schemas')
      /\ ToSet(schemas') = AddToSet(S, newschema, isMinimal)
  BY <1>1, <1>2, <1>3, addToFacts DEF S
<1>5. AddToSet(S, newschema, isMinimal) = Extremal(S \cup {newschema}, isMinimal)
  BY <1>1, <1>3, AddToAntichain
<1>6. Extremal(S \cup {newschema}, isMinimal) = Extremal(added \cup {newschema}, isMinimal)
  <2> DEFINE T == {newschema}
  <2>1. T \in SUBSET Schema /\ added \in SUBSET Schema /\ isMinimal \in BOOLEAN
    BY <1>1
  <2> HIDE DEF T
  <2>2. Extremal(Extremal(added, isMinimal) \cup T, isMinimal)
          = Extremal(added \cup T, isMinimal)
    BY <2>1, ExtremalOfUnion
  <2> USE DEF T
  <2> QED BY <1>1, <2>2
<1> QED BY <1>1, <1>2, <1>4, <1>5, <1>6 DEF ListInv, Listed, S

\* The invariant holds throughout.
THEOREM ListInvHolds == ListSpec => []ListInv
<1>1. ListInit => ListInv
  <2> SUFFICES ASSUME ListInit PROVE ListInv
    OBVIOUS
  <2>1. Extremal({}, isMinimal) = {}
    BY DEF Extremal
  <2>2. /\ schemas = <<>> /\ isMinimal \in BOOLEAN /\ added = {}
        /\ ToSet(<<>>) = {} /\ IsInjective(<<>>)
    BY ToSetOfEmpty DEF ListInit
  <2>3. <<>> \in Seq(Schema) /\ {} \subseteq Schema
    OBVIOUS
  <2>4. IsInjective(schemas) /\ ToSet(schemas) = Extremal(added, isMinimal)
    BY <2>1, <2>2, Zenon
  <2> QED BY <2>2, <2>3, <2>4 DEF ListInv, Listed
<1>2. ListInv /\ [ListNext]_listVars => ListInv'
  <2> SUFFICES ASSUME ListInv, [ListNext]_listVars PROVE ListInv'
    OBVIOUS
  <2>1. CASE ListNext
    BY <2>1, addStep DEF ListNext
  <2>2. CASE UNCHANGED listVars
    BY <2>2 DEF listVars, ListInv, Listed
  <2> QED BY <2>1, <2>2
<1> QED BY <1>1, <1>2, PTL DEF ListSpec

\* The linked list of MonotoneSchemaSet stands for the extremal schemas.
THEOREM ListHoldsExtremal == ListSpec => []ListIsExtremal
<1>1. ListInv => ListIsExtremal
  BY ExtremalKinds DEF ListInv, ListIsExtremal
<1> QED BY <1>1, ListInvHolds, PTL

\* Each call of add does to the list what SchemaSets says of a set.
THEOREM ListAddsLikeASet == ListSpec => AddIsSetAdd
<1>1. ASSUME ListInv, [ListNext]_listVars
      PROVE  [\E newschema \in Schema :
                 /\ added' = added \cup {newschema}
                 /\ ToSet(schemas') = IF isMinimal THEN addMinimal(Listed, newschema)
                                                   ELSE addMaximal(Listed, newschema)]_listVars
  <2>1. CASE ListNext
    <3>1. PICK newschema \in Schema : add(newschema)
      BY <2>1 DEF ListNext
    <3>2. ToSet(schemas') = AddToSet(Listed, newschema, isMinimal)
      BY <1>1, <3>1, addStep
    <3>3. isMinimal \in BOOLEAN
      BY <1>1 DEF ListInv
    <3>4. AddToSet(Listed, newschema, isMinimal)
              = IF isMinimal THEN addMinimal(Listed, newschema)
                             ELSE addMaximal(Listed, newschema)
      BY <3>3, ExtremalKinds
    <3>5. added' = added \cup {newschema}
      BY <3>1 DEF add
    <3> QED BY <3>2, <3>4, <3>5
  <2>2. CASE UNCHANGED listVars
    BY <2>2
  <2> QED BY <1>1, <2>1, <2>2
<1> QED BY <1>1, ListInvHolds, PTL DEF ListSpec, AddIsSetAdd

\* The loop of complement: run[k] is the new list after k schemas.
AddsComplements(run, list, universe, minimal) ==
    /\ run[0] = <<>>
    /\ \A k \in 1 .. Len(list) : run[k] = addTo(run[k - 1], universe \ list[k], ~minimal)

\* There is such a function, and the definition takes its last value.
LEMMA complementOfSteps ==
    ASSUME NEW list \in Seq(Schema), NEW universe \in Schema,
           NEW minimal \in BOOLEAN
    PROVE  \E run \in [0 .. Len(list) -> Seq(Schema)] :
               /\ AddsComplements(run, list, universe, minimal)
               /\ complementOf(list, universe, minimal) = run[Len(list)]
<1> DEFINE end == Len(list)
           S == Seq(Schema)
           Body(k, v) == addTo(v, universe \ list[k], ~minimal)
           Def(h, k) == IF k = 0 THEN <<>> ELSE addTo(h[k - 1], universe \ list[k], ~minimal)
           step == [j \in Nat |-> [v \in S |-> IF j < end THEN Body(j + 1, v) ELSE v]]
<1>1. end \in Nat
  OBVIOUS
<1>2. <<>> \in S
  OBVIOUS
<1>3. \A k \in 1 .. end : \A v \in S : Body(k, v) \in S
  <2>1. \A k \in 1 .. end : universe \ list[k] \in Schema
    BY DEF Schema
  <2> DEFINE other == ~minimal
  <2>2. other \in BOOLEAN
    BY Zenon
  <2> HIDE DEF other
  <2>3. \A k \in 1 .. end : \A v \in Seq(Schema) :
            addTo(v, universe \ list[k], other) \in Seq(Schema)
    BY <2>1, <2>2, addToFacts
  <2> QED BY <2>3 DEF other
<1>4. \A h1, k : Def(h1, k) = IF k = 0 THEN <<>> ELSE Body(k, h1[k - 1])
  OBVIOUS
<1>5. complementOf(list, universe, minimal) = (CHOOSE g : g = [k \in 0 .. end |-> Def(g, k)])[end]
  BY DEF complementOf
<1>6. ASSUME NEW run
      PROVE  AddsComplements(run, list, universe, minimal)
                 <=> run[0] = <<>> /\ \A k \in 1 .. end : run[k] = Body(k, run[k - 1])
  BY DEF AddsComplements
<1>7. PICK run \in [0 .. end -> S] : /\ run[0] = <<>>
                                     /\ \A k \in 1 .. end : run[k] = Body(k, run[k - 1])
                                     /\ complementOf(list, universe, minimal) = run[end]
  <2> HIDE DEF end, S, Body, Def
  <2>1. step \in [Nat -> [S -> S]]
    <3>1. \A j \in Nat : \A v \in S : (IF j < end THEN Body(j + 1, v) ELSE v) \in S
      <4>1. \A j \in Nat : j < end => j + 1 \in 1 .. end
        BY <1>1
      <4> QED BY <1>3, <4>1
    <3> QED BY <3>1
  <2>2. \A j \in Nat : \A v \in S : step[j][v] = IF j < end THEN Body(j + 1, v) ELSE v
    OBVIOUS
  <2> HIDE DEF step
  <2>3. PICK h \in [0 .. end -> S] : Stepwise(h, <<>>, step, end)
    BY <1>1, <1>2, <2>1, StepwiseFunction
  <2>4. \A k \in 1 .. end : /\ k - 1 \in Nat /\ k - 1 \in 0 .. end /\ k - 1 < end
                            /\ (k - 1) + 1 = k /\ k \in 0 .. end /\ k # 0
    BY <1>1
  <2>5. h[0] = <<>> /\ \A k \in 1 .. end : h[k] = Body(k, h[k - 1])
    <3>1. h[0] = <<>> /\ \A k \in 1 .. end : h[k] = step[k - 1][h[k - 1]]
      BY <2>3 DEF Stepwise
    <3>2. ASSUME NEW k \in 1 .. end PROVE h[k] = Body(k, h[k - 1])
      <4>1. h[k - 1] \in S
        BY <2>3, <2>4
      <4>2. step[k - 1][h[k - 1]] = Body((k - 1) + 1, h[k - 1])
        BY <2>2, <2>4, <4>1
      <4> QED BY <2>4, <3>1, <4>2
    <3> QED BY <3>1, <3>2
  <2>6. h = [k \in 0 .. end |-> Def(h, k)]
    <3>1. \A k \in 0 .. end : k = 0 \/ k \in 1 .. end
      BY <1>1
    <3>2. \A k \in 0 .. end : h[k] = Def(h, k)
      BY <1>4, <2>5, <3>1
    <3> QED BY <3>2
  <2> DEFINE res == CHOOSE g : g = [k \in 0 .. end |-> Def(g, k)]
  <2>7. res = [k \in 0 .. end |-> Def(res, k)]
    BY <2>6, Zenon
  <2>8. complementOf(list, universe, minimal) = res[end]
    BY <1>5
  <2> HIDE DEF res
  <2>9. \A k \in 0 .. end : res[k] = Def(res, k)
    BY <2>7, Zenon
  <2>10. res[0] = <<>> /\ \A k \in 1 .. end : res[k] = Body(k, res[k - 1])
    <3>1. 0 \in 0 .. end
      BY <1>1
    <3> QED BY <1>4, <2>4, <2>9, <3>1
  <2>11. res \in [0 .. end -> S]
    <3>1. StaysIn(res, S, end)
      BY <1>3, <2>4, <2>10 DEF StaysIn
    <3>2. \A k \in 0 .. end : res[k] \in S
      BY <1>1, <1>2, <2>10, <3>1, StepwiseType
    <3>3. res = [k \in 0 .. end |-> res[k]]
      BY <2>7
    <3> QED BY <3>2, <3>3
  <2> QED BY <2>8, <2>10, <2>11
<1>8. AddsComplements(run, list, universe, minimal)
  BY <1>6, <1>7
<1> QED BY <1>7, <1>8

\* complement: none of the complements makes another redundant, so all stay.
LEMMA complementOfFacts ==
    ASSUME NEW list \in Seq(Schema), NEW universe \in Schema, NEW minimal \in BOOLEAN,
           IsInjective(list), Antichain(ToSet(list), minimal),
           \A s \in ToSet(list) : s \subseteq universe
    PROVE  LET output == complementOf(list, universe, minimal) IN
           /\ ToSet(output) = complement(ToSet(list), universe)
           /\ Len(output) = Len(list)
<1> DEFINE n == Len(list)
           Upto(k) == {universe \ list[j] : j \in 1 .. k}
<1>1. PICK run \in [0 .. n -> Seq(Schema)] :
          /\ AddsComplements(run, list, universe, minimal)
          /\ complementOf(list, universe, minimal) = run[n]
  BY complementOfSteps
<1>2. /\ n \in Nat /\ DOMAIN list = 1 .. n
      /\ \A x : x \in ToSet(list) <=> \E k \in 1 .. n : list[k] = x
      /\ \A k \in 1 .. n : list[k] \in Schema /\ universe \ list[k] \in Schema
  <2>1. \A k \in 1 .. n : list[k] \in Schema
    OBVIOUS
  <2>2. \A k \in 1 .. n : universe \ list[k] \in Schema
    BY <2>1 DEF Schema
  <2> QED BY <2>1, <2>2, ToSetMember
<1>3. /\ run[0] = <<>>
      /\ \A k \in 1 .. n : run[k] = addTo(run[k - 1], universe \ list[k], ~minimal)
  BY <1>1 DEF AddsComplements
<1>4. \A k \in 0 .. n : run[k] \in Seq(Schema)
  BY <1>1
<1>5. ~minimal \in BOOLEAN
  OBVIOUS
<1> HIDE DEF n
<1> DEFINE Good(k) == ToSet(run[k]) = Upto(k) /\ Len(run[k]) = k
           A == {k \in Nat : k <= n => Good(k)}
<1>6. 0 \in A
  <2>1. Upto(0) = {} /\ Len(<<>>) = 0
    OBVIOUS
  <2> HIDE DEF Upto
  <2> QED BY <1>3, <2>1, ToSetOfEmpty
<1>7. ASSUME NEW k \in A PROVE k + 1 \in A
  <2> SUFFICES ASSUME k + 1 <= n PROVE Good(k + 1)
    OBVIOUS
  <2> DEFINE new == universe \ list[k + 1]
  <2>1. k \in 0 .. n /\ k + 1 \in 1 .. n /\ (k + 1) - 1 = k /\ Good(k)
    <3> HIDE DEF Good
    <3>1. k \in Nat /\ k <= n
      BY <1>2
    <3> QED BY <1>2, <3>1
  <2>2. run[k + 1] = addTo(run[k], new, ~minimal) /\ run[k] \in Seq(Schema) /\ new \in Schema
    BY <1>2, <1>3, <1>4, <2>1
  <2>3. \A j \in 1 .. k : j \in 1 .. n /\ j # k + 1
    BY <1>2, <2>1
  <2>4. Upto(k + 1) = Upto(k) \cup {new}
    <3>1. \A j : j \in 1 .. k + 1 <=> j \in 1 .. k \/ j = k + 1
      BY <2>1
    <3> QED BY <3>1
  <2>5. ASSUME NEW cur \in Upto(k)
        PROVE  ~Redundant(new, cur, ~minimal) /\ ~Redundant(cur, new, ~minimal)
    <3>1. PICK j \in 1 .. k : cur = universe \ list[j]
      BY <2>5
    <3>2. /\ j \in 1 .. n /\ j # k + 1 /\ list[j] \in ToSet(list)
          /\ list[k + 1] \in ToSet(list)
      BY <1>2, <2>1, <2>3
    <3>3. list[j] # list[k + 1]
      BY <1>2, <2>1, <3>2 DEF IsInjective
    <3>4. ~Redundant(list[j], list[k + 1], minimal) /\ ~Redundant(list[k + 1], list[j], minimal)
      BY <3>2, <3>3 DEF Antichain
    <3>5. list[j] \subseteq universe /\ list[k + 1] \subseteq universe
      BY <3>2
    <3> DEFINE a == list[j]
               b == list[k + 1]
    <3>6. /\ a \subseteq universe /\ b \subseteq universe
          /\ ~Redundant(a, b, minimal) /\ ~Redundant(b, a, minimal)
          /\ cur = universe \ a /\ new = universe \ b
      BY <3>1, <3>4, <3>5
    <3> HIDE DEF a, b, new
    <3>7. /\ ~Redundant(universe \ a, universe \ b, ~minimal)
          /\ ~Redundant(universe \ b, universe \ a, ~minimal)
      <4>1. CASE minimal
        BY <3>6, <4>1 DEF Redundant
      <4>2. CASE ~minimal
        BY <3>6, <4>2 DEF Redundant
      <4> QED BY <4>1, <4>2
    <3> QED BY <3>6, <3>7
  <2> HIDE DEF Upto, new
  <2>6. \A cur \in ToSet(run[k]) : /\ ~Redundant(new, cur, ~minimal)
                                   /\ ~Redundant(cur, new, ~minimal)
    BY <2>1, <2>5
  <2>7. /\ ToSet(addTo(run[k], new, ~minimal)) = ToSet(run[k]) \cup {new}
        /\ Len(addTo(run[k], new, ~minimal)) = Len(run[k]) + 1
    <3> DEFINE other == ~minimal
               before == run[k]
    <3>1. /\ other \in BOOLEAN /\ before \in Seq(Schema) /\ new \in Schema
          /\ \A cur \in ToSet(before) : ~Redundant(new, cur, other) /\ ~Redundant(cur, new, other)
      BY <1>5, <2>2, <2>6
    <3> HIDE DEF other, before
    <3>2. /\ ToSet(addTo(before, new, other)) = ToSet(before) \cup {new}
          /\ Len(addTo(before, new, other)) = Len(before) + 1
      BY <3>1, addToFacts
    <3> QED BY <3>2 DEF other, before
  <2> QED BY <2>1, <2>2, <2>4, <2>7
<1>8. A = Nat
  <2>1. A \in SUBSET Nat
    OBVIOUS
  <2> HIDE DEF A
  <2> QED BY <1>6, <1>7, <2>1, NatSetInduction
<1>9. Good(n)
  <2> HIDE DEF Good
  <2>1. n \in Nat /\ n <= n
    BY <1>2
  <2>2. n \in A
    BY <1>8, <2>1
  <2> QED BY <2>1, <2>2
<1>10. Upto(n) = complement(ToSet(list), universe)
  BY <1>2 DEF complement
<1> HIDE DEF Upto
<1>11. ToSet(run[n]) = complement(ToSet(list), universe) /\ Len(run[n]) = n
  BY <1>9, <1>10
<1>12. ToSet(run[n]) = complement(ToSet(list), universe) /\ Len(run[n]) = Len(list)
  BY <1>11 DEF n
<1> HIDE DEF Good
<1> QED BY <1>1, <1>12

\* complement(universe) drops no schema, for every list that add can build.
THEOREM ComplementsAreKept == ListSpec => []ComplementKeepsAll
<1>1. ASSUME ListInv PROVE ComplementKeepsAll
  <2> SUFFICES ASSUME NEW universe \in Schema, UNION Listed \subseteq universe
               PROVE  LET output == complementOf(schemas, universe, isMinimal)
                      IN /\ ToSet(output) = complement(Listed, universe)
                         /\ Len(output) = Len(schemas)
    BY DEF ComplementKeepsAll
  <2>1. /\ schemas \in Seq(Schema) /\ isMinimal \in BOOLEAN /\ IsInjective(schemas)
        /\ Antichain(ToSet(schemas), isMinimal)
    BY <1>1, ExtremalIsAntichain DEF ListInv, Listed
  <2>2. \A s \in ToSet(schemas) : s \subseteq universe
    BY DEF Listed
  <2> QED BY <2>1, <2>2, complementOfFacts DEF Listed
<1> QED BY <1>1, ListInvHolds, PTL

(***************************************************************************)
(* getMHS.                                                                 *)
(***************************************************************************)

\* A list that add can build in a set of minimal schemas.
MinimalList(list) ==
    /\ list \in Seq(Schema)
    /\ IsInjective(list)
    /\ Antichain(ToSet(list), TRUE)

\* What a call leaves in ans and MHS.
Calls == [ans : Schema, MHS : Seq(Schema)]

Walks == [Schema -> [Seq(Schema) -> Calls]]

\* A call has left ans as it was, and added to MHS the schemas of F, or some of them
\* without changing which ones are minimal.
Collected(call, ans, MHS, F) ==
    /\ call.ans = ans
    /\ MinimalList(call.MHS)
    /\ ToSet(call.MHS) = Minimal(ToSet(MHS) \cup F)

\* Every call collects the schemas of found[ans].
Collects(Walk, found) ==
    \A ans \in Schema : \A MHS \in Seq(Schema) :
        MinimalList(MHS) => Collected(Walk[ans][MHS], ans, MHS, found[ans])

\* What the calls for ans with each parameter of cur find.
FoundWith(found, ans, cur) == UNION {found[ans \cup {i}] : i \in cur}

\* The schemas that include ans and hit the last k schemas of the list.
HittingLast(list, k) ==
    [ans \in Schema |->
        {h \in Schema : /\ ans \subseteq h
                        /\ \A j \in Len(list) - k + 1 .. Len(list) : h \cap list[j] # {}}]

\* Supersets of what is there do not change what is minimal.
LEMMA MinimalOfUpward ==
    ASSUME NEW A, NEW R, NEW U, R \subseteq U, \A u \in U : \E r \in R : r \subseteq u
    PROVE  Minimal(A \cup R) = Minimal(A \cup U)
<1>1. ASSUME NEW s \in Minimal(A \cup R) PROVE s \in Minimal(A \cup U)
  <2>1. s \in A \cup R /\ \A r \in A \cup R : r \subseteq s => r = s
    BY DEF Minimal
  <2>2. ASSUME NEW u \in U, u \subseteq s PROVE u = s
    <3>1. PICK r \in R : r \subseteq u
      OBVIOUS
    <3>2. r = s
      BY <2>1, <2>2, <3>1
    <3> QED BY <2>2, <3>1, <3>2
  <2> QED BY <2>1, <2>2 DEF Minimal
<1>2. ASSUME NEW s \in Minimal(A \cup U) PROVE s \in Minimal(A \cup R)
  <2>1. s \in A \cup U /\ \A r \in A \cup U : r \subseteq s => r = s
    BY DEF Minimal
  <2>2. s \in A \cup R
    BY <2>1
  <2> QED BY <2>1, <2>2 DEF Minimal
<1> QED BY <1>1, <1>2

\* add, and the minimal schemas of minimal ones and more.
LEMMA MinimalListFacts ==
    /\ MinimalList(<<>>)
    /\ \A MHS : MinimalList(MHS) => ToSet(MHS) = Minimal(ToSet(MHS))
    /\ \A S, T \in SUBSET Schema : Minimal(Minimal(S) \cup T) = Minimal(S \cup T)
    /\ \A S : Antichain(Minimal(S), TRUE)
    /\ \A MHS : MinimalList(MHS) => ToSet(MHS) \in SUBSET Schema
<1>1. \A S : Extremal(S, TRUE) = Minimal(S)
  BY ExtremalKinds
<1>2. MinimalList(<<>>)
  <2>1. <<>> \in Seq(Schema)
    OBVIOUS
  <2>2. Antichain({}, TRUE)
    BY DEF Antichain
  <2> QED BY <2>1, <2>2, ToSetOfEmpty DEF MinimalList
<1>3. \A MHS : MinimalList(MHS) => ToSet(MHS) = Minimal(ToSet(MHS))
  BY <1>1, ExtremalIsAntichain DEF MinimalList
<1>4. ASSUME NEW S \in SUBSET Schema, NEW T \in SUBSET Schema
      PROVE  Minimal(Minimal(S) \cup T) = Minimal(S \cup T)
  <2>1. Extremal(Extremal(S, TRUE) \cup T, TRUE) = Extremal(S \cup T, TRUE)
    BY ExtremalOfUnion
  <2> QED BY <1>1, <2>1
<1>5. ASSUME NEW S PROVE Antichain(Minimal(S), TRUE)
  <2>1. Antichain(Extremal(S, TRUE), TRUE)
    BY ExtremalIsAntichain
  <2> QED BY <1>1, <2>1, Zenon
<1>6. \A MHS : MinimalList(MHS) => ToSet(MHS) \in SUBSET Schema
  BY ToSetMember DEF MinimalList
<1> QED BY <1>2, <1>3, <1>4, <1>5, <1>6

\* The end of the recursion adds ans, which stands for all that include it.
LEMMA addAnswerCollects ==
    ASSUME NEW list \in Seq(Schema)
    PROVE  addAnswer \in Walks /\ Collects(addAnswer, HittingLast(list, 0))
<1>1. TRUE \in BOOLEAN
  OBVIOUS
<1>2. \A ans \in Schema : \A MHS \in Seq(Schema) : addTo(MHS, ans, TRUE) \in Seq(Schema)
  BY <1>1, addToFacts
<1>3. addAnswer \in Walks
  BY <1>2 DEF addAnswer, Left, Walks, Calls
<1>4. ASSUME NEW ans \in Schema, NEW MHS \in Seq(Schema), MinimalList(MHS)
      PROVE  Collected(addAnswer[ans][MHS], ans, MHS, HittingLast(list, 0)[ans])
  <2> DEFINE output == addTo(MHS, ans, TRUE)
             above  == {h \in Schema : ans \subseteq h}
  <2>1. addAnswer[ans][MHS].ans = ans /\ addAnswer[ans][MHS].MHS = output
    BY DEF addAnswer, Left
  <2>2. HittingLast(list, 0)[ans] = above
    <3>1. Len(list) \in Nat
      OBVIOUS
    <3>2. Len(list) - 0 + 1 .. Len(list) = {}
      BY <3>1
    <3> QED BY <3>2 DEF HittingLast
  <2>3. Minimal(ToSet(MHS) \cup {ans}) = Minimal(ToSet(MHS) \cup above)
    <3>1. {ans} \subseteq above /\ \A u \in above : \E r \in {ans} : r \subseteq u
      OBVIOUS
    <3> HIDE DEF above
    <3> QED BY <3>1, MinimalOfUpward
  <2>4. /\ output \in Seq(Schema) /\ IsInjective(output)
        /\ ToSet(output) = AddToSet(ToSet(MHS), ans, TRUE)
    BY <1>1, <1>4, addToFacts DEF MinimalList
  <2>5. AddToSet(ToSet(MHS), ans, TRUE) = Extremal(ToSet(MHS) \cup {ans}, TRUE)
    BY <1>1, <1>4, AddToAntichain DEF MinimalList
  <2>6. Extremal(ToSet(MHS) \cup {ans}, TRUE) = Minimal(ToSet(MHS) \cup {ans})
    BY <1>1, ExtremalKinds
  <2> HIDE DEF output, above
  <2>7. ToSet(output) = Minimal(ToSet(MHS) \cup above)
    BY <2>3, <2>4, <2>5, <2>6
  <2>8. MinimalList(output)
    BY <2>4, <2>7, MinimalListFacts DEF MinimalList
  <2> QED BY <2>1, <2>2, <2>7, <2>8 DEF Collected
<1> QED BY <1>3, <1>4 DEF Collects

\* The loop of getMHS_recursive: run[k] is what it leaves after the parameters
\* below k.
TriesIndices(run, cur, ans, MHS, Walk) ==
    /\ run[0] = Left(ans, MHS)
    /\ \A k \in 1 .. N :
          run[k] = IF k - 1 \in cur THEN tryIndex(k - 1, run[k - 1], Walk)
                   ELSE run[k - 1]

\* One parameter is tried and taken out again.
LEMMA tryIndexType ==
    ASSUME NEW p \in Params, NEW before \in Calls, NEW Walk \in Walks
    PROVE  tryIndex(p, before, Walk) \in Calls
<1> DEFINE after == Walk[before.ans \cup {p}][before.MHS]
<1>1. before.ans \cup {p} \in Schema /\ before.MHS \in Seq(Schema)
  BY DEF Calls, Schema
<1>2. after \in Calls
  BY <1>1 DEF Walks
<1>3. after.ans \ {p} \in Schema /\ after.MHS \in Seq(Schema)
  BY <1>2 DEF Calls, Schema
<1>4. tryIndex(p, before, Walk) = Left(after.ans \ {p}, after.MHS)
  BY DEF tryIndex
<1> HIDE DEF after
<1> QED BY <1>3, <1>4 DEF Left, Calls

\* There is such a function, and the definition takes its last value.
LEMMA tryIndicesSteps ==
    ASSUME NEW cur \in Schema, NEW ans \in Schema, NEW MHS \in Seq(Schema),
           NEW Walk \in Walks
    PROVE  \E run \in [0 .. N -> Calls] :
               /\ TriesIndices(run, cur, ans, MHS, Walk)
               /\ tryIndices(cur, ans, MHS, Walk) = run[N]
<1> DEFINE end == N
           S == Calls
           start == Left(ans, MHS)
           Body(k, v) == IF k - 1 \in cur THEN tryIndex(k - 1, v, Walk) ELSE v
           Def(h, k) == IF k = 0 THEN start
                        ELSE IF k - 1 \in cur THEN tryIndex(k - 1, h[k - 1], Walk)
                        ELSE h[k - 1]
           step == [j \in Nat |-> [v \in S |-> IF j < end THEN Body(j + 1, v) ELSE v]]
<1>1. end \in Nat
  BY NAssumption
<1>2. start \in S
  BY DEF Left, Calls
<1>3. \A k \in 1 .. end : \A v \in S : Body(k, v) \in S
  <2>1. \A i \in cur : i \in Params
    BY DEF Schema
  <2>2. \A i \in Params : \A v \in Calls : tryIndex(i, v, Walk) \in Calls
    BY tryIndexType
  <2> QED BY <2>1, <2>2
<1>4. \A h1, k : Def(h1, k) = IF k = 0 THEN start ELSE Body(k, h1[k - 1])
  OBVIOUS
<1>5. tryIndices(cur, ans, MHS, Walk) = (CHOOSE g : g = [k \in 0 .. end |-> Def(g, k)])[end]
  BY DEF tryIndices
<1>6. ASSUME NEW run
      PROVE  TriesIndices(run, cur, ans, MHS, Walk)
                 <=> run[0] = start /\ \A k \in 1 .. end : run[k] = Body(k, run[k - 1])
  BY DEF TriesIndices
<1>7. PICK run \in [0 .. end -> S] : /\ run[0] = start
                                     /\ \A k \in 1 .. end : run[k] = Body(k, run[k - 1])
                                     /\ tryIndices(cur, ans, MHS, Walk) = run[end]
  <2> HIDE DEF end, S, start, Body, Def
  <2>1. step \in [Nat -> [S -> S]]
    <3>1. \A j \in Nat : \A v \in S : (IF j < end THEN Body(j + 1, v) ELSE v) \in S
      <4>1. \A j \in Nat : j < end => j + 1 \in 1 .. end
        BY <1>1
      <4> QED BY <1>3, <4>1
    <3> QED BY <3>1
  <2>2. \A j \in Nat : \A v \in S : step[j][v] = IF j < end THEN Body(j + 1, v) ELSE v
    OBVIOUS
  <2> HIDE DEF step
  <2>3. PICK h \in [0 .. end -> S] : Stepwise(h, start, step, end)
    BY <1>1, <1>2, <2>1, StepwiseFunction
  <2>4. \A k \in 1 .. end : /\ k - 1 \in Nat /\ k - 1 \in 0 .. end /\ k - 1 < end
                            /\ (k - 1) + 1 = k /\ k \in 0 .. end /\ k # 0
    BY <1>1
  <2>5. h[0] = start /\ \A k \in 1 .. end : h[k] = Body(k, h[k - 1])
    <3>1. h[0] = start /\ \A k \in 1 .. end : h[k] = step[k - 1][h[k - 1]]
      BY <2>3 DEF Stepwise
    <3>2. ASSUME NEW k \in 1 .. end PROVE h[k] = Body(k, h[k - 1])
      <4>1. h[k - 1] \in S
        BY <2>3, <2>4
      <4>2. step[k - 1][h[k - 1]] = Body((k - 1) + 1, h[k - 1])
        BY <2>2, <2>4, <4>1
      <4> QED BY <2>4, <3>1, <4>2
    <3> QED BY <3>1, <3>2
  <2>6. h = [k \in 0 .. end |-> Def(h, k)]
    <3>1. \A k \in 0 .. end : k = 0 \/ k \in 1 .. end
      BY <1>1
    <3>2. \A k \in 0 .. end : h[k] = Def(h, k)
      BY <1>4, <2>5, <3>1
    <3> QED BY <3>2
  <2> DEFINE res == CHOOSE g : g = [k \in 0 .. end |-> Def(g, k)]
  <2>7. res = [k \in 0 .. end |-> Def(res, k)]
    BY <2>6, Zenon
  <2>8. tryIndices(cur, ans, MHS, Walk) = res[end]
    BY <1>5
  <2> HIDE DEF res
  <2>9. \A k \in 0 .. end : res[k] = Def(res, k)
    BY <2>7, Zenon
  <2>10. res[0] = start /\ \A k \in 1 .. end : res[k] = Body(k, res[k - 1])
    <3>1. 0 \in 0 .. end
      BY <1>1
    <3> QED BY <1>4, <2>4, <2>9, <3>1
  <2>11. res \in [0 .. end -> S]
    <3>1. StaysIn(res, S, end)
      BY <1>3, <2>4, <2>10 DEF StaysIn
    <3>2. \A k \in 0 .. end : res[k] \in S
      BY <1>1, <1>2, <2>10, <3>1, StepwiseType
    <3>3. res = [k \in 0 .. end |-> res[k]]
      BY <2>7
    <3> QED BY <3>2, <3>3
  <2> QED BY <2>8, <2>10, <2>11
<1>8. TriesIndices(run, cur, ans, MHS, Walk)
  BY <1>6, <1>7
<1> QED BY <1>7, <1>8

\* One level of the recursion is a function of ans and MHS again.
LEMMA hitSchemaType ==
    ASSUME NEW cur \in Schema, NEW Walk \in Walks
    PROVE  hitSchema(cur, Walk) \in Walks
<1>1. ASSUME NEW ans \in Schema, NEW MHS \in Seq(Schema)
      PROVE  (IF ans \cap cur # {} THEN Walk[ans][MHS]
              ELSE tryIndices(cur, ans, MHS, Walk)) \in Calls
  <2>1. Walk[ans][MHS] \in Calls
    BY DEF Walks
  <2>2. tryIndices(cur, ans, MHS, Walk) \in Calls
    <3>1. PICK run \in [0 .. N -> Calls] : tryIndices(cur, ans, MHS, Walk) = run[N]
      BY tryIndicesSteps
    <3>2. N \in 0 .. N
      BY NAssumption
    <3> QED BY <3>1, <3>2
  <2> QED BY <2>1, <2>2
<1> QED BY <1>1 DEF hitSchema, Walks

\* The loop collects what the calls for each parameter of cur find.
LEMMA tryIndicesFacts ==
    ASSUME NEW cur \in Schema, NEW ans \in Schema, NEW MHS \in Seq(Schema),
           NEW Walk \in Walks, NEW found \in [Schema -> SUBSET Schema],
           Collects(Walk, found), MinimalList(MHS), ans \cap cur = {}
    PROVE  Collected(tryIndices(cur, ans, MHS, Walk), ans, MHS, FoundWith(found, ans, cur))
<1> DEFINE B == ToSet(MHS)
           Upto(k) == UNION {found[ans \cup {i}] : i \in {j \in cur : j < k}}
<1>1. PICK run \in [0 .. N -> Calls] :
          /\ TriesIndices(run, cur, ans, MHS, Walk)
          /\ tryIndices(cur, ans, MHS, Walk) = run[N]
  BY tryIndicesSteps
<1>2. /\ run[0] = Left(ans, MHS)
      /\ \A k \in 1 .. N : run[k] = IF k - 1 \in cur THEN tryIndex(k - 1, run[k - 1], Walk)
                                    ELSE run[k - 1]
  BY <1>1 DEF TriesIndices
<1>3. N \in Nat /\ \A k \in 0 .. N : run[k] \in Calls
  BY <1>1, NAssumption
<1>4. /\ cur \subseteq Params /\ \A i \in cur : i \in 0 .. N - 1
      /\ \A i \in cur : ans \cup {i} \in Schema
  BY DEF Schema, Params
<1>5. B \in SUBSET Schema /\ B = Minimal(B)
  BY MinimalListFacts
<1>6. \A k : Upto(k) \in SUBSET Schema
  <2>1. \A i \in cur : found[ans \cup {i}] \in SUBSET Schema
    BY <1>4
  <2> QED BY <2>1
<1>7. \A k, x : x \in Upto(k) <=> \E i \in cur : i < k /\ x \in found[ans \cup {i}]
  OBVIOUS
<1> HIDE DEF B, Upto
<1> DEFINE Good(k) == /\ run[k].ans = ans
                      /\ MinimalList(run[k].MHS)
                      /\ ToSet(run[k].MHS) = Minimal(B \cup Upto(k))
           A == {k \in Nat : k <= N => Good(k)}
<1>8. 0 \in A
  <2>1. Upto(0) = {}
    <3>1. \A i \in cur : ~(i < 0)
      BY <1>3, <1>4
    <3> QED BY <1>7, <3>1
  <2>2. B \cup Upto(0) = B
    BY <2>1
  <2>3. run[0].ans = ans /\ run[0].MHS = MHS
    BY <1>2 DEF Left
  <2> QED BY <1>5, <2>2, <2>3 DEF B
<1>9. ASSUME NEW k \in A PROVE k + 1 \in A
  <2> SUFFICES ASSUME k + 1 <= N PROVE Good(k + 1)
    OBVIOUS
  <2>1. k \in 0 .. N /\ k + 1 \in 1 .. N /\ (k + 1) - 1 = k /\ Good(k) /\ k \in Nat
    <3> HIDE DEF Good
    <3>1. k \in Nat /\ k <= N
      BY <1>3
    <3> QED BY <1>3, <3>1
  <2>2. run[k + 1] = IF k \in cur THEN tryIndex(k, run[k], Walk) ELSE run[k]
    BY <1>2, <2>1
  <2>3. \A i \in cur : i < k + 1 <=> i < k \/ i = k
    BY <1>3, <1>4, <2>1
  <2>4. CASE k \in cur
    <3> DEFINE new == found[ans \cup {k}]
    <3>1. Upto(k + 1) = Upto(k) \cup new
      BY <1>7, <2>3, <2>4
    <3>2. ans \cup {k} \in Schema /\ new \in SUBSET Schema /\ run[k].MHS \in Seq(Schema)
      BY <1>3, <1>4, <2>1, <2>4 DEF Calls
    <3>3. /\ run[k + 1].ans = ans
          /\ MinimalList(run[k + 1].MHS)
          /\ ToSet(run[k + 1].MHS) = Minimal(ToSet(run[k].MHS) \cup new)
      <4> DEFINE call == Walk[ans \cup {k}][run[k].MHS]
      <4>1. run[k + 1] = Left(call.ans \ {k}, call.MHS)
        BY <2>1, <2>2, <2>4 DEF tryIndex
      <4>2. /\ call.ans = ans \cup {k} /\ MinimalList(call.MHS)
            /\ ToSet(call.MHS) = Minimal(ToSet(run[k].MHS) \cup new)
        BY <2>1, <3>2 DEF Collects, Collected
      <4> HIDE DEF call, new
      <4>3. run[k + 1].ans = call.ans \ {k} /\ run[k + 1].MHS = call.MHS
        BY <4>1 DEF Left
      <4>4. (ans \cup {k}) \ {k} = ans
        BY <2>4
      <4> QED BY <4>2, <4>3, <4>4
    <3> HIDE DEF new
    <3>4. Minimal(Minimal(B \cup Upto(k)) \cup new) = Minimal((B \cup Upto(k)) \cup new)
      <4>1. B \cup Upto(k) \in SUBSET Schema
        BY <1>5, <1>6
      <4> QED BY <3>2, <4>1, MinimalListFacts
    <3>5. (B \cup Upto(k)) \cup new = B \cup Upto(k + 1)
      BY <3>1
    <3> QED BY <2>1, <3>3, <3>4, <3>5
  <2>5. CASE k \notin cur
    <3>1. Upto(k + 1) = Upto(k)
      <4>1. \A i \in cur : i < k + 1 <=> i < k
        BY <2>3, <2>5
      <4>2. \A x : x \in Upto(k + 1) <=> x \in Upto(k)
        BY <1>7, <4>1
      <4> QED BY <4>2
    <3> QED BY <2>1, <2>2, <2>5, <3>1
  <2> QED BY <2>4, <2>5
<1>10. A = Nat
  <2>1. A \in SUBSET Nat
    OBVIOUS
  <2> HIDE DEF A
  <2> QED BY <1>8, <1>9, <2>1, NatSetInduction
<1>11. Good(N)
  <2> HIDE DEF Good
  <2>1. N \in A
    BY <1>3, <1>10
  <2> QED BY <1>3, <2>1
<1>12. Upto(N) = FoundWith(found, ans, cur)
  <2>1. \A i \in cur : i < N
    BY <1>3, <1>4
  <2>2. \A x : x \in FoundWith(found, ans, cur)
                   <=> \E i \in cur : x \in found[ans \cup {i}]
    BY DEF FoundWith
  <2> QED BY <1>7, <2>1, <2>2
<1>13. Collected(run[N], ans, MHS, FoundWith(found, ans, cur))
  BY <1>11, <1>12 DEF B, Collected
<1> QED BY <1>1, <1>13

\* One level of the recursion: to hit the schemas that are left is to hit the
\* first of them, by a parameter of ans or by a new one, and the others.
LEMMA hitSchemaCollects ==
    ASSUME NEW list \in Seq(Schema), NEW k \in 1 .. Len(list), NEW Walk \in Walks,
           Collects(Walk, HittingLast(list, k - 1))
    PROVE  Collects(hitSchema(list[Len(list) - k + 1], Walk), HittingLast(list, k))
<1> DEFINE n == Len(list)
           cur == list[n - k + 1]
           before == HittingLast(list, k - 1)
           after  == HittingLast(list, k)
           rest == n - (k - 1) + 1 .. n
<1>1. n \in Nat /\ n - k + 1 \in 1 .. n /\ cur \in Schema
  OBVIOUS
<1>2. \A j : j \in n - k + 1 .. n <=> j = n - k + 1 \/ j \in rest
  OBVIOUS
<1>3. ASSUME NEW ans \in Schema
      PROVE  /\ \A h : h \in after[ans] <=> /\ h \in Schema /\ ans \subseteq h
                                            /\ \A j \in n - k + 1 .. n : h \cap list[j] # {}
             /\ \A h : h \in before[ans] <=>
                          /\ h \in Schema /\ ans \subseteq h
                          /\ \A j \in rest : h \cap list[j] # {}
  BY DEF HittingLast
<1>4. before \in [Schema -> SUBSET Schema]
  BY DEF HittingLast
<1>5. ASSUME NEW ans \in Schema
      PROVE  \A h : h \in after[ans] <=> /\ h \in Schema /\ ans \subseteq h /\ h \cap cur # {}
                                         /\ \A j \in rest : h \cap list[j] # {}
  <2> DEFINE all == n - k + 1 .. n
             first == n - k + 1
  <2>1. \A j : j \in all <=> j = first \/ j \in rest
    BY <1>2
  <2>2. /\ \A h : h \in after[ans] <=> /\ h \in Schema /\ ans \subseteq h
                                        /\ \A j \in all : h \cap list[j] # {}
        /\ cur = list[first]
    BY <1>3, <1>5
  <2> HIDE DEF all, first, rest, n, cur, after
  <2> QED BY <2>1, <2>2
<1> HIDE DEF n, cur, before, after, rest
<1>6. ASSUME NEW ans \in Schema, ans \cap cur # {} PROVE after[ans] = before[ans]
  <2>1. \A h : ans \subseteq h => h \cap cur # {}
    BY <1>6
  <2>2. \A h : h \in after[ans] <=> h \in before[ans]
    BY <1>3, <1>5, <2>1
  <2>3. after[ans] \subseteq Schema /\ before[ans] \subseteq Schema
    BY <1>3
  <2> QED BY <2>2, <2>3
<1>7. ASSUME NEW ans \in Schema
      PROVE  after[ans] = FoundWith(before, ans, cur) \/ ans \cap cur # {}
  <2> SUFFICES ASSUME ans \cap cur = {}
               PROVE  after[ans] = FoundWith(before, ans, cur)
    OBVIOUS
  <2>1. \A i \in cur : ans \cup {i} \in Schema
    BY <1>1 DEF Schema
  <2>2. \A h : h \in FoundWith(before, ans, cur)
                   <=> \E i \in cur : h \in before[ans \cup {i}]
    BY DEF FoundWith
  <2>3. ASSUME NEW h \in after[ans] PROVE \E i \in cur : h \in before[ans \cup {i}]
    <3>1. PICK i \in cur : i \in h
      BY <1>5, <2>3
    <3>2. ans \cup {i} \subseteq h
      BY <1>5, <3>1
    <3> QED BY <1>3, <1>5, <2>1, <3>1, <3>2
  <2>4. ASSUME NEW h, NEW i \in cur, h \in before[ans \cup {i}] PROVE h \in after[ans]
    <3>1. h \in Schema /\ ans \cup {i} \subseteq h
      BY <1>3, <2>1, <2>4
    <3>2. \A j \in rest : h \cap list[j] # {}
      BY <1>3, <2>1, <2>4
    <3>3. ans \subseteq h /\ h \cap cur # {}
      BY <3>1
    <3> QED BY <1>5, <3>1, <3>2, <3>3
  <2> QED BY <2>2, <2>3, <2>4
<1>8. ASSUME NEW ans \in Schema, NEW MHS \in Seq(Schema), MinimalList(MHS)
      PROVE  Collected(hitSchema(cur, Walk)[ans][MHS], ans, MHS, after[ans])
  <2>1. Collects(Walk, before)
    BY DEF before
  <2>2. hitSchema(cur, Walk)[ans][MHS]
            = IF ans \cap cur # {} THEN Walk[ans][MHS] ELSE tryIndices(cur, ans, MHS, Walk)
    BY DEF hitSchema
  <2>3. CASE ans \cap cur # {}
    <3>1. after[ans] = before[ans]
      BY <1>6, <2>3
    <3> QED BY <1>8, <2>1, <2>2, <2>3, <3>1 DEF Collects
  <2>4. CASE ans \cap cur = {}
    <3>1. after[ans] = FoundWith(before, ans, cur)
      BY <1>7, <2>4
    <3>2. Collected(tryIndices(cur, ans, MHS, Walk), ans, MHS, FoundWith(before, ans, cur))
      <4>1. cur \in Schema /\ before \in [Schema -> SUBSET Schema] /\ MinimalList(MHS)
        BY <1>1, <1>4, <1>8
      <4> QED BY <2>1, <2>4, <4>1, tryIndicesFacts
    <3> QED BY <2>2, <2>4, <3>1, <3>2
  <2> QED BY <2>3, <2>4
<1>9. Collects(hitSchema(cur, Walk), after)
  BY <1>8 DEF Collects
<1> QED BY <1>9 DEF cur, after, n

\* The recursion of getMHS: run[k] is the call for the last k schemas.
HitsSchemas(run, list) ==
    /\ run[0] = addAnswer
    /\ \A k \in 1 .. Len(list) : run[k] = hitSchema(list[Len(list) - k + 1], run[k - 1])

\* There is such a function, and the definition takes its last value.
LEMMA getMHS_recursiveSteps ==
    ASSUME NEW list \in Seq(Schema)
    PROVE  \E run \in [0 .. Len(list) -> Walks] :
               HitsSchemas(run, list) /\ getMHS_recursive(list)[Len(list)] = run[Len(list)]
<1> DEFINE end == Len(list)
           S == Walks
           Body(k, v) == hitSchema(list[Len(list) - k + 1], v)
           Def(h, k) == IF k = 0 THEN addAnswer ELSE hitSchema(list[Len(list) - k + 1], h[k - 1])
           step == [j \in Nat |-> [v \in S |-> IF j < end THEN Body(j + 1, v) ELSE v]]
<1>1. end \in Nat
  OBVIOUS
<1>2. addAnswer \in S
  BY addAnswerCollects
<1>3. \A k \in 1 .. end : \A v \in S : Body(k, v) \in S
  <2>1. \A k \in 1 .. end : list[Len(list) - k + 1] \in Schema
    OBVIOUS
  <2>2. \A cur \in Schema : \A v \in Walks : hitSchema(cur, v) \in Walks
    BY hitSchemaType
  <2> QED BY <2>1, <2>2
<1>4. \A h1, k : Def(h1, k) = IF k = 0 THEN addAnswer ELSE Body(k, h1[k - 1])
  OBVIOUS
<1>5. getMHS_recursive(list)[Len(list)] = (CHOOSE g : g = [k \in 0 .. end |-> Def(g, k)])[end]
  BY DEF getMHS_recursive
<1>6. ASSUME NEW run
      PROVE  HitsSchemas(run, list)
                 <=> run[0] = addAnswer /\ \A k \in 1 .. end : run[k] = Body(k, run[k - 1])
  BY DEF HitsSchemas
<1>7. PICK run \in [0 .. end -> S] : /\ run[0] = addAnswer
                                     /\ \A k \in 1 .. end : run[k] = Body(k, run[k - 1])
                                     /\ getMHS_recursive(list)[Len(list)] = run[end]
  <2> HIDE DEF end, S, Body, Def
  <2>1. step \in [Nat -> [S -> S]]
    <3>1. \A j \in Nat : \A v \in S : (IF j < end THEN Body(j + 1, v) ELSE v) \in S
      <4>1. \A j \in Nat : j < end => j + 1 \in 1 .. end
        BY <1>1
      <4> QED BY <1>3, <4>1
    <3> QED BY <3>1
  <2>2. \A j \in Nat : \A v \in S : step[j][v] = IF j < end THEN Body(j + 1, v) ELSE v
    OBVIOUS
  <2> HIDE DEF step
  <2>3. PICK h \in [0 .. end -> S] : Stepwise(h, addAnswer, step, end)
    BY <1>1, <1>2, <2>1, StepwiseFunction
  <2>4. \A k \in 1 .. end : /\ k - 1 \in Nat /\ k - 1 \in 0 .. end /\ k - 1 < end
                            /\ (k - 1) + 1 = k /\ k \in 0 .. end /\ k # 0
    BY <1>1
  <2>5. h[0] = addAnswer /\ \A k \in 1 .. end : h[k] = Body(k, h[k - 1])
    <3>1. h[0] = addAnswer /\ \A k \in 1 .. end : h[k] = step[k - 1][h[k - 1]]
      BY <2>3 DEF Stepwise
    <3>2. ASSUME NEW k \in 1 .. end PROVE h[k] = Body(k, h[k - 1])
      <4>1. h[k - 1] \in S
        BY <2>3, <2>4
      <4>2. step[k - 1][h[k - 1]] = Body((k - 1) + 1, h[k - 1])
        BY <2>2, <2>4, <4>1
      <4> QED BY <2>4, <3>1, <4>2
    <3> QED BY <3>1, <3>2
  <2>6. h = [k \in 0 .. end |-> Def(h, k)]
    <3>1. \A k \in 0 .. end : k = 0 \/ k \in 1 .. end
      BY <1>1
    <3>2. \A k \in 0 .. end : h[k] = Def(h, k)
      BY <1>4, <2>5, <3>1
    <3> QED BY <3>2
  <2> DEFINE res == CHOOSE g : g = [k \in 0 .. end |-> Def(g, k)]
  <2>7. res = [k \in 0 .. end |-> Def(res, k)]
    BY <2>6, Zenon
  <2>8. getMHS_recursive(list)[Len(list)] = res[end]
    BY <1>5
  <2> HIDE DEF res
  <2>9. \A k \in 0 .. end : res[k] = Def(res, k)
    BY <2>7, Zenon
  <2>10. res[0] = addAnswer /\ \A k \in 1 .. end : res[k] = Body(k, res[k - 1])
    <3>1. 0 \in 0 .. end
      BY <1>1
    <3> QED BY <1>4, <2>4, <2>9, <3>1
  <2>11. res \in [0 .. end -> S]
    <3>1. StaysIn(res, S, end)
      BY <1>3, <2>4, <2>10 DEF StaysIn
    <3>2. \A k \in 0 .. end : res[k] \in S
      BY <1>1, <1>2, <2>10, <3>1, StepwiseType
    <3>3. res = [k \in 0 .. end |-> res[k]]
      BY <2>7
    <3> QED BY <3>2, <3>3
  <2> QED BY <2>8, <2>10, <2>11
<1>8. HitsSchemas(run, list)
  BY <1>6, <1>7
<1> QED BY <1>7, <1>8

\* getMHS: what the recursion finds has the minimal hitting sets as its minimal
\* members.
LEMMA getMHSListFacts ==
    ASSUME NEW list \in Seq(Schema)
    PROVE  /\ MinimalList(getMHSList(list))
           /\ ToSet(getMHSList(list)) = getMHS(ToSet(list))
<1> DEFINE n == Len(list)
           S == ToSet(list)
           hit == HittingLast(list, n)
<1>1. PICK run \in [0 .. n -> Walks] :
          HitsSchemas(run, list) /\ getMHS_recursive(list)[n] = run[n]
  BY getMHS_recursiveSteps
<1>2. /\ run[0] = addAnswer
      /\ \A k \in 1 .. n : run[k] = hitSchema(list[n - k + 1], run[k - 1])
  BY <1>1 DEF HitsSchemas
<1>3. n \in Nat /\ \A k \in 0 .. n : run[k] \in Walks
  BY <1>1
<1>4. \A x : x \in S <=> \E k \in 1 .. n : list[k] = x
  BY ToSetMember
<1>5. S \subseteq Schema
  BY ToSetMember
<1> DEFINE Good(k) == Collects(run[k], HittingLast(list, k))
           A == {k \in Nat : k <= n => Good(k)}
<1>6. 0 \in A
  BY <1>2, addAnswerCollects
<1>7. ASSUME NEW k \in A PROVE k + 1 \in A
  <2> SUFFICES ASSUME k + 1 <= n PROVE Good(k + 1)
    OBVIOUS
  <2>1. k \in 0 .. n /\ k + 1 \in 1 .. n /\ (k + 1) - 1 = k /\ Good(k)
    <3> HIDE DEF Good
    <3>1. k \in Nat /\ k <= n
      BY <1>3
    <3> QED BY <1>3, <3>1
  <2>2. run[k] \in Walks /\ run[k + 1] = hitSchema(list[n - (k + 1) + 1], run[k])
    BY <1>2, <1>3, <2>1
  <2>3. Collects(run[k], HittingLast(list, (k + 1) - 1))
    BY <2>1
  <2>4. Collects(hitSchema(list[n - (k + 1) + 1], run[k]), HittingLast(list, k + 1))
    BY <2>1, <2>2, <2>3, hitSchemaCollects
  <2> QED BY <2>2, <2>4
<1>8. A = Nat
  <2>1. A \in SUBSET Nat
    OBVIOUS
  <2> HIDE DEF A
  <2> QED BY <1>6, <1>7, <2>1, NatSetInduction
<1>9. Collects(run[n], hit)
  <2>1. n \in A /\ n <= n
    BY <1>3, <1>8
  <2> QED BY <2>1
<1>10. hit[{}] = {h \in Schema : \A s \in S : h \cap s # {}}
  <2>1. {} \in Schema
    BY DEF Schema
  <2>2. hit[{}] = {h \in Schema : \A j \in n - n + 1 .. n : h \cap list[j] # {}}
    BY <2>1 DEF HittingLast
  <2>3. n - n + 1 .. n = 1 .. n
    BY <1>3
  <2> QED BY <1>4, <2>2, <2>3
<1> HIDE DEF n, S, hit
<1>11. Minimal(HittingSets(S)) = Minimal(hit[{}])
  <2>1. \A h : h \in HittingSets(S) <=> h \subseteq UNION S /\ \A s \in S : h \cap s # {}
    BY DEF HittingSets
  <2>2. HittingSets(S) \subseteq hit[{}]
    BY <1>5, <1>10, <2>1 DEF Schema
  <2>3. ASSUME NEW u \in hit[{}] PROVE \E r \in HittingSets(S) : r \subseteq u
    <3> DEFINE r == u \cap UNION S
    <3>1. \A s \in S : u \cap s # {} /\ r \cap s = u \cap s
      BY <1>10, <2>3
    <3>2. r \in HittingSets(S)
      BY <2>1, <3>1
    <3> QED BY <3>2
  <2>4. Minimal({} \cup HittingSets(S)) = Minimal({} \cup hit[{}])
    BY <2>2, <2>3, MinimalOfUpward
  <2>5. {} \cup HittingSets(S) = HittingSets(S) /\ {} \cup hit[{}] = hit[{}]
    OBVIOUS
  <2> QED BY <2>4, <2>5
<1>12. getMHSList(list) = run[n][{}][<<>>].MHS
  BY <1>1 DEF getMHSList, n
<1>13. /\ MinimalList(run[n][{}][<<>>].MHS)
       /\ ToSet(run[n][{}][<<>>].MHS) = Minimal(ToSet(<<>>) \cup hit[{}])
  <2>1. {} \in Schema /\ <<>> \in Seq(Schema) /\ MinimalList(<<>>)
    BY MinimalListFacts DEF Schema
  <2> QED BY <1>9, <2>1 DEF Collects, Collected
<1>14. ToSet(<<>>) \cup hit[{}] = hit[{}]
  BY ToSetOfEmpty
<1> QED BY <1>11, <1>12, <1>13, <1>14 DEF getMHS, S

\* getMHS answers the minimal hitting sets of the list, each once.
THEOREM getMHSFindsMinimal == ListSpec => []getMHSIsMinimal
<1>1. ListInv => getMHSIsMinimal
  BY getMHSListFacts DEF ListInv, getMHSIsMinimal, Listed, MinimalList
<1> QED BY <1>1, ListInvHolds, PTL
=============================================================================
