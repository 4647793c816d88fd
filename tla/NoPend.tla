------------------------------- MODULE NoPend -------------------------------
(***************************************************************************)
(* FaultResolver/NoPend/NoPendFaultResolver: for each failing test case,   *)
(* identify() searches the lattice of its schemas for the minimal faulty   *)
(* ones.  Each round takes a longest chain of pending schemas, tests its   *)
(* maximum, bisects the chain when the maximum is faulty, and recurses     *)
(* into the smallest faulty schema found; the callee's minimal faulty and  *)
(* maximal healthy schemas are merged into the caller's.                   *)
(***************************************************************************)
EXTENDS ChainSearch, FailingTests

VARIABLES
    pc,      \* where control is
    next,    \* position in Tfail of the loop of conduct_with_safevalues
    frames   \* the activations of identify, the running one last

vars == <<resolverVars, pc, next, frames, searchVars>>

Frame == [universe : Schema, CMinF : SUBSET Schema, CMaxP : SUBSET Schema]

tfail == Tfail[next]
depth == Len(frames)
top   == frames[depth]

TypeOK ==
    /\ ResolverTypeOK
    /\ pc \in {"idle", "tfail", "identify", "search", "thrown"}
    /\ next \in 1 .. Len(Tfail) + 1
    /\ frames \in Seq(Frame)
    /\ SearchTypeOK

Init ==
    /\ ResolverInit
    /\ pc = "idle"
    /\ next = 1
    /\ frames = <<>>
    /\ SearchInit

-----------------------------------------------------------------------------
(***************************************************************************)
(* Client calls.  FaultLocalization calls conduct and reset between runs.  *)
(* conducted is set before the null check, so a call that throws also      *)
(* makes later calls return at once until the resolver is reset.           *)
(***************************************************************************)
Conduct ==
    /\ pc = "idle"
    /\ ~conducted
    /\ conducted' = TRUE
    /\ pc' = IF SafeValuesMissing THEN "thrown" ELSE "tfail"
    /\ next' = 1
    /\ UNCHANGED <<inputs, MFC_identified, records, frames, searchVars>>

Reset ==
    /\ pc \in {"idle", "thrown"}
    /\ ResolverReset
    /\ pc' = "idle"
    /\ frames' = <<>>
    /\ UNCHANGED <<next, searchVars>>

-----------------------------------------------------------------------------
(***************************************************************************)
(* The loop over Tfail.                                                    *)
(***************************************************************************)

\* The identified combinations that the failing test case contains.
KnownIn(t) == {mf \in MFC_identified : contains(t, mf)}

\* CMinF starts from the whole test case and the first known combination the
\* iteration of the HashSet meets; the loop breaks after it.
InitialCMinF(t) ==
    IF KnownIn(t) = {} THEN {{Params}}
    ELSE {addMinimal({Params}, schemaOf(mf)) : mf \in KnownIn(t)}

\* Mutant: the empty schema is not added to CMaxP.
BeginWithoutEmptySchema ==
    /\ pc = "tfail"
    /\ next <= Len(Tfail)
    /\ \E CMinF \in InitialCMinF(tfail) :
           frames' = << [universe |-> Params, CMinF |-> CMinF, CMaxP |-> {}] >>
    /\ pc' = "identify"
    /\ UNCHANGED <<resolverVars, next, searchVars>>

BeginTestcase ==
    /\ pc = "tfail"
    /\ next <= Len(Tfail)
    /\ \E CMinF \in InitialCMinF(tfail) :
           frames' = << [universe |-> Params, CMinF |-> CMinF, CMaxP |-> {{}}] >>
    /\ pc' = "identify"
    /\ UNCHANGED <<resolverVars, next, searchVars>>

FinishConduct ==
    /\ pc = "tfail"
    /\ next > Len(Tfail)
    /\ pc' = "idle"
    /\ UNCHANGED <<resolverVars, next, frames, searchVars>>

-----------------------------------------------------------------------------
(***************************************************************************)
(* identify(universe, CMinF, CMaxP, tfail).                                *)
(***************************************************************************)
bottomSchemas(f) == getMHS(complement(f.CMaxP, f.universe))

\* Mutant: what CMinF has learnt is not used.
StaleTopSchemas(f) == {f.universe \ {i} : i \in f.universe}

topSchemas(f) == complement(getMHS(f.CMinF), f.universe)

\* One of the calls that compute the next chain throws.
IterationThrows(f) ==
    \/ \E s \in f.CMaxP : ~(s \subseteq f.universe)
    \/ getMHSThrows(complement(f.CMaxP, f.universe))
    \/ getMHSThrows(f.CMinF)
    \/ \E s \in getMHS(f.CMinF) : ~(s \subseteq f.universe)
    \/ getLongestChainThrows(topSchemas(f), bottomSchemas(f))

\* The activation returns: a single parameter is left or no chain is pending.
Finished(f) ==
    \/ Cardinality(f.universe) = 1
    \/ ~IterationThrows(f) /\ Chains(topSchemas(f), bottomSchemas(f)) = {}

\* Mutant: the new healthy schema replaces the others.
ReplaceHealthy(s) == [frames EXCEPT ![depth].CMaxP = {s}]

\* The frames after the running activation adds a healthy schema to CMaxP.
AddHealthy(s) == [frames EXCEPT ![depth].CMaxP = addMaximal(@, s)]

\* A round of the loop that finds no chain to search because a call throws.
IterationFails ==
    /\ pc' = "thrown"
    /\ UNCHANGED <<resolverVars, next, frames, searchVars>>

\* A round that picks a chain and tests its maximum; a healthy maximum ends
\* binarySearch with null, a faulty one starts the bisection.
TestMaximum(c) ==
    LET comb == getComb(c.max, tfail) IN
    /\ check_with_safevalues(comb, tfail)
    /\ IF Healthy(comb, tfail)
       THEN /\ frames' = AddHealthy(c.max)
            /\ UNCHANGED <<pc, searchVars>>
       ELSE /\ pc' = "search"
            /\ OpenSearch(c)
            /\ UNCHANGED frames
    /\ UNCHANGED <<inputs, conducted, MFC_identified, next>>

Iterate ==
    /\ pc = "identify"
    /\ ~Finished(top)
    /\ IF IterationThrows(top)
       THEN IterationFails
       ELSE \E c \in LongestChains(topSchemas(top), bottomSchemas(top)) :
                TestMaximum(c)

\* Mutant: the callee works on copies and its result is lost.
MergeNothing(caller, f) == caller

\* The caller's frame once the callee's frame f has been merged into it.
Merge(caller, f) ==
    [universe |-> caller.universe,
     CMinF    |-> addAllMinimal(caller.CMinF, f.CMinF),
     CMaxP    |-> addAllMaximal(caller.CMaxP, f.CMaxP)]

ReturnToCaller ==
    /\ pc = "identify"
    /\ Finished(top)
    /\ depth > 1
    /\ frames' = Append(SubSeq(frames, 1, depth - 2),
                        Merge(frames[depth - 1], top))
    /\ UNCHANGED <<resolverVars, pc, next, searchVars>>

\* Mutant: the report of the previous test case is overwritten.
EndTestcaseOverwrites ==
    /\ pc = "identify"
    /\ Finished(top)
    /\ depth = 1
    /\ MFC_identified' = {getComb(s, tfail) : s \in top.CMinF}
    /\ frames' = <<>>
    /\ next' = next + 1
    /\ pc' = "tfail"
    /\ UNCHANGED <<inputs, conducted, records, searchVars>>

EndTestcase ==
    /\ pc = "identify"
    /\ Finished(top)
    /\ depth = 1
    /\ MFC_identified' = MFC_identified \cup {getComb(s, tfail) : s \in top.CMinF}
    /\ frames' = <<>>
    /\ next' = next + 1
    /\ pc' = "tfail"
    /\ UNCHANGED <<inputs, conducted, records, searchVars>>

-----------------------------------------------------------------------------
(***************************************************************************)
(* binarySearch(max, min, tfail), once max is known to be faulty.          *)
(***************************************************************************)

\* chain.get(k): min and the k highest parameters of max that min lacks.
ChainAt(c, k) ==
    c.min \cup {i \in c.max \ c.min :
                   Cardinality({j \in c.max \ c.min : j > i}) < k}

SearchStep ==
    /\ pc = "search"
    /\ StepSearch(ChainAt(chain, mid), tfail)
    /\ UNCHANGED <<inputs, conducted, MFC_identified, pc, next, frames>>

\* Mutant: the schema below the smallest faulty one is taken.
SearchEndBelow ==
    /\ pc = "search"
    /\ CloseSearch
    /\ pc' = "identify"
    /\ frames' =
          IF result = -1 THEN AddHealthy(chain.max)
          ELSE LET minfault == ChainAt(chain, result - 1)
               IN Append(frames, [universe |-> minfault,
                                  CMinF |-> {minfault}, CMaxP |-> {{}}])
    /\ UNCHANGED <<resolverVars, next>>

\* minfault is null (max joins CMaxP) or the activation recurses into it.
SearchEnd ==
    /\ pc = "search"
    /\ CloseSearch
    /\ pc' = "identify"
    /\ frames' =
          IF result = -1 THEN AddHealthy(chain.max)
          ELSE LET minfault == ChainAt(chain, result)
               IN Append(frames, [universe |-> minfault,
                                  CMinF |-> {minfault}, CMaxP |-> {{}}])
    /\ UNCHANGED <<resolverVars, next>>

-----------------------------------------------------------------------------
Work == \/ BeginTestcase
        \/ FinishConduct
        \/ Iterate
        \/ ReturnToCaller
        \/ EndTestcase
        \/ SearchStep
        \/ SearchEnd

Next == Conduct \/ Reset \/ Work

(***************************************************************************)
(* conduct runs on the thread that called it until it returns or throws;   *)
(* nothing forces a client to call conduct or reset.                       *)
(***************************************************************************)
Fairness == WF_vars(Work)

Spec == Init /\ [][Next]_vars /\ Fairness

-----------------------------------------------------------------------------
(***************************************************************************)
(* Properties.                                                             *)
(***************************************************************************)

\* Once conduct has returned, MFC_identified holds the real failure-causing
\* combinations of the failing test cases, all of them and nothing else,
\* whatever chains were chosen and whichever known combination seeded CMinF.
ExactIdentification ==
    pc = "idle" /\ conducted => MFC_identified = MFSInTfail

\* In every activation on the stack, each schema of CMinF is faulty and each
\* schema of CMaxP healthy for the current test case, and the recorded
\* healthyCombs and faultyCombs are what they say: merging a callee's result,
\* reusing an identified combination or a reset never brings in a wrong one.
KnowledgeSound ==
    /\ \A k \in 1 .. depth :
          /\ \A s \in frames[k].CMinF : IsFaulty(getComb(s, tfail))
          /\ \A s \in frames[k].CMaxP : ~IsFaulty(getComb(s, tfail))
    /\ \A comb \in healthyCombs : ~IsFaulty(comb)
    /\ \A comb \in faultyCombs : IsFaulty(comb)

\* conduct throws only for want of safe values: the guards of getMHS,
\* complement and getLongestChain against empty and foreign schemas never fire.
ThrowsOnlyWithoutSafeValues ==
    pc = "thrown" => SafeValuesMissing

\* The universe of each callee is still pending in its caller, so a recursive
\* call is never spent on a schema whose status the caller already knows.
CalleeIsPending ==
    \A k \in 2 .. depth :
        LET caller == frames[k - 1] IN
        frames[k].universe \in
            PendingSchemas(caller.universe, caller.CMinF, caller.CMaxP)

\* The bisection works on a chain that is pending from end to end in the
\* running activation, and keeps its interval: healthy below left, faulty above
\* right, result the smallest schema tested faulty.
SearchInvariant ==
    pc = "search" =>
        /\ Bisecting(ChainAt, tfail)
        /\ \A k \in 0 .. LastIndex(chain) :
              ChainAt(chain, k) \in
                  PendingSchemas(top.universe, top.CMinF, top.CMaxP)

\* After conduct, checkPending reports as undecided only the empty combination
\* and a failing test case that is itself a minimal failure-causing combination
\* (identify never tests the universe it starts from).
NothingLeftPending ==
    pc = "idle" /\ conducted =>
        \A k \in 1 .. Len(Tfail) : \A s \in Schema :
            checkPending(getComb(s, Tfail[k])) =>
                s = {} \/ getComb(s, Tfail[k]) \in MFS

\* While an activation stays on the stack its universe is fixed and what it
\* knows only grows: every change to it settles at least one pending schema.
EveryRoundSettles ==
    [][\A k \in 1 .. depth :
          k <= depth' /\ frames[k] # frames'[k] =>
              LET f == frames[k] g == frames'[k] IN
              /\ g.universe = f.universe
              /\ PendingSchemas(g.universe, g.CMinF, g.CMaxP) #
                     PendingSchemas(f.universe, f.CMinF, f.CMaxP)
              /\ PendingSchemas(g.universe, g.CMinF, g.CMaxP) \subseteq
                     PendingSchemas(f.universe, f.CMinF, f.CMaxP)]_vars

\* conduct always returns: neither the while(true) of identify, nor its
\* recursion, nor the bisection runs for ever.
ConductReturns ==
    pc = "tfail" ~> pc \in {"idle", "thrown"}

-----------------------------------------------------------------------------
(***************************************************************************)
(* The inductive invariant behind the safety properties.                   *)
(***************************************************************************)

\* What an activation of identify may rely on when t is the test case and M
\* the real faults: its universe fails, CMinF is a nonempty antichain of faulty
\* schemas and CMaxP a nonempty set of healthy ones, all within the universe.
FrameOK(f, t, M) ==
    /\ f \in Frame
    /\ Faulty(getComb(f.universe, t), M)
    /\ f.CMinF # {}
    /\ \A s \in f.CMinF : s \subseteq f.universe /\ Faulty(getComb(s, t), M)
    /\ \A r, s \in f.CMinF : r \subseteq s => r = s
    /\ f.CMaxP # {}
    /\ \A s \in f.CMaxP : s \subseteq f.universe /\ ~Faulty(getComb(s, t), M)

InputsOK ==
    /\ MFS \in MFSSets
    /\ Tfail \in TestLists
    /\ \A k \in 1 .. Len(Tfail) : ~check(Tfail[k], MFS)

ControlOK ==
    /\ pc \in {"tfail", "identify", "search"} => conducted /\ HasSafeValues(MFS)
    /\ pc = "thrown" => ~HasSafeValues(MFS)
    /\ pc \in {"identify", "search"} => next <= Len(Tfail) /\ frames # <<>>
    /\ pc \in {"idle", "tfail", "thrown"} => frames = <<>>

\* The activations of identify: the first one is on the whole test case, each
\* other one on a schema within its caller's universe.
GoodStack(fs, t, M) ==
    /\ \A k \in 1 .. Len(fs) : FrameOK(fs[k], t, M)
    /\ fs # <<>> => fs[1].universe = Params
    /\ \A k \in 1 .. Len(fs) - 1 : fs[k + 1].universe \subseteq fs[k].universe

StackOK == GoodStack(frames, Tfail[next], MFS)

SearchOK ==
    pc = "search" =>
        /\ chain.min \subseteq chain.max
        /\ chain.max \subseteq top.universe
        /\ Faulty(getComb(chain.max, tfail), MFS)
        /\ left <= right + 1
        /\ right <= LastIndex(chain)
        /\ left > 0 => ~Faulty(getComb(ChainAt(chain, left - 1), tfail), MFS)
        /\ IF result = -1
           THEN right = LastIndex(chain)
           ELSE Faulty(getComb(ChainAt(chain, result), tfail), MFS)

RecordsOK ==
    /\ \A comb \in healthyCombs : ~Faulty(comb, MFS)
    /\ \A comb \in faultyCombs : Faulty(comb, MFS)

ReportOK ==
    /\ ~conducted => MFC_identified = {}
    /\ pc \in {"tfail", "identify", "search"} =>
          MFC_identified = UNION {MFSIn(Tfail[k]) : k \in 1 .. next - 1}
    /\ pc = "idle" /\ conducted => MFC_identified = MFSInTfail

Inv ==
    /\ TypeOK
    /\ InputsOK
    /\ ControlOK
    /\ StackOK
    /\ SearchOK
    /\ RecordsOK
    /\ ReportOK

-----------------------------------------------------------------------------
(***************************************************************************)
(* The resolver implements Identification: the test cases before next are  *)
(* the examined ones.                                                      *)
(***************************************************************************)
Abstract == INSTANCE Identification WITH
    examined <- next - 1,
    status   <- CASE pc = "idle"   -> "idle"
                  [] pc = "thrown" -> "failed"
                  [] OTHER         -> "busy"

\* Seen from outside, each failing test case is settled in one exact step.
ImplementsIdentification == Abstract!Spec
=============================================================================
