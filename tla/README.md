# A TLA+ verification of NoPend

NoPend identifies the parameter combinations that make a configurable program
fail. The repository holds one Java program with eight such algorithms (the
*fault resolvers*: NoPend itself, TRT, FIC, FICBS, SOFOT, ComFIL, IterAIFL and
BEN), and scripts that prepare the benchmark and run the evaluation.

This directory models the resolvers and the evaluation around them, checks them
with TLC on small instances, and proves their safety properties for every
instance with TLAPS.

## 1. The system

### Vocabulary

A *test case* gives every parameter a value, 0 or 1. A *combination* (`Comb`)
fixes some parameters and leaves the others `UNKNOWN`. A *schema* is a set of
parameters; together with a test case it stands for the combination of the test
case's values at those parameters. A program fails on a test case when the test
case contains one of its minimal failure-causing combinations (`MFS`). *Safe
values* are values that take part in no failure: a combination padded with them
fails only for its own reasons.

### Components, state and operations

| Component | State | Operations | Correct when |
|---|---|---|---|
| `Comb`, `Schema`, `Testcase` | values | `contains`, `getComb`, padding, `tWayComb`, `powerSet` | padding adds no failure |
| `MonotoneSchemaSet` | a linked list of schemas, none within another | `add`, `complement`, `getMHS` | it is the set of minimal (maximal) schemas added so far; `getMHS` gives the minimal hitting sets |
| `Checker` | the faults, the executed test cases | `check`, `reset` | - |
| `AbstractFaultResolver` | `conducted`, `MFC_identified`, `healthyCombs`, `faultyCombs` | `reset`, `check_with_safevalues`, `checkPending` | the records are true, also after a reset |
| NoPend | per failing test case `CMinF`, `CMaxP`, a stack of `identify` activations, a bisection | `conduct`, `identify`, `binarySearch` | the report is exact, nothing stays undecided, it ends |
| TRT | three BitSets over all 2^n schemas | `setHealthy`, `setFaulty`, three walks, `conduct` | the table is closed and true, the walks are complete, the report is exact |
| FINOVLP with FIC, FICBS | the shrinking test case, fixed parameters | `conduct`, `locateOneMFC` | it reports disjoint real faults and misses no disjoint one, and ends |
| SOFOT | a test case changed in place | `conduct` | it reports what the faults of a test case have in common |
| ComFIL | the set of candidates | `conduct` | exact for every iteration order and random padding |
| IterAIFL | the set of suspicious combinations | `conduct` | no fault is ever cleared, each is covered by the report |
| BEN | its own Tpass and Tfail, the suspicious combinations of two rounds | `conduct` | it stops, but not before the suspicious combinations are stable, and reports every fault |
| `FaultLocalization`, `CAResolver` | covering array, one resolver | constructor, `conduct`, `reset`, getters | the array shows every fault |
| `Measure` | none | `recall`, `precision`, `f1` | a report of all faults has recall 1 and a real f1 |
| `Main`, `FaultResolverFactory` | none | one run of one method | - |
| `evaluation.py` | batch directories, raw result files | start, run with timeout, save, stop | recorded results stay, a stop costs one batch, it ends |
| `json2table.py`, `mean.py` | tables of batches, average tables | read, write | averages are means over the same successful runs |
| CSV readers, printing, benchmark scripts | files | conversions | - |

Main builds one `FaultLocalization`, which reads the faults, splits a covering
array into `Tpass` and `Tfail` with the `Checker`, reads the safe values and
constructs one resolver. All its calls are on one thread, and it persists
nothing. `evaluation.py` runs Main once per batch, method and subject as a child
process with a timeout and writes one JSON file per run; the data scripts read
these files whenever the user starts them.

### What is hard here

The Java program is sequential; what is hard is the state that long sequences of
steps build up. A resolver decides 2^n schemas from few tests, so most of what
it "knows" is inferred, and one wrong inference is never tested again. The
hazards in `PROJECT.json` are of these kinds: recursion that merges partial
knowledge; loops without a bound (`while (true)`); bisection; results that may
depend on the order of a `HashSet`; marks, records and test cases that are
changed in place and reused; and sizes rounded up to a machine word. The scripts
add crashes and restarts, timeouts, files that are half written, and tables older
than what they were made from.

## 2. The modules

| Module | Models |
|---|---|
| `Combinations` | `Comb`, `Testcase`, the `Comb` side of `Schema`, `Checker.check`, `compute_safe_values` |
| `SchemaSets` | schemas as sets, `MonotoneSchemaSet` as operators on sets, `getLongestChain`, pending schemas |
| `Lists` | a loop over a `java.util.List` that keeps some of its elements |
| `MonotoneSchemaSet` | the linked list itself, checked and proved against `SchemaSets` |
| `FaultResolver` | the state and methods every resolver inherits, and the `Checker` |
| `FailingTests` | a resolver constructed for any list of failing test cases |
| `FaultLocalization` | a resolver constructed for the failing rows of a covering array: `FaultLocalization`, `CAResolver` |
| `Measure` | `Measure` in fractions |
| `ChainSearch` | the bisection over a chain, used by NoPend and TRT |
| `NoPend` | `NoPendFaultResolver`; the stack `frames` is the Java stack of `identify` |
| `TRT` | `TRTFaultResolver` and the table `TRT` |
| `Identification` | abstract: each failing test case is settled in one exact step |
| `FINOVLP`, `FIC`, `FICBS` | the loop, and the two ways to locate one combination |
| `NonOverlapping` | abstract: disjoint real faults, no disjoint one overlooked |
| `SOFOT` | `SOFOTFaultResolver`, both variants |
| `CandidateSets`, `ComFIL`, `IterAIFL` | the two resolvers that narrow down a set of candidates |
| `FINOVLPMethods`, `CandidateMethods` | the choice of the method by its name in `Main`; one run checks both resolvers of a family |
| `BEN` | `BenFaultResolver` |
| `Evaluation` | `evaluation.py`, the end of a run of `Main`, `json2table.py`, `mean.py` and `run.sh` |
| `SmallPrograms`, `MC*` | the fault sets and test cases of the instances for TLC |
| `CommonProofs` | lemmas about the shared operators: paddings, schema sets, lists, and induction over numbers |
| `NoPendProofs` | the theorems about `NoPend`, and about `MonotoneSchemaSet`, in which it keeps what it knows |
| `TRTProofs`, `CandidateProofs`, `SOFOTProofs`, `FINOVLPProofs`, `BENProofs`, `EvaluationProofs` | the theorems about the modules of those names |

In each resolver `pc` names the place in the code where control is, and an
action is one pass of a loop or one call up to the next test that is run.
`Conduct` and `Reset` are the client's calls; everything else is `Work`. `MFS`
and `Tfail` are variables that never change, so one run of TLC covers many
programs. `PROJECT.json` maps each definition to its lines.

Abstractions, and why they are sound:

* Lists that are only asked for membership (`healthyCombs`, `executedTestcase`)
  are sets. `Checker.counter` is never read.
* `getLongestChain` returns the first longest chain in list order. The models
  allow any longest chain, which includes the one the code picks.
* A `HashSet` is iterated in any order. The seed of `CMinF` may be any known
  combination.
* The recursive walks of the TRT visit schemas in some depth-first order; since
  they only collect, a walk is the set of schemas it reaches.
* `add` applied to a whole set in a loop is `Minimal` or `Maximal` of the union;
  `AddIsSetAdd` and `ListIsExtremal`, both proved, are the reason this is right.
* All benchmark models are binary, and `CSVResolver` fixes the number of values
  at 2; so do the models.
* BEN compares averages of ratios in floating point. The model compares the exact
  ratios by cross-multiplication and leaves both values open where they are
  equal, since there rounding decides. BEN's ranking is left out: the ranked list
  is poured into a `HashSet` and its order lost.
* In `Evaluation` a raw file is its status, a table the set of its cells that hold
  a number, and an average the set of batches it is the mean of, so that "is this
  average a mean over successful runs?" can be asked. Opening a file for writing
  and filling it are two steps. Reading the raw files of a batch is one step:
  they appear one after the other, and only the last can change after the
  directory was listed, so no outcome is lost.
* A mutable test case that `Checker` holds in a `HashSet` while it changes
  (FINOVLP, SOFOT) is recorded with the values it was run with. What the size of
  that `HashSet` comes to is not modelled.

Missing safe values: `computeSafeValue.py` writes no row when a parameter has
both values in some fault. The resolvers test for `null`; all models include
programs for which this is so, and the `thrown` state, which a client can leave
by `reset`.

## 3. The runs

`tlc -config X.cfg M`; the instances are in `SmallPrograms`.

| Run | Bounds | Shows |
|---|---|---|
| `nopend3` | 3 parameters, every fault set over the failing values plus conflicting ones, one or two failing tests | knowledge sound, no internal exception, bisection invariant, nothing pending at the end, `conduct` returns, NoPend implements `Identification` |
| `nopend4` | 4 parameters, seven fault sets of different shape | exact report; callees are pending in their caller; each round settles a schema |
| `trt3` | as `nopend3`, fewer pairs of tests | table closed and true, walks complete, TRT implements `Identification` |
| `trt6` (violation) | 6 parameters, the failing test is the only fault | see Findings |
| `monotone_list` | 3 parameters, any order of additions | the list agrees with the set operators |
| `finovlp4` | 4 parameters, every fault set, one or two failing tests | FIC and FICBS implement `NonOverlapping`; FICBS locates what FIC locates |
| `sofot4` | as `finovlp4` | the report is the common part of the faults; without safe values nothing unrelated |
| `candidates3` | 3 parameters, one failing test of any kind (IterAIFL: also two), up to two passing ones | ComFIL loses no fault for any order and padding and is exact; IterAIFL clears no fault, its report covers all and is minimal for every order in which `getMinimal` meets the candidates |
| `ben4` | 4 parameters, the shipped arrays (which `MCBEN4` has TLC verify to cover), every fault set with the values of any row, every strength up to the largest fault, one `reset` | the arrays show every fault; BEN stops, only when stable, with recall 1 |
| `ca3` (violation) | the same with the shipped arrays for 3 parameters | see Findings |
| `evaluation` | 2 batches, 2 methods, 1 subject, 2 keys (one of which BEN's output lacks), one stop anywhere | recorded results stay, averages are of successes, one batch lost per stop of `evaluation.py`, the scripts end |
| `evaluation_restart` (violation) | as `evaluation` | see Findings |

`TypeOK` of SOFOT, FIC, FICBS, ComFIL and IterAIFL documents the ranges of their
variables; the runs spend their properties on what is harder to see.

Why the bounds are enough to be interesting: with three parameters faults can be
nested in size, overlap, be disjoint, or fill the test case, and every antichain
of schemas is a fault set of the run, so all relations between two or three
faults occur. Four parameters are needed for `identify` to recurse twice and for
a caller to merge into a caller; there the fault sets are chosen by shape. Two
failing tests are needed for the seeding of `CMinF` from an earlier report.
Renaming the values of a parameter everywhere changes nothing, so one assignment
of failing values (`Unsafe`) stands for all. TRT has a boundary at 64 bits, that
is at 6 parameters, which `trt6` reaches with a single fault; below it `WalksComplete`
is checked at 3 parameters and proved for all numbers up to 5. ComFIL is
checked with one failing test: the candidates of two have too many iteration
orders (`ComFILTests`). IterAIFL builds its candidates from several failing tests.
BEN treats the values 0 and 1 differently (the rows of an array do, and so does
the comparison of suspiciousness values), so `ben4` takes fault sets over all 16
rows. Two batches and one stop are enough for an average over a complete and an
interrupted batch, and for tables older than the raw files; `MaxStops` bounds the
stops of both scripts together, `MaxResets` the calls of `reset` in BEN, whose lists of
test cases grow with each.

Fairness. `Work` is weakly fair: `conduct` runs on the thread of its caller until
it returns or throws and waits for nobody. `Conduct` and `Reset` are not fair: no
client has to call them. Liveness (`ConductReturns`, and the fairness part of
both abstract specifications) is checked under this assumption only. In
`Evaluation` the scripts' own steps are fair, `TimeoutExpired` among them, because
`subprocess.run` kills the child and raises; that Main ever exits by itself is
not assumed, nor that the user starts or stops anything. `BEN4.cfg` and `CA3.cfg`
allow a deadlock: BEN's model stops when the calls of `reset` are used up, or when
the constructor has thrown.

Each property of a passing run has a mutant: an altered definition, next to the
original and marked as such, under which TLC finds the property violated.

## 4. Findings

* **TRT loses a fault with six or more parameters** (`trt6`). `getMFS` clears
  the marks below `flag.size() - 1`, but the bound of `BitSet.set` is exclusive.
  From six parameters on `flag.size()` is exactly 2^n, so the mark of the whole
  test case survives and the walk turns back before reporting it. When the whole
  test case is the only fault, the report is empty.
* **The array for three parameters and strength three is incomplete** (`ca3`).
  `tables/3x2/ca.3.2^3.txt` lists 0 0 0 twice and lacks 0 0 1. For a program that
  fails exactly there, no test case fails and the constructor throws "Tfail is
  empty". No subject of `benchmark.csv` uses this file.
* **A stopped evaluation is never completed** (`evaluation_restart`). The batch
  directory is made before the runs and is the only record of the batch; after a
  restart it is skipped whole, the evaluation ends normally, and results are
  missing. `mean.py` then shows '-', its sign for a timeout, for their cells.

Remarks that no run is spent on. With one parameter (`gcc/asan`) NoPend runs no
test, and `getPendingCombProportion` rejects it as a resolver that "does not use
Assumption 1". The javadoc of FICBS's `locateOneFixedParameter` says that settled
parameters are deleted from `freeParameters`; they stay and are processed again,
to the same result (`FICBSSameAsFIC`). BEN's test for cases that have "been tested
before" compares a `MutableTestcase` with `Testcase`s, which are never equal, so
it runs known test cases again. `benchmark.csv` writes paths with backslashes and
`SUBJECTS_DICT` with slashes, so `evaluation.py` dies of a `KeyError` on the files
as they are.

The javadoc of `Checker.check` says that true means failed. The code answers true
for passed, all callers rely on that, and so do the models.

## 5. The proofs

Every theorem about a resolver holds for every number of parameters, every family
of fault sets and every list of failing test cases (BEN: every table of rows).
Assumptions: `NAssumption` (at
least one parameter), `MFSSetsAssumption` (a fault set is not empty, each fault
fixes a parameter, none contains another) and `TestListsAssumption` (at least one
failing test case; the constructor of `AbstractFaultResolver` rejects an empty
list), for BEN also `TablesAssumption` (a table is a list of rows) and
`MaxResetsAssumption`. TLC evaluates them in every run.

One fact is behind all of them, `SafePadding` (`CommonProofs`): a
combination padded with safe values fails exactly if it is faulty, which turns
answers of the checker into knowledge.

### NoPend (`NoPendProofs`)

* `ReportIsExact`: `Spec => []ExactIdentification`
* `KnowledgeIsSound`: `Spec => []KnowledgeSound`
* `ThrowsOnlyForNull`: `Spec => []ThrowsOnlyWithoutSafeValues`
* `TypeCorrect`: `Spec => []TypeOK`
* `CalleesArePending`: `Spec => []CalleeIsPending`
* `SearchBisects`: `Spec => []SearchInvariant`
* `NoneIsLeftPending`: `Spec => []NothingLeftPending`
* `RoundsSettle`: `Spec => EveryRoundSettles`, an action property
* `ImplementsSafety`: `Spec => Abstract!Safety`, the refinement of
  `Identification` without its fairness
* `InvHolds` and `PendingInvHolds`, from which the others follow.

None of the properties is inductive. `Inv` adds:

* `StackOK`: every activation on the stack has a failing universe, a nonempty
  antichain `CMinF` of faulty schemas and a nonempty set `CMaxP` of healthy
  ones, all within its universe; universes shrink along the stack and the first
  is the whole test case. Merging needs all of this: a callee's schemas are
  within the caller's universe because universes are nested.
* `SearchOK`: the interval of the bisection; healthy just below `left`, faulty at
  `result`, and a chain whose maximum is faulty, so the search always finds
  something.
* `ControlOK`, `RecordsOK`, `ReportOK`: safe values exist while work goes on, the
  records are true, and the report is exact for the test cases before `next`.

`CallInv` adds that the universe of every callee is pending in its caller and the
chain under search in the running activation; while a callee works its caller
learns nothing, so both last until the callee returns. `RecordInv` adds that
what an activation knows is on record (the whole test case and the empty schema
apart, which are never run), which makes the finished search speak about
`checkPending`.

`PendingOnChain` and `ChainIsPending` (`CommonProofs`) carry the argument: a
schema is pending exactly if it lies between a bottom schema (a minimal hitting
set of the complements of `CMaxP`) and a top schema (the complement of a minimal
hitting set of `CMinF`). So when `getLongestChain` returns null nothing is
pending, and `CMinF` is the set of minimal faulty schemas.

### The linked list (`NoPendProofs`)

The models of the resolvers treat a `MonotoneSchemaSet` as a set. These theorems
about `ListSpec`, any sequence of additions to a list of either kind, say that
this is what the code does, for every number of parameters:

* `ListHoldsExtremal`: `ListSpec => []ListIsExtremal`
* `ListAddsLikeASet`: `ListSpec => AddIsSetAdd`, an action property
* `ComplementsAreKept`: `ListSpec => []ComplementKeepsAll`
* `getMHSFindsMinimal`: `ListSpec => []getMHSIsMinimal`
* `ListInvHolds`: `ListSpec => []ListInv`, from which the others follow.

`ListInv` says that the list has the extremal ones among the schemas added, each
once. Both kinds of lists are handled together by the order `Redundant`
(`RedundantOrder`, `ExtremalOfUnion`). The step is about the early return of `add`
(`addToFacts`): a schema removed before the return would be redundant beside the one
at which the loop stops, and in an antichain without duplicates these two would be
the same.

`getMHS` is a recursion over the list with a loop over parameters in each level, both
of which write into one list and into one shared `ans`. What a call leaves in the two
is described at each level (`Collects`): in `ans` what was there, since a parameter is
set only where `ans` lacks it and is cleared after the call, and in the list the
minimal ones among the schemas that were in it and the hitting sets of the remaining
schemas that extend `ans`. The inner loop (`tryIndicesFacts`) and the level
(`hitSchemaCollects`) keep this, and at the first level with an empty `ans` it says
that the result is the set of minimal hitting sets.

### TRT (`TRTProofs`)

For every number of parameters:

* `TableIsSound`: `Spec => []TableSound`
* `SearchBisects`: `Spec => []SearchInvariant`
* `ThrowsOnlyForNull`: `Spec => []ThrowsOnlyWithoutSafeValues`
* `TypeCorrect`: `Spec => []TypeOK`
* `ReportMissesOnlyWholeTests`: what conduct reports is real, and what it misses
  are combinations that fix all of six or more parameters
* `InvHolds`, from which the others follow.

For fewer than six parameters, and by the finding `trt6` not for more:
`WalksFindAll` (`WalksComplete`), `ReportIsExact` (`ExactIdentification`) and
`ImplementsSafety` (the safety part of `Identification`).
`ReportMissesOnlyWholeTests` says what the bit that `getBottomSchemas` and
`getMFS` leave set costs at most: the walks for pending schemas never need it,
because the whole test case is faulty from the start.

`Inv` holds the table (`TableOK`): it includes the empty and the whole schema, is
closed below and above in any number of steps, and is true of the program;
`TopsOK`: the walk that opened the round found exactly the maximal pending
schemas; `SearchOK` as in NoPend, with a chain that is pending; and `ReportOK`.
The closure is what lets `setHealthy` and `setFaulty` turn back early
(`setHealthyMarksBelow`, `setFaultyMarksAbove`) and what makes the schemas between
the ends of a chain pending. That a walk reaches a schema is proved by following
its layers (`ReachedAll`): each schema of a set that the walk goes through has a
neighbour in the set one step nearer to the start. `schema2intBounds` and
`flagSizeBounds` compute where the bits of the schemas lie and so that only the
whole schema can keep its mark.

### ComFIL and IterAIFL (`CandidateProofs`)

`MethodSpec` is a run of one of the two; the theorems are about all orders of the
`HashSet` and all paddings.

* `ComFILKeepsAll`: `[]ComFILKeepsFaults`; `ComFILReportIsExact`: `[]ComFILIsExact`
* `IterAIFLKeepsAll`: `[]IterAIFLKeepsFaults`; `IterAIFLCoversAll`:
  `[]IterAIFLCoversFaults`

The invariant of ComFIL (`LoopOK`) follows its loop: the candidates left include all
real faults, those already visited are faulty, and no other candidate contains one
of them. When all are visited the candidates are minimal and faulty, hence the
real faults. IterAIFL's says that no candidate is within a test case that passed and
that every real fault is still a candidate. While `getMinimal` iterates it says that
every real fault contains one of the combinations left, and that no other contains
one of those visited: a combination deletes what contains it, visited or not, and is
itself deleted only for one that it contains.

### SOFOT (`SOFOTProofs`)

`CommonPartsReported` (`[]ReportsCommonPart`), `RelatedIsShared`
(`[]NothingUnrelated`) and `TypeCorrect`. The invariant says which of the
parameters before the current one are in `related`: with safe values exactly
those that all faults of the test case fix, without them some of these. At the end of
the loop it is the property.

### FINOVLP, FIC and FICBS (`FINOVLPProofs`)

* `FixedStaysSettled`: `[]FixedIsSettled`
* `FICLocatesNeeded`: `[]FICLocatedIsNeeded`
* `FICBSAgreesWithFIC`: `[]FICBSSameAsFIC`
* `ImplementsSafety`: the safety part of `NonOverlapping`.

`LoopInv` is about the outer loop: what is fixed are the parameters of real,
disjoint faults, and the other faults of the test case are those that use none of
them. `FICInv` is about the walk over the parameters: what is left of the test case
fails, and every parameter put back is in each fault that is left. `FICBSInv` has two
parts. `LocatedOK`: each located parameter is one that the test case cannot lose
once the free parameters below it are gone. `BisectionOK`: without the free
parameters below `left` the test case fails, without those up to `ans` it does not. That
the two methods answer the same needs what FIC keeps, a recursive function over the
parameters, followed step by step.

### BEN and the covering arrays (`BENProofs`)

For every number of parameters, fault set, strength and table of rows, good or bad:

* `TypeCorrect`: `Spec => []TypeOK`
* `ReportIsComplete`: a finished `conduct` has reported every real combination of at
  most `t` parameters that one of its failing test cases shows
* `BenInvHolds`: `Spec => []BenInv`, from which both follow.

If the tables are covering arrays (`TablesCover`: each combination of k parameters is
part of a row of the table of strength k):

* `FaultsAreShown`: `Spec => []EveryFaultIsShown`
* `RecallIsFull`: `Spec => []FullRecall`
* `StopsWhenStable`: `Spec => []StopsOnlyWhenStable`
* `RoundsAreFewer`: a round after the first that goes on has fewer suspicious
  combinations than the one before
* `CoverInvHolds`: `Spec => []CoverInv`, from which these follow.

`TablesCover` is a hypothesis and not an assumption of the module, because it is about
files: TLC finds it true of the shipped tables for four parameters (`MCBEN4`), and the
finding `ca3` is that the table of strength three for three parameters fails it, with
the consequence that `EveryFaultIsShown` is violated there.

`BenInv` says that `Tpass` holds only test cases that pass and that the suspicious
combinations are those of the two lists. Then a real combination in a failing test
case is part of a suspicious one of size `t` (`PartOfSuspicious`, by extending its
schema to `t` parameters) and is reported with the parts of that one. `CoverInv` adds
that every combination of `t` parameters is in some test case that was run. So one in
no failing test case is in a passing one, failing test cases bring no new suspicious
combination in (`SuspiciousShrinks`), and the sets of two rounds, one within the
other, are equal if their sizes are. Without `Covered` this is not so: a new failing
test case may contain a combination seen nowhere before.

### The scripts (`EvaluationProofs`)

For every number of batches, methods, subjects, keys and stops, and whatever `Main`
omits from its output:

* `ResultsStay`: `Spec => RecordedResultsStay`
* `AveragesSound`: `Spec => []AveragesAreOfSuccesses`
* `LossBounded`: `Spec => []OneBatchLostPerStop`
* `TypeCorrect`: `Spec => []TypeOK`
* `Invariance`: `Spec => []Inv`, from which the others follow.

The only assumption is `EvaluationAssumption`: the lists of `configuration.py` are
nonempty and without duplicates, and there are finitely many batches and stops.
`Inv` is again stronger than the properties:

* `EvaluatorOK`: of the current batch exactly the runs before `pos` are recorded, a
  batch without a directory has no files, and all batches before the current one
  have directories. With `EachCellOnce` (the two loops of `main_serial` reach each
  method and subject once) this says that a run is never written over a result.
* `ProcessOK`: `run.sh` is at a batch whose directory exists and at a key of the
  list whenever it opens a file. Directories are never removed, so `evaluation.py`
  running beside it cannot break this.
* `DataOK`: every number in a table, or read and not yet written, is of a run that
  succeeded. A success is a recorded result, so `RecordedStays` keeps `DataOK`
  true of tables of any age.
* `LossOK`: the incomplete batches other than the current one are at most as many
  as the stops of `evaluation.py` (`LostGrowth`: only stopping it adds one, the
  current).

### Induction, and what stays with TLC

The library's induction theorems take an operator as a parameter, which the
provers cannot instantiate. `CommonProofs` states what is needed with sets
and functions instead: `NatSetInduction` (a set of numbers with 0 and with each
number the next), `StepwiseFunction` (a function defined step by step exists, so the
`CHOOSE` behind a recursive function definition picks one) and `StepwiseType` (such
a function stays in a set). The loops of `schema2int`, of the walks of TRT, of FIC, of
`Select`, and the recursion of `getMHS` are reasoned about in this way. For this reason
recursion is written with functions throughout, and a part of a list is taken with
`Select` of `Lists`, not with `SelectSeq`, whose test is an operator.

With TLC only: liveness (`ConductReturns`, `ScriptsEnd`) and the fairness in the two
abstract specifications (`ImplementsIdentification`, `ImplementsNonOverlapping`), which
the prover does not handle. Of each, a safety part is proved: that every step of a
resolver is a step of the abstract specification, and for the loops of NoPend and BEN
that a round settles something (`RoundsSettle`, `RoundsAreFewer`). That a shipped table
covers is a fact about a file, which TLC evaluates.

## 6. Not modelled, and why

The Monte Carlo estimate of pending schemas (a random sample of `checkPending`;
`NothingLeftPending` says what every sample answers after NoPend), file readers,
printing and reflection (no state of their own), the benchmark scripts other than
`computeSafeValue.py` (conversions of text files, run once), TRT's refusal of more
than 30 parameters and integer overflow in `n_choose_k` (out of range of instances
that can be enumerated).

Most of the repository by size is under `src/main/resources`: C files of bash,
gcc, vim, linux and other projects from which the benchmark was derived, and
tables. NoPend neither compiles nor runs this C code; a subject reaches the Java
program as three CSV files. It is data here, and no part of it is modelled: a
subject is a fault set, and the models quantify over fault sets.

## 7. Plan

Done: the shared modules, NoPend with its proofs, TRT, FINOVLP with FIC and
FICBS, SOFOT, ComFIL, IterAIFL, BEN with the covering arrays and the measures,
the evaluation and data scripts with their proofs.

Proved: every invariant and every action property that a passing run checks, for
NoPend and the linked list, TRT, ComFIL, IterAIFL, SOFOT, FINOVLP, FIC, FICBS, BEN with
the covering arrays, and the scripts.

Left: liveness, once the prover supports fairness; and further shipped tables as
instances of `TablesCover`.
