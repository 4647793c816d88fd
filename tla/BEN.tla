-------------------------------- MODULE BEN --------------------------------
(***************************************************************************)
(* FaultResolver/Ben/BenFaultResolver: the t-way combinations of failing   *)
(* test cases that no passing test case contains are suspicious.  Round by *)
(* round each is run again in an environment of little suspiciousness,     *)
(* until their number stays the same.                                      *)
(*                                                                         *)
(* Tpass and Tfail are lists, because the suspiciousness of a value        *)
(* depends on how often it occurs in them; the order of their elements has *)
(* no effect.  Neither has the ranking of the suspicious combinations: the *)
(* ranked list is poured into a HashSet.                                   *)
(***************************************************************************)
EXTENDS FaultLocalization

CONSTANT MaxResets   \* how often the instance lets a client call reset

ASSUME MaxResetsAssumption == MaxResets \in Nat

VARIABLES
    pc,                   \* where control is
    suspiciousCombs,      \* the suspicious combinations of this round
    suspiciousCombs_old,  \* and of the previous one
    firstRound,           \* suspiciousCombs_old == null
    environment,          \* what components_suspiciousness decides in this round
    resets                \* the number of calls of reset

loopVars == <<pc, suspiciousCombs, suspiciousCombs_old, firstRound, environment>>
vars     == <<resolverVars, localizationVars, loopVars, resets>>

TypeOK ==
    /\ ResolverTypeOK
    /\ Tpass \in Seq(Testcase)
    /\ t \in 1 .. N
    /\ pc \in {"idle", "suspect", "decide", "generate", "thrown"}
    /\ suspiciousCombs \subseteq Comb
    /\ suspiciousCombs_old \subseteq Comb
    /\ firstRound \in BOOLEAN
    /\ environment \in [Params -> SUBSET {0, 1}]
    /\ resets \in 0 .. MaxResets

Init ==
    /\ LocalizationInit
    /\ pc = IF ConstructorThrows THEN "thrown" ELSE "idle"
    /\ suspiciousCombs = {}
    /\ suspiciousCombs_old = {}
    /\ firstRound = TRUE
    /\ environment = [i \in Params |-> {}]
    /\ resets = 0

-----------------------------------------------------------------------------
isCurrentlyHealthy(comb) ==
    \E testcase \in {Tpass[k] : k \in 1 .. Len(Tpass)} : contains(testcase, comb)

getAllSuspiciousCombinations ==
    {comb \in UNION {tWayComb(testcase, t) :
                        testcase \in {Tfail[k] : k \in 1 .. Len(Tfail)}} :
        ~isCurrentlyHealthy(comb)}

\* How many test cases of a list have value v for parameter i.
Occurrences(list, i, v) == Cardinality({k \in 1 .. Len(list) : list[k][i] = v})

\* components_suspiciousness has an entry for the component (i, v).
HasEntry(i, v) == Occurrences(Tfail, i, v) + Occurrences(Tpass, i, v) > 0

(***************************************************************************)
(* computeSuspiciousnessForOneComponent averages three ratios: u, v and w. *)
(* This is the suspiciousness of (i, 0) less that of (i, 1), multiplied by *)
(* the positive denominators.                                              *)
(***************************************************************************)
LeadOfZero(i) ==
    LET fail(v) == Occurrences(Tfail, i, v)
        all(v)  == fail(v) + Occurrences(Tpass, i, v)
        susp(v) == Cardinality({comb \in suspiciousCombs : comb[i] = v})
        fails   == Len(Tfail)
        susps   == Cardinality(suspiciousCombs)
    IN  (fail(0) - fail(1)) * susps * all(0) * all(1)
      + (fail(0) * all(1) - fail(1) * all(0)) * fails * susps
      + (susp(0) - susp(1)) * fails * all(0) * all(1)

\* The values that a new test case may give to a parameter its suspicious
\* combination leaves open: the less suspicious one, or the one that has no
\* entry.  Where the exact ratios are equal, rounding decides.
LessSuspicious(i) ==
    IF ~HasEntry(i, 0) THEN {1}
    ELSE IF ~HasEntry(i, 1) THEN {0}
    ELSE IF LeadOfZero(i) > 0 THEN {1}
    ELSE IF LeadOfZero(i) < 0 THEN {0}
    ELSE {0, 1}

\* The test cases of a round, given the value chosen for each open parameter.
\* The search for test cases that have "been tested before" looks for a
\* MutableTestcase among Testcases.  Comb.equals tells the classes apart, so it
\* finds none and what follows it is never done.
generateNewTestcases(value) ==
    {[i \in Params |-> IF comb[i] # UNKNOWN THEN comb[i] ELSE value[i]] :
        comb \in suspiciousCombs}

\* Mutant: d runs up to t exclusively.
ProperlySmallerCombs(comb) ==
    {getComb(s, comb) : s \in (SUBSET schemaOf(comb)) \ {{}, schemaOf(comb)}}

\* smallerCombs(comb, d) for d from 1 to t.
smallerCombs(comb) ==
    {getComb(s, comb) : s \in (SUBSET schemaOf(comb)) \ {{}}}

\* All test cases in a fixed order, and the elements of a set in that order.
AllTestcases ==
    [k \in 1 .. 2 ^ N |->
        [i \in Params |-> IF ((k - 1) \div 2 ^ i) % 2 = 0 THEN 0 ELSE 1]]
ListOf(set) ==
    Select(AllTestcases, [k \in DOMAIN AllTestcases |-> AllTestcases[k] \in set])

-----------------------------------------------------------------------------
Conduct ==
    /\ pc = "idle"
    /\ ~conducted
    /\ conducted' = TRUE
    /\ pc' = "suspect"
    /\ firstRound' = TRUE
    /\ UNCHANGED <<inputs, localizationVars, MFC_identified, records,
                   suspiciousCombs, suspiciousCombs_old, environment, resets>>

\* reset() does not know of the test cases that conduct has added to Tpass and
\* Tfail: they stay.
Reset ==
    /\ pc = "idle"
    /\ resets < MaxResets
    /\ resets' = resets + 1
    /\ ResolverReset
    /\ UNCHANGED <<localizationVars, loopVars>>

\* The top of the loop.
Suspect ==
    /\ pc = "suspect"
    /\ suspiciousCombs' = getAllSuspiciousCombinations
    /\ pc' = "decide"
    /\ UNCHANGED <<resolverVars, localizationVars, suspiciousCombs_old,
                   firstRound, environment, resets>>

\* Nothing is suspicious: conduct returns.
IdentifiedNothing ==
    /\ pc = "decide"
    /\ suspiciousCombs = {}
    /\ pc' = "idle"
    /\ UNCHANGED <<resolverVars, localizationVars, suspiciousCombs,
                   suspiciousCombs_old, firstRound, environment, resets>>

\* Mutant: a set that has shrunk is taken for the last one.
StableOrSmaller ==
    ~firstRound /\ Cardinality(suspiciousCombs) <= Cardinality(suspiciousCombs_old)

\* suspiciousCombs.size() == suspiciousCombs_old.size().
Stable ==
    ~firstRound /\ Cardinality(suspiciousCombs) = Cardinality(suspiciousCombs_old)

\* As many combinations are suspicious as a round ago: all their parts are
\* reported.
DeriveMFC ==
    /\ pc = "decide"
    /\ suspiciousCombs # {}
    /\ Stable
    /\ MFC_identified' = MFC_identified
           \cup UNION {smallerCombs(comb) : comb \in suspiciousCombs}
    /\ pc' = "idle"
    /\ UNCHANGED <<inputs, localizationVars, conducted, records, suspiciousCombs,
                   suspiciousCombs_old, firstRound, environment, resets>>

\* components_suspiciousness is computed.  All components that rank then looks
\* up have an entry: they are parts of failing test cases.
ComputeSuspiciousness ==
    /\ pc = "decide"
    /\ suspiciousCombs # {}
    /\ ~Stable
    /\ environment' = [i \in Params |-> LessSuspicious(i)]
    /\ pc' = "generate"
    /\ UNCHANGED <<resolverVars, localizationVars, suspiciousCombs,
                   suspiciousCombs_old, firstRound, resets>>

\* Mutant: test cases that were run before are left out, and when none is new
\* the loop goes on without having noted the set of this round.
RunOnlyNewTestcases ==
    /\ pc = "generate"
    /\ \E value \in {v \in Testcase : \A i \in Params : v[i] \in environment[i]} :
          LET known == {(Tpass \o Tfail)[k] : k \in 1 .. Len(Tpass \o Tfail)}
              new   == generateNewTestcases(value) \ known
              ok    == {testcase \in new : check(testcase, MFS)}
          IN /\ executedTestcase' = executedTestcase \cup new
             /\ Tpass' = Tpass \o ListOf(ok)
             /\ Tfail' = Tfail \o ListOf(new \ ok)
             /\ suspiciousCombs_old' = IF new = {} THEN suspiciousCombs_old
                                       ELSE suspiciousCombs
             /\ firstRound' = (firstRound /\ new = {})
    /\ pc' = "suspect"
    /\ UNCHANGED <<MFS, t, conducted, MFC_identified, healthyCombs, faultyCombs,
                   suspiciousCombs, environment, resets>>

\* New test cases are run and added to Tpass or Tfail.
RunNewTestcases ==
    /\ pc = "generate"
    /\ \E value \in {v \in Testcase : \A i \in Params : v[i] \in environment[i]} :
          LET new == generateNewTestcases(value)
              ok  == {testcase \in new : check(testcase, MFS)}
          IN /\ executedTestcase' = executedTestcase \cup new
             /\ Tpass' = Tpass \o ListOf(ok)
             /\ Tfail' = Tfail \o ListOf(new \ ok)
    /\ suspiciousCombs_old' = suspiciousCombs
    /\ firstRound' = FALSE
    /\ pc' = "suspect"
    /\ UNCHANGED <<MFS, t, conducted, MFC_identified, healthyCombs, faultyCombs,
                   suspiciousCombs, environment, resets>>

-----------------------------------------------------------------------------
Work ==
    \/ Suspect
    \/ IdentifiedNothing
    \/ DeriveMFC
    \/ ComputeSuspiciousness
    \/ RunNewTestcases

Next == Conduct \/ Reset \/ Work

\* conduct runs to its end on the calling thread; clients need not call it.
Spec == Init /\ [][Next]_vars /\ WF_vars(Work)

-----------------------------------------------------------------------------
(***************************************************************************)
(* Properties.                                                             *)
(***************************************************************************)

\* What a call that has returned owes to the failing test cases it has: each
\* real failure-causing combination in one of them that fixes no more than t
\* parameters is reported.
ReportsWhatIsShown ==
    \A mf \in MFSInTfail :
        Cardinality(schemaOf(mf)) <= t => mf \in MFC_identified

\* The report has all that the failing test cases show, whatever was added to
\* Tpass and Tfail on the way and in earlier calls.  With the strength that
\* evaluation.py asks for this is every real combination: recall is 1 and f1 is
\* a number.
FullRecall ==
    pc = "idle" /\ conducted =>
        /\ ReportsWhatIsShown
        /\ t = max_mfs(MFS) => IsOne(getRecall) /\ getF1 # NaN

\* conduct compares the sizes of two sets of suspicious combinations, although
\* test cases that fail bring new ones in while test cases that pass clear
\* others.  When the sizes agree, so do the sets: it does not stop early.
StopsOnlyWhenStable ==
    pc = "decide" /\ Stable => suspiciousCombs = suspiciousCombs_old

\* The while (true) loop ends, in whatever way ties are broken.
ConductReturns == (pc = "suspect") ~> (pc = "idle")
=============================================================================
