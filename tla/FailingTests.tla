---------------------------- MODULE FailingTests ----------------------------
(***************************************************************************)
(* The resolvers that learn from failing test cases alone are studied for  *)
(* any list of them, not only for those that a covering array yields.      *)
(***************************************************************************)
EXTENDS FaultResolver

CONSTANT TestLists   \* the lists of failing test cases a resolver may be given

ASSUME TestListsAssumption ==
    TestLists \subseteq {l \in Seq(Testcase) : l # <<>>}

\* The constructor, which rejects an empty list, on tests that do fail.
ResolverInit ==
    /\ MFS \in MFSSets
    /\ Tfail \in TestLists
    /\ \A k \in 1 .. Len(Tfail) : ~check(Tfail[k], MFS)
    /\ Constructed
=============================================================================
