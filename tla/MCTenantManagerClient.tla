----------------------- MODULE MCTenantManagerClient -----------------------
(***************************************************************************)
(* Instances of TenantManagerClient for TLC.                               *)
(***************************************************************************)
EXTENDS TenantManagerClient, TLC

CONSTANTS t1, t2

\* Histories are functions of the versions 0..MaxVersion.
History(lists) == [v \in Versions |-> lists[v + 1]]

\* The only tenant is created, or deleted: the lists differ in length, so a
\* torn copy of the cache shows.
OneChange == {History(lists) : lists \in {<<<<>>, <<t1>> >>, <<<<t1>>, <<>> >>}}

\* Two changes: t1 goes for a while and comes back, or goes for good.
TwoChanges == {History(lists) : lists \in {<<<<t1>>, <<>>, <<t1>> >>,
                                           <<<<t1, t2>>, <<t2>>, <<>> >>}}

Interchangeable == Permutations(Callers)
=============================================================================
