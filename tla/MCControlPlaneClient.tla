------------------------ MODULE MCControlPlaneClient ------------------------
(***************************************************************************)
(* Instances of ControlPlaneClient for TLC.                                *)
(***************************************************************************)
EXTENDS ControlPlaneClient, TLC

CONSTANT sat

\* Histories are functions of the versions 0..MaxVersion.
History(sets) == [v \in Versions |-> sets[v + 1]]

\* A satellite joins the platform and leaves it; or it leaves, and then the
\* platform ends: what control-plane says of it then has no fields.
Changes == {History(sets) : sets \in {<<{Own}, {Own, sat}, {Own}>>,
                                      <<{Own, sat}, {Own}, {Empty}>>}}

Interchangeable == Permutations(Callers)
=============================================================================
