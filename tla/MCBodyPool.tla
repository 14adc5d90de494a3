----------------------------- MODULE MCBodyPool -----------------------------
(***************************************************************************)
(* Instances of BodyPool for TLC.                                          *)
(***************************************************************************)
EXTENDS BodyPool, TLC

Interchangeable == Permutations(Buffers) \cup Permutations(Callers)
                     \cup Permutations(Handlers)
=============================================================================
