------------------------------ MODULE MCServer ------------------------------
(***************************************************************************)
(* An instance of Server for TLC.  Durations are scaled down: from -16 to  *)
(* 15, with seconds of 2, so that 8 seconds are too long.                  *)
(***************************************************************************)
EXTENDS Server

\* No number; no timeout; one that is; the first two that overflow into a
\* negative one; one that overflows into none; and one that overflows into a
\* short one.
MCTimeouts == {NotANumber, -1, 0, 3, 8, 9, 16, 17}
=============================================================================
