------------------------------ MODULE MCOneshot ------------------------------
(***************************************************************************)
(* Model checking the whole channel.  The wakers the executor passes to    *)
(* poll are interchangeable.                                               *)
(***************************************************************************)
EXTENDS Refinement, RaceInv, CancelInv, TLC

AnyTask == Permutations(Tasks)
=============================================================================
