---- MODULE BuckSolverMC ----
(***************************************************************************)
(* BuckSolver with a few fraction bits: a strong supply, a weak one, and   *)
(* the parameters after reset, with which the state does not move.         *)
(***************************************************************************)
EXTENDS BuckSolver

P(vin, l, c, g, rl, vf) == [vin |-> vin, l |-> l, c |-> c, g |-> g, rl |-> rl, vf |-> vf]

AfterReset == P(3, 0, 0, 1, 0, 1)
Handed == {P(6, 2, 1, 1, 1, 1), P(3, 1, 2, 0, 0, 2)}
====
