---- MODULE BuckModel ----
(***************************************************************************)
(* What the solver promises: the Buck converter of the reference model     *)
(* BuckRef in fpga/tb/harness_solver.cpp, advanced by forward Euler in the *)
(* fixed point of the hardware.  A step samples the switch and the         *)
(* parameters in use, then replaces the state by the result; it never      *)
(* starts from anything but the result of the step before.                 *)
(***************************************************************************)
EXTENDS Integers

CONSTANTS
    Scale,          \* 1.0 in Q16.16, the format of currents and voltages
    CoefScale,      \* 1.0 in Q8.24, the format of dt/L, dt/C and R_L
    ILMax,          \* IL_MAX
    ParamSets,      \* the parameters software may hand over
    ResetParams     \* the parameters after reset

VARIABLES
    il, vc,         \* inductor current, capacitor voltage
    prm,            \* the parameters in use
    sampled         \* the inputs of the step under way

NoStep == [valid |-> FALSE]

\* The inputs of a step: position of the switch and parameters.
Inputs(on, p) == [valid |-> TRUE, on |-> on, prm |-> p]

Limit(x, top) == IF x < 0 THEN 0 ELSE IF x > top THEN top ELSE x

\* The voltage across the inductor, switch closed or open.
InductorVoltage(on, p, i, v) ==
    (IF on THEN p.vin ELSE -p.vf) - v - ((i * p.rl) \div CoefScale)

\* One Euler step of the two equations, with their clamps.
NextCurrent(s, i, v) ==
    Limit(i + ((s.prm.l * InductorVoltage(s.on, s.prm, i, v)) \div CoefScale), ILMax)

NextVoltage(s, i, v, top) ==
    Limit(v + ((s.prm.c * (i - ((v * s.prm.g) \div Scale))) \div CoefScale), top)

Init ==
    /\ il = 0 /\ vc = 0
    /\ prm = ResetParams
    /\ sampled = NoStep

Sample ==
    /\ ~sampled.valid
    /\ \E on \in BOOLEAN : sampled' = Inputs(on, prm)
    /\ UNCHANGED <<il, vc>>

\* The supply that bounds the voltage is the one in use when the step ends.
Step ==
    /\ sampled.valid
    /\ il' = NextCurrent(sampled, il, vc)
    /\ vc' = NextVoltage(sampled, il, vc, prm.vin)
    /\ sampled' = NoStep

\* The parameters may be replaced at any moment, during a step too.
Next ==
    /\ prm' \in ParamSets \union {prm}
    /\ Sample \/ Step \/ UNCHANGED <<il, vc, sampled>>

vars == <<il, vc, prm, sampled>>

Spec == Init /\ [][Next]_vars
====
