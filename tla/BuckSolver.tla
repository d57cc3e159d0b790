---- MODULE BuckSolver ----
(***************************************************************************)
(* The solver of the FPGA (fpga/rtl/buck_solver.sv): a four-stage pipeline *)
(* that is fed once in STEP_DIV cycles and adds its result to the state    *)
(* registers it started from.  One step of the model is one rising edge of *)
(* clk; the always_ff blocks all read the old values.  The contents of a   *)
(* stage that holds no step are left out, they reach no register.  v_out   *)
(* and i_l_out always equal v_c_reg and i_l_reg and are not kept apart.    *)
(* Numbers are exact: no term of a step leaves its 32 bits while the       *)
(* parameters are those params.h admits (README).                          *)
(***************************************************************************)
EXTENDS Integers

CONSTANTS
    Scale, CoefScale, ILMax, ParamSets, ResetParams,   \* as in BuckModel
    Duties,         \* the duty cycles that may arrive, 0 .. Scale
    Period,         \* PERIOD
    StepDiv         \* STEP_DIV

\* A result is written back four cycles after its step began, in time for the next.
ASSUME StepAssumption == StepDiv \in Nat /\ 4 <= StepDiv /\ StepDiv <= 16
ASSUME PeriodAssumption == Period \in Nat /\ Period > 0 /\ Period % StepDiv = 0
ASSUME ScaleAssumption == Scale \in Nat /\ Scale > 0 /\ Duties \subseteq 0 .. Scale

VARIABLES
    i_l_reg, v_c_reg,
    prm,                    \* vin_s, l_val_s, c_val_s, inv_r_load_s, r_l_s, vf_s
    duty_q16_r, pwm_counter, step_counter,
    s1, s2, s3, step_valid,
    sampled,    \* history: the inputs of the step in the pipeline
    on_steps,   \* history: steps of this PWM period with the switch closed
    steady      \* history: the duty cycle has not changed in this period

state == <<i_l_reg, v_c_reg, step_valid>>
pipeline == <<s1, s2, s3, sampled>>
pwm == <<duty_q16_r, pwm_counter, on_steps, steady>>
vars == <<state, prm, pwm, step_counter, pipeline>>

Bubble == [valid |-> FALSE]
NoDuty == -1        \* no duty_valid_in in this cycle

Model == INSTANCE BuckModel WITH il <- i_l_reg, vc <- v_c_reg

Init ==
    /\ i_l_reg = 0 /\ v_c_reg = 0 /\ step_valid = FALSE
    /\ prm = ResetParams
    /\ duty_q16_r = 0 /\ pwm_counter = 0 /\ step_counter = 0
    /\ s1 = Bubble /\ s2 = Bubble /\ s3 = Bubble
    /\ sampled = Bubble /\ on_steps = 0 /\ steady = TRUE

-----------------------------------------------------------------------------
\* Mutant: a step begins every three cycles, before the one under way is written back.
StepCounterEager == step_counter' = IF step_counter >= 2 THEN 0 ELSE step_counter + 1

\* solve_tick comes every STEP_DIV cycles.
StepCounter == step_counter' = IF step_counter >= StepDiv - 1 THEN 0 ELSE step_counter + 1

solve_tick == step_counter = 0

\* Mutant: the period is one cycle too long.
PwmCounterLate == pwm_counter' = IF pwm_counter > Period - 1 THEN 0 ELSE pwm_counter + 1

\* The free-running counter of the PWM period.
PwmCounter == pwm_counter' = IF pwm_counter >= Period - 1 THEN 0 ELSE pwm_counter + 1

duty_threshold == (duty_q16_r * Period) \div Scale

pwm_active == pwm_counter < duty_threshold

\* duty_q16_r takes a new value at once, in the middle of a period too.
DutyRegister(duty) ==
    /\ duty_q16_r' = IF duty = NoDuty THEN duty_q16_r ELSE duty
    /\ steady' = IF duty \in {NoDuty, duty_q16_r} THEN steady \/ pwm_counter' = 0
                 ELSE pwm_counter' = 0
    /\ on_steps' = IF pwm_counter' = 0 THEN 0
                   ELSE IF solve_tick /\ pwm_active THEN on_steps + 1 ELSE on_steps

\* The snapshot of the parameters on param_update.
ParamSnapshot(params) == prm' = params

-----------------------------------------------------------------------------
Stage1 == s1' = IF solve_tick
                THEN [valid |-> TRUE, on |-> pwm_active, i |-> i_l_reg, v |-> v_c_reg, prm |-> prm]
                ELSE Bubble

\* What stage 1 computes from its registers: both inductor voltages, and the load.
Terms(s) ==
    LET drop == (s.i * s.prm.rl) \div CoefScale
    IN  [valid |-> TRUE, on |-> s.on, i |-> s.i, v |-> s.v, l |-> s.prm.l, c |-> s.prm.c,
         v_on |-> s.prm.vin - s.v - drop, v_off |-> -s.prm.vf - s.v - drop,
         load |-> (s.v * s.prm.g) \div Scale]

Stage2 == s2' = IF s1.valid THEN Terms(s1) ELSE Bubble

\* Stage 2 selects by the switch and multiplies by dt/L and dt/C.
Increments(s) ==
    [valid |-> TRUE, i |-> s.i, v |-> s.v,
     di |-> (s.l * (IF s.on THEN s.v_on ELSE s.v_off)) \div CoefScale,
     dv |-> (s.c * (s.i - s.load)) \div CoefScale]

Stage3 == s3' = IF s2.valid THEN Increments(s2) ELSE Bubble

Clamp(x, top) == IF x < 0 THEN 0 ELSE IF x > top THEN top ELSE x

\* The result of a step is clamped by the supply in use now and written back.
Output ==
    /\ step_valid' = s3.valid
    /\ IF s3.valid
       THEN /\ i_l_reg' = Clamp(s3.i + s3.di, ILMax)
            /\ v_c_reg' = Clamp(s3.v + s3.dv, prm.vin)
       ELSE UNCHANGED <<i_l_reg, v_c_reg>>

\* History: what the step in the pipeline was given.
Sampling == sampled' = IF solve_tick THEN Model!Inputs(pwm_active, prm)
                       ELSE IF s3.valid THEN Bubble ELSE sampled

Clock(duty, params) ==
    /\ StepCounter /\ PwmCounter /\ DutyRegister(duty) /\ ParamSnapshot(params)
    /\ Stage1 /\ Stage2 /\ Stage3 /\ Output /\ Sampling

Next == \E duty \in Duties \union {NoDuty}, params \in ParamSets \union {prm} :
            Clock(duty, params)

Spec == Init /\ [][Next]_vars /\ WF_vars(Next)

-----------------------------------------------------------------------------
\* The pipeline is transparent: whatever arrives during a step, each result is
\* one Euler step of the reference model from the result before it, under the
\* parameters and the switch of one moment.
ImplementsModel == Model!Spec

\* At any point of a period in which the duty cycle does not change, the steps
\* taken with the switch closed cover the closed part of the period so far, to
\* less than one step.
OnTimeMatchesDuty ==
    LET closed == IF pwm_counter < duty_threshold THEN pwm_counter ELSE duty_threshold
        excess == on_steps * StepDiv - closed
    IN  steady => 0 <= excess /\ excess < StepDiv
====
