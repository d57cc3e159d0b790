---- MODULE AnalogPath_proofs ----
(***************************************************************************)
(* Proofs about the path from the switch to the analog outputs.  The       *)
(* solver: its pipeline implements the Euler steps of BuckModel, because   *)
(* what its stages hold is determined by the inputs sampled and by state   *)
(* registers that do not move meanwhile, and the steps with the switch     *)
(* closed add up to the duty cycle.  The DAC: for every clock divider and  *)
(* code width, the frames it takes in are those that were loaded.          *)
(***************************************************************************)
EXTENDS BuckSolver, BuckHilTop, SequenceTheorems, TLAPS

-----------------------------------------------------------------------------
(* The pipeline *)

\* Stage 1 as the step under way determines it.
Begun == [valid |-> TRUE, on |-> sampled.on, i |-> i_l_reg, v |-> v_c_reg, prm |-> sampled.prm]

StepsInFlight ==
    /\ step_counter \in 0 .. StepDiv - 1
    /\ IF step_counter \in {1, 2, 3}
       THEN /\ sampled = Model!Inputs(sampled.on, sampled.prm)
            /\ sampled.on \in BOOLEAN
       ELSE sampled = Bubble
    /\ s1 = IF step_counter = 1 THEN Begun ELSE Bubble
    /\ s2 = IF step_counter = 2 THEN Terms(Begun) ELSE Bubble
    /\ s3 = IF step_counter = 3 THEN Increments(Terms(Begun)) ELSE Bubble

\* No step is in flight at reset.
LEMMA PipelineStart == Init => StepsInFlight
BY StepAssumption DEF Init, StepsInFlight, Bubble

\* The step counter stays in its range and visits 0, 1, 2 and 3 in turn.
LEMMA Counting ==
    ASSUME step_counter \in 0 .. StepDiv - 1, StepCounter
    PROVE  /\ step_counter' \in 0 .. StepDiv - 1
           /\ step_counter = 0 => step_counter' = 1
           /\ step_counter = 1 => step_counter' = 2
           /\ step_counter = 2 => step_counter' = 3
           /\ step_counter \notin {0, 1, 2} => step_counter' \notin {1, 2, 3}
BY StepAssumption DEF StepCounter

\* At most one stage of the pipeline holds a step.
LEMMA ValidBits ==
    ASSUME StepsInFlight
    PROVE  /\ s1.valid <=> step_counter = 1
           /\ s2.valid <=> step_counter = 2
           /\ s3.valid <=> step_counter = 3
           /\ sampled.valid <=> step_counter \in {1, 2, 3}
<1>1. s1.valid = (step_counter = 1)
    BY DEF StepsInFlight, Begun, Bubble
<1>2. s2.valid = (step_counter = 2)
    BY DEF StepsInFlight, Terms, Bubble
<1>3. s3.valid = (step_counter = 3)
    BY DEF StepsInFlight, Increments, Bubble
<1>4. step_counter \in {1, 2, 3} => sampled.valid
    <2>1. ASSUME NEW on, NEW p PROVE Model!Inputs(on, p).valid
        BY DEF Model!Inputs
    <2> QED
        BY <2>1, Zenon DEF StepsInFlight
<1>5. step_counter \notin {1, 2, 3} => ~sampled.valid
    BY DEF StepsInFlight, Bubble
<1> QED
    BY <1>1, <1>2, <1>3, <1>4, <1>5

\* Each stage hands on what it holds; only the last one moves the state.
LEMMA PipelineStep == StepsInFlight /\ [Next]_vars => StepsInFlight'
<1> SUFFICES ASSUME StepsInFlight, [Next]_vars PROVE StepsInFlight'
    OBVIOUS
<1>1. CASE UNCHANGED vars
    BY <1>1 DEF StepsInFlight, vars, state, pipeline, Begun
<1>2. CASE Next
    <2>1. StepCounter /\ Stage1 /\ Stage2 /\ Stage3 /\ Output /\ Sampling
        BY <1>2 DEF Next, Clock
    <2>2. /\ step_counter' \in 0 .. StepDiv - 1
          /\ step_counter = 0 => step_counter' = 1
          /\ step_counter = 1 => step_counter' = 2
          /\ step_counter = 2 => step_counter' = 3
          /\ step_counter \notin {0, 1, 2} => step_counter' \notin {1, 2, 3}
        BY <2>1, Counting DEF StepsInFlight
    <2>3. CASE step_counter = 0
        <3>1. s1' = [valid |-> TRUE, on |-> pwm_active, i |-> i_l_reg, v |-> v_c_reg, prm |-> prm]
            BY <2>1, <2>3 DEF Stage1, solve_tick
        <3>2. s2' = Bubble /\ s3' = Bubble /\ i_l_reg' = i_l_reg /\ v_c_reg' = v_c_reg
            BY <2>1, <2>3, ValidBits DEF Stage2, Stage3, Output
        <3>3. sampled' = Model!Inputs(pwm_active, prm) /\ pwm_active \in BOOLEAN
            BY <2>1, <2>3 DEF Sampling, solve_tick, pwm_active
        <3>4. sampled'.on = pwm_active /\ sampled'.prm = prm
            BY <3>3 DEF Model!Inputs
        <3> QED
            BY <2>2, <2>3, <3>1, <3>2, <3>3, <3>4 DEF StepsInFlight, Begun
    <2>4. CASE step_counter = 1
        <3>1. s1' = Bubble /\ s2' = Terms(s1) /\ s3' = Bubble
            BY <2>1, <2>4, ValidBits DEF Stage1, Stage2, Stage3, solve_tick
        <3>2. i_l_reg' = i_l_reg /\ v_c_reg' = v_c_reg /\ sampled' = sampled
            BY <2>1, <2>4, ValidBits DEF Output, Sampling, solve_tick
        <3>3. s1 = Begun /\ Begun' = Begun
            BY <2>4, <3>2 DEF StepsInFlight, Begun
        <3>4. s2' = Terms(Begun)'
            BY <3>1, <3>3 DEF Terms
        <3> QED
            BY <2>2, <2>4, <3>1, <3>2, <3>4 DEF StepsInFlight
    <2>5. CASE step_counter = 2
        <3>1. s1' = Bubble /\ s2' = Bubble /\ s3' = Increments(s2)
            BY <2>1, <2>5, ValidBits DEF Stage1, Stage2, Stage3, solve_tick
        <3>2. i_l_reg' = i_l_reg /\ v_c_reg' = v_c_reg /\ sampled' = sampled
            BY <2>1, <2>5, ValidBits DEF Output, Sampling, solve_tick
        <3>3. s2 = Terms(Begun) /\ Begun' = Begun
            BY <2>5, <3>2 DEF StepsInFlight, Begun
        <3>4. s3' = Increments(Terms(Begun))'
            BY <3>1, <3>3 DEF Terms, Increments
        <3> QED
            BY <2>2, <2>5, <3>1, <3>2, <3>4 DEF StepsInFlight
    <2>6. CASE step_counter \notin {0, 1, 2}
        <3>1. s1' = Bubble /\ s2' = Bubble /\ s3' = Bubble
            BY <2>1, <2>6, ValidBits DEF Stage1, Stage2, Stage3, solve_tick
        <3>2. sampled' = Bubble
            BY <2>1, <2>6, ValidBits DEF Sampling, solve_tick, StepsInFlight
        <3> QED
            BY <2>2, <2>6, <3>1, <3>2 DEF StepsInFlight
    <2> QED
        BY <2>3, <2>4, <2>5, <2>6
<1> QED
    BY <1>1, <1>2

\* What is written back is the model's step from the registers as they are.
LEMMA WritesTheStep ==
    ASSUME StepsInFlight, step_counter = 3, Output
    PROVE  /\ i_l_reg' = Model!NextCurrent(sampled, i_l_reg, v_c_reg)
           /\ v_c_reg' = Model!NextVoltage(sampled, i_l_reg, v_c_reg, prm.vin)
<1>1. s3 = Increments(Terms(Begun)) /\ s3.valid
    BY ValidBits DEF StepsInFlight
<1>2. /\ i_l_reg' = Clamp(s3.i + s3.di, ILMax)
      /\ v_c_reg' = Clamp(s3.v + s3.dv, prm.vin)
    BY <1>1 DEF Output
<1> DEFINE b == Begun
           drop == (i_l_reg * sampled.prm.rl) \div CoefScale
           load == (v_c_reg * sampled.prm.g) \div Scale
           u == IF sampled.on THEN sampled.prm.vin - v_c_reg - drop
                ELSE -sampled.prm.vf - v_c_reg - drop
<1>3. /\ b.on = sampled.on /\ b.i = i_l_reg /\ b.v = v_c_reg /\ b.prm = sampled.prm
    BY DEF Begun
<1> DEFINE t == Terms(b)
<1>4. /\ t.on = sampled.on /\ t.i = i_l_reg /\ t.v = v_c_reg
      /\ t.l = sampled.prm.l /\ t.c = sampled.prm.c
      /\ (IF t.on THEN t.v_on ELSE t.v_off) = u /\ t.load = load
    BY <1>3 DEF Terms
<1>5. /\ s3.i = i_l_reg /\ s3.v = v_c_reg
      /\ s3.di = (sampled.prm.l * u) \div CoefScale
      /\ s3.dv = (sampled.prm.c * (i_l_reg - load)) \div CoefScale
    BY <1>1, <1>4 DEF Increments
<1>6. Model!InductorVoltage(sampled.on, sampled.prm, i_l_reg, v_c_reg) = u
    BY DEF Model!InductorVoltage
<1> QED
    BY <1>2, <1>5, <1>6, Zenon
       DEF Clamp, Model!Limit, Model!NextCurrent, Model!NextVoltage

\* The pipeline implements the reference model: each result is one Euler step from
\* the one before it, for any parameters, coefficients and STEP_DIV from four on
\* (buck_solver.sv against BuckRef of harness_solver.cpp).
THEOREM PipelineImplementsModel == Spec => ImplementsModel
<1>1. Init => Model!Init
    BY DEF Init, Model!Init, Model!NoStep, Bubble
<1>2. ASSUME StepsInFlight, [Next]_vars PROVE [Model!Next]_(Model!vars)
    <2>1. CASE UNCHANGED vars
        BY <2>1 DEF vars, state, pipeline, Model!vars
    <2>2. CASE Next
        <3>1. Output /\ Sampling /\ prm' \in ParamSets \union {prm}
            BY <2>2 DEF Next, Clock, ParamSnapshot
        <3>2. CASE step_counter = 0
            <4>1. i_l_reg' = i_l_reg /\ v_c_reg' = v_c_reg /\ ~sampled.valid
                BY <1>2, <3>1, <3>2, ValidBits DEF Output
            <4>2. sampled' = Model!Inputs(pwm_active, prm) /\ pwm_active \in BOOLEAN
                BY <3>1, <3>2 DEF Sampling, solve_tick, pwm_active
            <4> QED
                BY <3>1, <4>1, <4>2 DEF Model!Next, Model!Sample
        <3>3. CASE step_counter = 3
            <4>1. sampled.valid /\ sampled' = Model!NoStep
                BY <1>2, <3>1, <3>3, ValidBits DEF Sampling, solve_tick, Bubble, Model!NoStep
            <4> QED
                BY <1>2, <3>1, <3>3, <4>1, WritesTheStep DEF Model!Next, Model!Step
        <3>4. CASE step_counter \notin {0, 3}
            <4>1. UNCHANGED <<i_l_reg, v_c_reg, sampled>>
                BY <1>2, <3>1, <3>4, ValidBits DEF Output, Sampling, solve_tick
            <4> QED
                BY <3>1, <4>1 DEF Model!Next
        <3> QED
            BY <3>2, <3>3, <3>4
    <2> QED
        BY <1>2, <2>1, <2>2
<1> QED
    BY <1>1, <1>2, PipelineStart, PipelineStep, PTL DEF Spec, ImplementsModel, Model!Spec

-----------------------------------------------------------------------------
(* The switch *)

CountersAgree ==
    /\ step_counter \in 0 .. StepDiv - 1 /\ pwm_counter \in 0 .. Period - 1
    /\ step_counter = pwm_counter % StepDiv
    /\ duty_q16_r \in 0 .. Scale /\ on_steps \in Nat /\ steady \in {TRUE, FALSE}

\* The time the steps so far stand for: up to the end of the step under way while
\* the switch is closed.
ClosedTime ==
    IF pwm_counter <= duty_threshold
    THEN on_steps * StepDiv = pwm_counter + (IF step_counter = 0 THEN 0 ELSE StepDiv - step_counter)
    ELSE duty_threshold <= on_steps * StepDiv /\ on_steps * StepDiv < duty_threshold + StepDiv

SwitchInv == CountersAgree /\ (steady => ClosedTime)

\* The comparator's threshold is a count of cycles.
LEMMA ThresholdIsNat == duty_q16_r \in 0 .. Scale => duty_threshold \in Nat
<1> SUFFICES ASSUME duty_q16_r \in 0 .. Scale PROVE duty_threshold \in Nat
    OBVIOUS
<1> DEFINE p == duty_q16_r * Period
<1>1. p \in Nat
    BY PeriodAssumption, ScaleAssumption
<1> HIDE DEF p
<1>2. p \div Scale \in Nat
    BY <1>1, ScaleAssumption
<1> QED
    BY <1>2 DEF duty_threshold, p

\* Both counters start together.
LEMMA SwitchStart == Init => SwitchInv
<1> SUFFICES ASSUME Init PROVE SwitchInv
    OBVIOUS
<1> USE StepAssumption, PeriodAssumption, ScaleAssumption
<1>1. CountersAgree
    <2>1. /\ step_counter = 0 /\ pwm_counter = 0 /\ duty_q16_r = 0 /\ on_steps = 0
          /\ 0 % StepDiv = 0
        BY DEF Init
    <2>2. steady \in {TRUE, FALSE}
        BY DEF Init
    <2>3. /\ step_counter \in 0 .. StepDiv - 1 /\ pwm_counter \in 0 .. Period - 1
          /\ duty_q16_r \in 0 .. Scale /\ on_steps \in Nat
        BY <2>1
    <2> QED
        BY <2>1, <2>2, <2>3 DEF CountersAgree
<1>2. ClosedTime
    <2>1. step_counter = 0 /\ pwm_counter = 0 /\ on_steps = 0 /\ duty_threshold \in Nat
        BY <1>1, ThresholdIsNat DEF Init, CountersAgree
    <2> QED
        BY <2>1 DEF ClosedTime
<1> QED
    BY <1>1, <1>2 DEF SwitchInv

\* The remainder is what is left of whole turns.
LEMMA ModOfSum ==
    ASSUME NEW d \in Nat, d > 0, NEW q \in Nat, NEW r \in 0 .. d - 1
    PROVE  (d * q + r) % d = r
OBVIOUS

\* Both counters advance together, and the longer one wraps where the shorter does.
LEMMA CountTogether ==
    ASSUME NEW d \in Nat, d > 0, NEW n \in Nat, n > 0, n % d = 0, NEW c \in 0 .. n - 1
    PROVE  (IF c >= n - 1 THEN 0 ELSE c + 1) % d = IF c % d >= d - 1 THEN 0 ELSE (c % d) + 1
<1> DEFINE q == c \div d
           r == c % d
<1>0. c = d * q + r /\ q \in Nat /\ r \in 0 .. d - 1
    OBVIOUS
<1> HIDE DEF q, r
<1>1. (c + 1) % d = IF r >= d - 1 THEN 0 ELSE r + 1
    <2>1. CASE r < d - 1
        <3>1. c + 1 = d * q + (r + 1) /\ r + 1 \in 0 .. d - 1
            BY <1>0, <2>1
        <3> QED
            BY <1>0, <2>1, <3>1, ModOfSum
    <2>2. CASE r = d - 1
        <3>1. d * (q + 1) = d * q + d
            BY <1>0
        <3>2. c + 1 = d * (q + 1) + 0 /\ q + 1 \in Nat /\ 0 \in 0 .. d - 1
            BY <1>0, <2>2, <3>1
        <3>3. (c + 1) % d = 0
            BY <3>2, ModOfSum, SMTT(60)
        <3> QED
            BY <2>2, <3>3
    <2> QED
        BY <1>0, <2>1, <2>2
<1>2. CASE c = n - 1
    <2>1. (c + 1) % d = 0 /\ 0 % d = 0
        BY <1>2
    <2>2. r >= d - 1
        BY <1>0, <1>1, <2>1
    <2> QED
        BY <1>2, <2>1, <2>2 DEF r
<1>3. CASE c < n - 1
    BY <1>1, <1>3 DEF r
<1> QED
    BY <1>2, <1>3

\* A step of the counters: what a step counted now adds.
LEMMA SwitchStep == SwitchInv /\ [Next]_vars => SwitchInv'
<1> SUFFICES ASSUME SwitchInv, [Next]_vars PROVE SwitchInv'
    OBVIOUS
<1> USE StepAssumption, PeriodAssumption, ScaleAssumption
<1>0. CountersAgree /\ (steady => ClosedTime)
    BY DEF SwitchInv
<1>1. CASE UNCHANGED vars
    BY <1>1 DEF SwitchInv, CountersAgree, ClosedTime, duty_threshold, vars, pwm
<1>2. CASE Next
    <2>1. PICK duty \in Duties \union {NoDuty} : StepCounter /\ PwmCounter /\ DutyRegister(duty)
        BY <1>2 DEF Next, Clock
    <2>2. /\ step_counter \in 0 .. StepDiv - 1 /\ pwm_counter \in 0 .. Period - 1
          /\ step_counter = pwm_counter % StepDiv
          /\ duty_q16_r \in 0 .. Scale /\ on_steps \in Nat
        BY <1>0 DEF CountersAgree
    <2>3. /\ step_counter' = IF step_counter >= StepDiv - 1 THEN 0 ELSE step_counter + 1
          /\ pwm_counter' = IF pwm_counter >= Period - 1 THEN 0 ELSE pwm_counter + 1
        BY <2>1 DEF StepCounter, PwmCounter
    <2>4. step_counter' \in 0 .. StepDiv - 1 /\ pwm_counter' \in 0 .. Period - 1
        BY <2>2, <2>3
    <2>5. step_counter' = pwm_counter' % StepDiv
        BY <2>2, <2>3, CountTogether, SMTT(60)
    <2>6. duty_q16_r' \in 0 .. Scale
        BY <2>1, <2>2 DEF DutyRegister, NoDuty
    <2>7. on_steps' = IF pwm_counter' = 0 THEN 0
                      ELSE IF step_counter = 0 /\ pwm_counter < duty_threshold
                      THEN on_steps + 1 ELSE on_steps
        BY <2>1 DEF DutyRegister, solve_tick, pwm_active
    <2>8. on_steps' \in Nat
        BY <2>2, <2>7
    <2>9. steady' \in {TRUE, FALSE}
        BY <1>0, <2>1 DEF CountersAgree, DutyRegister
    <2>10. duty_threshold \in Nat /\ (duty_threshold)' \in Nat
        <3>1. ASSUME NEW t \in 0 .. Scale PROVE (t * Period) \div Scale \in Nat
            <4> DEFINE p == t * Period
            <4>1. p \in Nat
                OBVIOUS
            <4> HIDE DEF p
            <4>2. p \div Scale \in Nat
                BY <4>1
            <4> QED
                BY <4>2 DEF p
        <3> QED
            BY <2>2, <2>6, <3>1 DEF duty_threshold
    <2>11. ASSUME steady' PROVE ClosedTime'
        <3>1. CASE pwm_counter' = 0
            <4>1. on_steps' = 0 /\ step_counter' = 0 /\ 0 * StepDiv = 0
                BY <2>5, <2>7, <3>1
            <4> QED
                BY <2>10, <3>1, <4>1 DEF ClosedTime
        <3>2. CASE pwm_counter' # 0
            <4>1. steady /\ duty_q16_r' = duty_q16_r
                BY <2>1, <2>11, <3>2 DEF DutyRegister
            <4>2. (duty_threshold)' = duty_threshold
                BY <4>1 DEF duty_threshold
            <4>3. ClosedTime
                BY <1>0, <4>1
            <4>4. pwm_counter' = pwm_counter + 1
                BY <2>2, <2>3, <3>2
            <4>5. (on_steps + 1) * StepDiv = on_steps * StepDiv + StepDiv
                BY <2>2
            <4> DEFINE th == duty_threshold
                       total == on_steps * StepDiv
                       total1 == on_steps' * StepDiv
            <4>6. total \in Nat /\ total1 \in Nat
                <5>1. ASSUME NEW a \in Nat PROVE a * StepDiv \in Nat
                    OBVIOUS
                <5> QED
                    BY <2>2, <2>8, <5>1
            <4>7. total1 = IF step_counter = 0 /\ pwm_counter < th THEN total + StepDiv ELSE total
                BY <2>7, <3>2, <4>5
            <4>8. IF pwm_counter <= th
                  THEN total = pwm_counter + (IF step_counter = 0 THEN 0 ELSE StepDiv - step_counter)
                  ELSE th <= total /\ total < th + StepDiv
                BY <4>3 DEF ClosedTime
            <4>9. th \in Nat
                BY <2>10
            <4> HIDE DEF th, total, total1
            <4>10. IF pwm_counter' <= th
                   THEN total1 = pwm_counter' + (IF step_counter' = 0 THEN 0 ELSE StepDiv - step_counter')
                   ELSE th <= total1 /\ total1 < th + StepDiv
                <5>1. CASE pwm_counter < th
                    BY <2>2, <2>3, <4>4, <4>6, <4>7, <4>8, <4>9, <5>1
                <5>2. CASE pwm_counter >= th
                    BY <2>2, <4>4, <4>6, <4>7, <4>8, <4>9, <5>2
                <5> QED
                    BY <2>2, <4>9, <5>1, <5>2
            <4> QED
                BY <4>2, <4>10 DEF ClosedTime, th, total1
        <3> QED
            BY <3>1, <3>2
    <2>12. CountersAgree'
        BY <2>4, <2>5, <2>6, <2>8, <2>9 DEF CountersAgree
    <2> QED
        BY <2>11, <2>12 DEF SwitchInv
<1> QED
    BY <1>1, <1>2

\* As long as the duty cycle stands, the steps with the switch closed make up the
\* duty cycle at every point of the period, to less than a step (buck_solver.sv,
\* duty_threshold and pwm_active).
THEOREM SwitchFollowsDuty == Spec => []OnTimeMatchesDuty
<1>1. ASSUME SwitchInv PROVE OnTimeMatchesDuty
    <2> USE StepAssumption, PeriodAssumption, ScaleAssumption
    <2>1. /\ step_counter \in 0 .. StepDiv - 1 /\ pwm_counter \in Nat /\ on_steps \in Nat
          /\ duty_threshold \in Nat
        BY <1>1, ThresholdIsNat DEF SwitchInv, CountersAgree
    <2> DEFINE th == duty_threshold
               total == on_steps * StepDiv
               closed == IF pwm_counter < th THEN pwm_counter ELSE th
    <2>2. total \in Nat
        BY <2>1
    <2>3. steady => IF pwm_counter <= th
                    THEN total = pwm_counter + (IF step_counter = 0 THEN 0 ELSE StepDiv - step_counter)
                    ELSE th <= total /\ total < th + StepDiv
        BY <1>1 DEF SwitchInv, ClosedTime
    <2> HIDE DEF th, total
    <2>4. th \in Nat
        BY <2>1 DEF th
    <2>5. ASSUME IF pwm_counter <= th
                 THEN total = pwm_counter + (IF step_counter = 0 THEN 0 ELSE StepDiv - step_counter)
                 ELSE th <= total /\ total < th + StepDiv
          PROVE  0 <= total - closed /\ total - closed < StepDiv
        BY <2>1, <2>2, <2>4, <2>5
    <2> QED
        BY <2>3, <2>5 DEF OnTimeMatchesDuty, th, total
<1>2. SwitchInv => OnTimeMatchesDuty
    BY <1>1
<1> QED
    BY <1>2, SwitchStart, SwitchStep, PTL DEF Spec

-----------------------------------------------------------------------------
(* The DAC interface *)

\* The remainder of a quotient and a rest.
LEMMA Remainder ==
  ASSUME NEW m \in Nat \ {0}, NEW q \in Int, NEW r \in 0 .. m - 1
  PROVE  (m * q + r) % m = r
  OBVIOUS

\* The three constants of a frame.
LEMMA Counts ==
  /\ CYCLES_PER_BIT \in Nat /\ CYCLES_PER_BIT = 2 * SpiClkDiv
  /\ CYCLES_PER_BIT \div 2 = SpiClkDiv /\ SpiClkDiv \in Nat \ {0}
  /\ BITS_PER_FRAME \in Nat /\ BITS_PER_FRAME >= 2
  /\ TOTAL_CYCLES = CYCLES_PER_BIT * BITS_PER_FRAME
  BY SpiAssumption DEF CYCLES_PER_BIT, BITS_PER_FRAME, TOTAL_CYCLES

\* What may be on the wire, and the frames made of it.
Levels ==
    {0} \union {Frame(0, DacCode(v, VoutRange, VoutScale))[i] :
                    v \in Volts \union {0}, i \in 1 .. BITS_PER_FRAME}
        \union {Frame(1, DacCode(a, ILRange, ILScale))[i] :
                    a \in Amps \union {0}, i \in 1 .. BITS_PER_FRAME}
Frames == [1 .. BITS_PER_FRAME -> Levels]

\* The register has been shifted j times, the receiver has m bits.
Shifted(frame, j) ==
    /\ shift_reg \in Seq(Levels) /\ Len(shift_reg) = BITS_PER_FRAME
    /\ \A i \in 1 .. BITS_PER_FRAME - j : shift_reg[i] = frame[i + j]
Got(frame, m) ==
    IF spi_cs_n = 1 THEN m = 0
    ELSE bits \in Seq(Levels) /\ Len(bits) = m /\ \A i \in 1 .. m : bits[i] = frame[i]

\* In cycle r of bit k the clock is high from 1 to SpiClkDiv: the receiver takes
\* the bit as it rises, the register moves on as it falls.
Sending(frame) ==
    \E k \in 0 .. BITS_PER_FRAME - 1, r \in 0 .. CYCLES_PER_BIT - 1 :
        /\ cycle_counter = CYCLES_PER_BIT * k + r
        /\ spi_sclk = IF r \in 1 .. SpiClkDiv THEN 1 ELSE 0
        /\ Shifted(frame, IF r <= SpiClkDiv THEN k ELSE k + 1)
        /\ Got(frame, IF r = 0 THEN k ELSE k + 1)

Complete(frame) == cycle_counter = 0 /\ spi_sclk = 0 /\ spi_cs_n = 0 /\ bits = frame
Quiet == cycle_counter = 0 /\ spi_sclk = 0 /\ spi_cs_n = 1

DacInv ==
    /\ dac_state \in {"S_IDLE", "S_TX_CH0", "S_GAP0", "S_GAP0a", "S_TX_CH1", "S_GAP1",
                      "S_GAP1a", "S_WAIT"}
    /\ spi_cs_n \in {0, 1}
    /\ loaded \in Seq(Frames) /\ received \in Seq(Frames)
    /\ dac_state \in {"S_IDLE", "S_WAIT"} => Quiet /\ received = loaded
    /\ dac_state \in {"S_TX_CH0", "S_GAP0"} => Len(loaded) = 1 /\ received = <<>>
    /\ dac_state = "S_TX_CH0" => Sending(loaded[1])
    /\ dac_state = "S_GAP0" => Complete(loaded[1])
    /\ dac_state = "S_GAP0a" => Len(loaded) = 1 /\ received = loaded /\ Quiet
    /\ dac_state \in {"S_TX_CH1", "S_GAP1"} => Len(loaded) = 2 /\ received = <<loaded[1]>>
    /\ dac_state = "S_TX_CH1" => Sending(loaded[2])
    /\ dac_state = "S_GAP1" => Complete(loaded[2])
    /\ dac_state = "S_GAP1a" => Len(loaded) = 2 /\ received = loaded /\ Quiet

SolverInv == solver_vout \in Volts \union {0} /\ solver_il \in Amps \union {0}

AnalogInv == SolverInv /\ DacInv /\ ReadBackIsSent

\* The three conditions on the cycle counter, by bit and cycle of the bit.
LEMMA Phase ==
  ASSUME NEW k \in 0 .. BITS_PER_FRAME - 1, NEW r \in 0 .. CYCLES_PER_BIT - 1,
         cycle_counter = CYCLES_PER_BIT * k + r
  PROVE  /\ cycle_counter % CYCLES_PER_BIT = r
         /\ half_bit_tick <=> r \in {0, SpiClkDiv}
         /\ bit_cnt_done <=> k = BITS_PER_FRAME - 1 /\ r = CYCLES_PER_BIT - 1
         /\ r = CYCLES_PER_BIT - 1 => cycle_counter + 1 = CYCLES_PER_BIT * (k + 1)
<1>1. cycle_counter % CYCLES_PER_BIT = r
  BY Counts, Remainder
<1>2. half_bit_tick <=> r \in {0, SpiClkDiv}
  <2>1. CASE r < SpiClkDiv
    <3>1. cycle_counter = SpiClkDiv * (2 * k) + r
      BY <2>1, Counts
    <3>2. cycle_counter % SpiClkDiv = r
      BY <2>1, <3>1, Counts, Remainder
    <3>3. QED
      BY <2>1, <3>2, Counts DEF half_bit_tick
  <2>2. CASE r >= SpiClkDiv
    <3> DEFINE half == 2 * k + 1
               rest == r - SpiClkDiv
    <3>1. /\ half \in Int /\ rest \in 0 .. SpiClkDiv - 1
          /\ cycle_counter = SpiClkDiv * half + rest
      BY <2>2, Counts
    <3> HIDE DEF half, rest
    <3>2. cycle_counter % SpiClkDiv = rest
      <4>1. SpiClkDiv \in Nat \ {0}
        BY Counts
      <4>2. (SpiClkDiv * half + rest) % SpiClkDiv = rest
        BY <3>1, <4>1, Remainder
      <4>3. QED
        BY <3>1, <4>2
    <3>3. rest = r - SpiClkDiv
      BY DEF rest
    <3>4. QED
      BY <2>2, <3>2, <3>3, Counts DEF half_bit_tick
  <2>3. QED
    BY <2>1, <2>2, Counts
<1>3. bit_cnt_done <=> k = BITS_PER_FRAME - 1 /\ r = CYCLES_PER_BIT - 1
  <2> DEFINE d == BITS_PER_FRAME - 1 - k
  <2>1. d \in Nat /\ TOTAL_CYCLES - 1 - cycle_counter = CYCLES_PER_BIT * d + (CYCLES_PER_BIT - 1 - r)
    BY Counts
  <2>2. d = 0 <=> k = BITS_PER_FRAME - 1
    BY Counts
  <2> HIDE DEF d
  <2>3. d > 0 => CYCLES_PER_BIT * d >= CYCLES_PER_BIT
    BY <2>1, Counts
  <2>4. d = 0 => CYCLES_PER_BIT * d = 0
    BY Counts
  <2>5. cycle_counter \in Int /\ TOTAL_CYCLES \in Int
    BY Counts
  <2>6. QED
    BY <2>1, <2>2, <2>3, <2>4, <2>5, Counts DEF bit_cnt_done
<1>4. r = CYCLES_PER_BIT - 1 => cycle_counter + 1 = CYCLES_PER_BIT * (k + 1)
  BY Counts
<1>5. QED
  BY <1>1, <1>2, <1>3, <1>4

\* The register moves on by one bit.
LEMMA Shift ==
  ASSUME NEW s \in Seq(Levels), Len(s) = BITS_PER_FRAME
  PROVE  LET t == Append(Tail(s), 0)
         IN  /\ t \in Seq(Levels) /\ Len(t) = BITS_PER_FRAME
             /\ \A i \in 1 .. BITS_PER_FRAME - 1 : t[i] = s[i + 1]
<1>1. 0 \in Levels
  BY DEF Levels
<1>2. s # <<>> /\ BITS_PER_FRAME \in Nat /\ BITS_PER_FRAME >= 2
  BY Counts
<1>3. Tail(s) \in Seq(Levels) /\ Len(Tail(s)) = BITS_PER_FRAME - 1
      /\ \A i \in 1 .. BITS_PER_FRAME - 1 : Tail(s)[i] = s[i + 1]
  BY <1>2
<1> DEFINE u == Tail(s)
<1> HIDE DEF u
<1>4. Append(u, 0) \in Seq(Levels) /\ Len(Append(u, 0)) = BITS_PER_FRAME
      /\ \A i \in 1 .. BITS_PER_FRAME - 1 : Append(u, 0)[i] = u[i]
  BY <1>1, <1>2, <1>3 DEF u
<1>5. QED
  BY <1>3, <1>4 DEF u

\* One cycle of a frame.
LEMMA TransmitStep ==
  ASSUME NEW frame \in Frames, transmitting, Sending(frame), spi_cs_n \in {0, 1},
         NEW strobe, NEW ch0, NEW ch1,
         CycleBlock, SclkBlock, ShiftBlock(strobe, ch0, ch1), CsBlock(strobe), Receive(strobe)
  PROVE  /\ spi_cs_n' = 0 /\ UNCHANGED received
         /\ bit_cnt_done => Complete(frame)'
         /\ ~bit_cnt_done => Sending(frame)'
<1>1. PICK k \in 0 .. BITS_PER_FRAME - 1, r \in 0 .. CYCLES_PER_BIT - 1 :
        /\ cycle_counter = CYCLES_PER_BIT * k + r
        /\ spi_sclk = IF r \in 1 .. SpiClkDiv THEN 1 ELSE 0
        /\ Shifted(frame, IF r <= SpiClkDiv THEN k ELSE k + 1)
        /\ Got(frame, IF r = 0 THEN k ELSE k + 1)
  BY DEF Sending
<1>2. /\ cycle_counter % CYCLES_PER_BIT = r
      /\ half_bit_tick <=> r \in {0, SpiClkDiv}
      /\ bit_cnt_done <=> k = BITS_PER_FRAME - 1 /\ r = CYCLES_PER_BIT - 1
      /\ r = CYCLES_PER_BIT - 1 => cycle_counter + 1 = CYCLES_PER_BIT * (k + 1)
  BY <1>1, Phase
<1>3. dac_state \in {"S_TX_CH0", "S_TX_CH1"}
  BY DEF transmitting
<1>4. spi_cs_n' = 0
  BY DEF CsBlock
<1>5. received' = received
  BY <1>3, <1>4 DEF Receive
<1>6. spi_sclk' = IF r < SpiClkDiv THEN 1 ELSE 0
  <2>1. spi_sclk' = IF r \in {0, SpiClkDiv} THEN 1 - spi_sclk ELSE spi_sclk
    BY <1>2 DEF SclkBlock
  <2>2. QED
    BY <1>1, <2>1, Counts
<1>7. Shifted(frame, IF r < SpiClkDiv THEN k ELSE k + 1)'
  <2>1. shift_reg' = IF r = SpiClkDiv THEN Append(Tail(shift_reg), 0) ELSE shift_reg
    BY <1>2, <1>3, Counts DEF ShiftBlock
  <2>2. CASE r = SpiClkDiv
    <3>1. /\ shift_reg \in Seq(Levels) /\ Len(shift_reg) = BITS_PER_FRAME
          /\ \A i \in 1 .. BITS_PER_FRAME - k : shift_reg[i] = frame[i + k]
      BY <1>1, <2>2, Counts DEF Shifted
    <3>2. /\ shift_reg' \in Seq(Levels) /\ Len(shift_reg') = BITS_PER_FRAME
          /\ \A i \in 1 .. BITS_PER_FRAME - 1 : shift_reg'[i] = shift_reg[i + 1]
      BY <2>1, <2>2, <3>1, Shift
    <3>3. ASSUME NEW i \in 1 .. BITS_PER_FRAME - (k + 1)
          PROVE  shift_reg'[i] = frame[i + (k + 1)]
      <4>1. i \in 1 .. BITS_PER_FRAME - 1 /\ i + 1 \in 1 .. BITS_PER_FRAME - k
            /\ (i + 1) + k = i + (k + 1)
        BY Counts
      <4>2. QED
        BY <3>1, <3>2, <4>1
    <3>4. QED
      BY <2>2, <3>2, <3>3, Counts DEF Shifted
  <2>3. CASE r # SpiClkDiv
    <3>1. shift_reg' = shift_reg
      BY <2>1, <2>3
    <3>2. (IF r <= SpiClkDiv THEN k ELSE k + 1) = (IF r < SpiClkDiv THEN k ELSE k + 1)
      BY <2>3, Counts
    <3>3. QED
      BY <1>1, <3>1, <3>2 DEF Shifted
  <2>4. QED
    BY <2>2, <2>3
<1>8. Got(frame, k + 1)'
  <2> DEFINE begun == IF spi_cs_n = 1 THEN <<>> ELSE bits
  <2>1. bits' = IF r = 0 THEN Append(begun, Head(shift_reg')) ELSE begun
    BY <1>1, <1>4, <1>6, Counts DEF Receive
  <2>2. LET m == IF r = 0 THEN k ELSE k + 1
        IN  begun \in Seq(Levels) /\ Len(begun) = m /\ \A i \in 1 .. m : begun[i] = frame[i]
    BY <1>1 DEF Got
  <2> HIDE DEF begun
  <2>3. CASE r = 0
    <3>1. shift_reg' \in Seq(Levels) /\ Len(shift_reg') = BITS_PER_FRAME
          /\ shift_reg'[1] = frame[k + 1]
      BY <1>7, <2>3, Counts DEF Shifted
    <3>2. Head(shift_reg') = frame[k + 1] /\ frame[k + 1] \in Levels
      BY <3>1, Counts DEF Frames
    <3>3. bits' = Append(begun, frame[k + 1])
      BY <2>1, <2>3, <3>2
    <3>4. begun \in Seq(Levels) /\ Len(begun) = k /\ \A i \in 1 .. k : begun[i] = frame[i]
      BY <2>2, <2>3
    <3>5. /\ bits' \in Seq(Levels) /\ Len(bits') = k + 1
          /\ \A i \in 1 .. k + 1 : bits'[i] = frame[i]
      BY <3>2, <3>3, <3>4
    <3>6. QED
      BY <1>4, <3>5 DEF Got
  <2>4. CASE r # 0
    BY <1>4, <2>1, <2>2, <2>4 DEF Got
  <2>5. QED
    BY <2>3, <2>4
<1>9. CASE bit_cnt_done
  <2>1. k = BITS_PER_FRAME - 1 /\ r = CYCLES_PER_BIT - 1 /\ cycle_counter' = 0
    BY <1>2, <1>9 DEF CycleBlock
  <2>2. spi_sclk' = 0
    BY <1>6, <2>1, Counts
  <2>3. bits' \in Seq(Levels) /\ Len(bits') = BITS_PER_FRAME
        /\ \A i \in 1 .. BITS_PER_FRAME : bits'[i] = frame[i]
    BY <1>4, <1>8, <2>1, Counts DEF Got
  <2>4. bits' = frame
    <3>1. bits' \in [1 .. BITS_PER_FRAME -> Levels]
      BY <2>3
    <3>2. QED
      BY <2>3, <3>1 DEF Frames
  <2>5. QED
    BY <1>4, <1>5, <1>9, <2>1, <2>2, <2>4 DEF Complete
<1>10. CASE ~bit_cnt_done
  <2>1. cycle_counter' = cycle_counter + 1
    BY <1>10 DEF CycleBlock
  <2>2. CASE r < CYCLES_PER_BIT - 1
    <3>1. r + 1 \in 0 .. CYCLES_PER_BIT - 1 /\ cycle_counter' = CYCLES_PER_BIT * k + (r + 1)
      BY <1>1, <2>1, <2>2, Counts
    <3>2. spi_sclk' = IF r + 1 \in 1 .. SpiClkDiv THEN 1 ELSE 0
      BY <1>6, Counts
    <3>3. /\ (IF r + 1 <= SpiClkDiv THEN k ELSE k + 1) = (IF r < SpiClkDiv THEN k ELSE k + 1)
          /\ (IF r + 1 = 0 THEN k ELSE k + 1) = k + 1
      BY Counts
    <3>4. QED
      BY <1>4, <1>5, <1>7, <1>8, <1>10, <3>1, <3>2, <3>3 DEF Sending
  <2>3. CASE r = CYCLES_PER_BIT - 1
    <3>1. k + 1 \in 0 .. BITS_PER_FRAME - 1 /\ 0 \in 0 .. CYCLES_PER_BIT - 1
          /\ cycle_counter' = CYCLES_PER_BIT * (k + 1) + 0
      BY <1>1, <1>2, <1>10, <2>1, <2>3, Counts
    <3>2. /\ spi_sclk' = IF 0 \in 1 .. SpiClkDiv THEN 1 ELSE 0
          /\ ~(r < SpiClkDiv) /\ 0 <= SpiClkDiv
      BY <1>6, <2>3, Counts
    <3>3. QED
      BY <1>4, <1>5, <1>7, <1>8, <1>10, <3>1, <3>2 DEF Sending
  <2>4. QED
    BY <2>2, <2>3, Counts
<1>11. QED
  BY <1>4, <1>5, <1>9, <1>10

\* A frame is a sequence of so many levels.
LEMMA FrameIsSeq ==
  ASSUME NEW f \in Frames
  PROVE  f \in Seq(Levels) /\ Len(f) = BITS_PER_FRAME
  BY Counts DEF Frames

\* A second element behind a first.
LEMMA Pair ==
  ASSUME NEW S, NEW s \in Seq(S), Len(s) = 1, NEW f \in S
  PROVE  /\ Append(s, f) \in Seq(S) /\ Len(Append(s, f)) = 2
         /\ Append(s, f)[1] = s[1] /\ Append(s, f)[2] = f
<1>1. Append(s, f) \in Seq(S)
  BY SMTT(20)
<1>2. Len(Append(s, f)) = 2
  BY SMTT(20)
<1>3. Append(s, f)[1] = s[1]
  BY SMTT(20)
<1>4. Append(s, f)[Len(s) + 1] = f
  BY AppendProperties, ZenonT(40)
<1>5. Append(s, f)[2] = f
  <2>1. Len(s) + 1 = 2
    OBVIOUS
  <2>2. QED
    BY <1>4, <2>1, Zenon
<1>6. QED
  BY <1>1, <1>2, <1>3, <1>5

\* Before the first cycle of a frame nothing of it has been sent.
LEMMA SendingBegins ==
  ASSUME NEW frame \in Frames, cycle_counter' = 0, spi_sclk' = 0, shift_reg' = frame,
         spi_cs_n' = 1 \/ bits' = <<>>
  PROVE  Sending(frame)'
<1>1. /\ 0 \in 0 .. BITS_PER_FRAME - 1 /\ 0 \in 0 .. CYCLES_PER_BIT - 1
      /\ CYCLES_PER_BIT * 0 + 0 = 0 /\ 0 \notin 1 .. SpiClkDiv
      /\ (IF 0 <= SpiClkDiv THEN 0 ELSE 0 + 1) = 0 /\ (IF 0 = 0 THEN 0 ELSE 0 + 1) = 0
  BY Counts
<1>2. Shifted(frame, 0)'
  BY FrameIsSeq, Counts DEF Shifted
<1>3. Got(frame, 0)'
  <2>1. CASE spi_cs_n' = 1
    BY <2>1 DEF Got
  <2>2. CASE bits' = <<>>
    <3>1. bits' \in Seq(Levels) /\ Len(bits') = 0 /\ \A i \in 1 .. 0 : bits'[i] = frame[i]
      BY <2>2
    <3>2. QED
      BY <3>1 DEF Got
  <2>3. QED
    BY <2>1, <2>2
<1>4. spi_sclk' = IF 0 \in 1 .. SpiClkDiv THEN 1 ELSE 0
  BY <1>1
<1>5. Shifted(frame, IF 0 <= SpiClkDiv THEN 0 ELSE 0 + 1)'
  BY <1>1, <1>2
<1>6. Got(frame, IF 0 = 0 THEN 0 ELSE 0 + 1)'
  BY <1>1, <1>3
<1>7. QED
  BY <1>1, <1>4, <1>5, <1>6 DEF Sending

\* One step per state of the interface.
LEMMA DacStep ==
  ASSUME DacInv, NEW strobe \in BOOLEAN, NEW ch0, NEW ch1,
         Frame(0, ch0) \in Frames, Frame(1, ch1) \in Frames, DacClock(strobe, ch0, ch1)
  PROVE  DacInv'
<1> USE DEF DacInv, DacClock
<1>1. CASE dac_state \in {"S_TX_CH0", "S_TX_CH1"}
  <2> DEFINE n == IF dac_state = "S_TX_CH0" THEN 1 ELSE 2
  <2>1. n \in {1, 2} /\ Len(loaded) = n /\ loaded[n] \in Frames /\ Sending(loaded[n])
    BY <1>1
  <2>2. PICK frame \in Frames : frame = loaded[n]
    BY <2>1
  <2>3. transmitting /\ Sending(frame)
    BY <1>1, <2>1, <2>2 DEF transmitting
  <2>4. /\ spi_cs_n' = 0 /\ UNCHANGED received
        /\ bit_cnt_done => Complete(frame)'
        /\ ~bit_cnt_done => Sending(frame)'
    BY <2>3, TransmitStep
  <2>5. loaded' = loaded
    BY <1>1 DEF Loading
  <2>6. CASE dac_state = "S_TX_CH0"
    <3>1. dac_state' = IF bit_cnt_done THEN "S_GAP0" ELSE "S_TX_CH0"
      BY <2>6 DEF StateBlock, Go
    <3>2. frame = loaded'[1]
      BY <2>2, <2>5, <2>6
    <3>3. bit_cnt_done => Complete(loaded[1])'
      BY <2>4, <3>2
    <3>4. ~bit_cnt_done => Sending(loaded[1])'
      BY <2>4, <3>2
    <3>5. QED
      BY <2>4, <2>5, <2>6, <3>1, <3>3, <3>4
  <2>7. CASE dac_state = "S_TX_CH1"
    <3>1. dac_state' = IF bit_cnt_done THEN "S_GAP1" ELSE "S_TX_CH1"
      BY <2>7 DEF StateBlock, Go
    <3>2. frame = loaded'[2]
      BY <2>2, <2>5, <2>7
    <3>3. bit_cnt_done => Complete(loaded[2])'
      BY <2>4, <3>2
    <3>4. ~bit_cnt_done => Sending(loaded[2])'
      BY <2>4, <3>2
    <3>5. QED
      BY <2>4, <2>5, <2>7, <3>1, <3>3, <3>4
  <2>8. QED
    BY <1>1, <2>6, <2>7
<1>2. CASE dac_state \notin {"S_TX_CH0", "S_TX_CH1"}
  <2>1. cycle_counter' = 0 /\ spi_sclk' = 0
    BY <1>2 DEF CycleBlock, SclkBlock, transmitting
  <2>2. CASE dac_state = "S_IDLE" /\ strobe
    <3>1. dac_state' = "S_TX_CH0"
      BY <2>2 DEF StateBlock, Go
    <3>2. shift_reg' = Frame(0, ch0) /\ loaded' = <<Frame(0, ch0)>> /\ spi_cs_n' = 0
      BY <2>2 DEF ShiftBlock, Loading, CsBlock
    <3>3. bits' = <<>> /\ received' = <<>>
      BY <2>1, <2>2, <3>2 DEF Receive, Quiet
    <3>4. PICK frame \in Frames : frame = Frame(0, ch0)
      OBVIOUS
    <3>6. Sending(frame)'
      BY <2>1, <3>2, <3>3, <3>4, SendingBegins
    <3>7. Sending(loaded[1])'
      <4>1. frame = loaded'[1]
        BY <3>2, <3>4
      <4>2. QED
        BY <3>6, <4>1
    <3>8. loaded' \in Seq(Frames) /\ Len(loaded') = 1
      BY <3>2
    <3>9. QED
      BY <3>1, <3>2, <3>3, <3>7, <3>8
  <2>3. CASE dac_state = "S_IDLE" /\ ~strobe
    <3>1. dac_state' = "S_IDLE" /\ spi_cs_n' = 1 /\ loaded' = loaded
      BY <2>3 DEF StateBlock, Go, CsBlock, transmitting, Loading
    <3>2. received' = received
      BY <2>3, <3>1 DEF Receive, Quiet
    <3>3. QED
      BY <2>1, <2>3, <3>1, <3>2 DEF Quiet
  <2>4. CASE dac_state = "S_GAP0"
    <3>1. dac_state' = "S_GAP0a" /\ spi_cs_n' = 1 /\ loaded' = loaded
      BY <2>4 DEF StateBlock, Go, CsBlock, transmitting, Loading
    <3>2. spi_cs_n = 0 /\ bits = loaded[1] /\ Len(loaded) = 1 /\ loaded[1] \in Frames
      BY <2>4 DEF Complete
    <3>3. Len(bits) = BITS_PER_FRAME
      BY <3>2, Counts DEF Frames
    <3>4. received' = <<loaded[1]>>
      BY <2>4, <3>1, <3>2, <3>3 DEF Receive
    <3>5. received' = loaded
      BY <3>2, <3>4
    <3>6. QED
      BY <2>1, <2>4, <3>1, <3>5 DEF Quiet
  <2>5. CASE dac_state = "S_GAP0a"
    <3>1. dac_state' = "S_TX_CH1" /\ spi_cs_n' = 1
      BY <2>5 DEF StateBlock, Go, CsBlock, transmitting
    <3>2. shift_reg' = Frame(1, ch1) /\ loaded' = Append(loaded, Frame(1, ch1))
      BY <2>5 DEF ShiftBlock, Loading
    <3>3. received' = received
      BY <2>5, <3>1 DEF Receive, Quiet
    <3>4. PICK frame \in Frames : frame = Frame(1, ch1)
      OBVIOUS
    <3>6. Sending(frame)'
      BY <2>1, <3>1, <3>2, <3>4, SendingBegins
    <3>7. /\ loaded' \in Seq(Frames) /\ Len(loaded') = 2
          /\ loaded'[2] = frame /\ loaded'[1] = loaded[1]
      <4>1. loaded \in Seq(Frames) /\ Len(loaded) = 1
        BY <2>5
      <4>2. QED
        BY <3>2, <3>4, <4>1, Pair
    <3>8. Sending(loaded[2])'
      BY <3>6, <3>7
    <3>9. received' = <<loaded'[1]>>
      <4>1. received = loaded /\ Len(loaded) = 1 /\ loaded \in Seq(Frames)
        BY <2>5
      <4>2. loaded = <<loaded[1]>>
        BY <4>1
      <4>3. QED
        BY <3>3, <3>7, <4>1, <4>2
    <3>10. QED
      BY <3>1, <3>3, <3>7, <3>8, <3>9
  <2>6. CASE dac_state = "S_GAP1"
    <3>1. dac_state' = "S_GAP1a" /\ spi_cs_n' = 1 /\ loaded' = loaded
      BY <2>6 DEF StateBlock, Go, CsBlock, transmitting, Loading
    <3>2. spi_cs_n = 0 /\ bits = loaded[2] /\ Len(loaded) = 2 /\ loaded \in Seq(Frames)
          /\ received = <<loaded[1]>> /\ loaded[1] \in Frames /\ loaded[2] \in Frames
      BY <2>6, SMTT(60) DEF Complete
    <3>3. Len(bits) = BITS_PER_FRAME
      BY <3>2, Counts DEF Frames
    <3>4. received' = Append(received, bits)
      BY <2>6, <3>1, <3>2, <3>3 DEF Receive
    <3>5. received' = loaded
      <4>1. received \in Seq(Frames) /\ Len(received) = 1 /\ received[1] = loaded[1]
        BY <3>2
      <4>2. received' \in Seq(Frames) /\ Len(received') = 2
            /\ received'[1] = loaded[1] /\ received'[2] = loaded[2]
        BY <3>2, <3>4, <4>1, Pair
      <4>3. QED
        BY <3>2, <4>2, SeqEqual
    <3>6. QED
      BY <2>1, <2>6, <3>1, <3>2, <3>5 DEF Quiet
  <2>7. CASE dac_state \in {"S_GAP1a", "S_WAIT"}
    <3>1. dac_state' \in {"S_WAIT", "S_IDLE"} /\ spi_cs_n' = 1 /\ loaded' = loaded
      BY <2>7 DEF StateBlock, Go, CsBlock, transmitting, Loading
    <3>2. received' = received
      BY <2>7, <3>1 DEF Receive, Quiet
    <3>3. QED
      BY <2>1, <2>7, <3>1, <3>2 DEF Quiet
  <2>8. QED
    BY <1>2, <2>2, <2>3, <2>4, <2>5, <2>6, <2>7
<1>3. QED
  BY <1>1, <1>2

\* What the solver shows can be sent.
LEMMA FramesTyped ==
  ASSUME SolverInv
  PROVE  Frame(0, dac_code_vout) \in Frames /\ Frame(1, dac_code_il) \in Frames
<1>1. \A i \in 1 .. BITS_PER_FRAME : Frame(0, dac_code_vout)[i] \in Levels
  BY DEF SolverInv, Levels, dac_code_vout
<1>2. \A i \in 1 .. BITS_PER_FRAME : Frame(1, dac_code_il)[i] \in Levels
  BY DEF SolverInv, Levels, dac_code_il
<1>3. \A ch, code : Frame(ch, code) = [i \in 1 .. BITS_PER_FRAME |-> Frame(ch, code)[i]]
  BY DEF Frame
<1> HIDE DEF Frame
<1>4. QED
  BY <1>1, <1>2, <1>3 DEF Frames

\* At reset nothing is being sent.
LEMMA AnalogInit == TopInit => AnalogInv
<1> SUFFICES ASSUME TopInit PROVE AnalogInv
  OBVIOUS
<1>1. SolverInv
  BY DEF TopInit, SolverInv
<1>2. DacInv
  BY DEF TopInit, DacInit, DacInv, Quiet
<1>3. ReadBackIsSent
  BY DEF TopInit, DacInit, ReadBackIsSent
<1>4. QED
  BY <1>1, <1>2, <1>3 DEF AnalogInv

\* A strobe that finds the interface idle latches and sends the same code; no
\* other changes the first frame.
LEMMA ReadBackStep ==
  ASSUME DacInv, ReadBackIsSent, dac_update_strobe \in BOOLEAN, ReadBack, Strobes,
         DacClock(dac_update_strobe, dac_code_vout, dac_code_il)
  PROVE  ReadBackIsSent'
<1>1. CASE dac_update_strobe /\ dac_state = "S_IDLE"
  <2>1. reg_dac_vout' = dac_code_vout
    BY <1>1 DEF ReadBack
  <2>2. loaded' = <<Frame(0, dac_code_vout)>>
    BY <1>1 DEF DacClock, ShiftBlock, Loading
  <2>3. loaded'[1] = Frame(0, reg_dac_vout')
    BY <2>1, <2>2
  <2>4. QED
    BY <2>3 DEF ReadBackIsSent, Frame
<1>2. CASE dac_update_strobe /\ dac_state # "S_IDLE"
  <2>1. missed' = TRUE
    BY <1>2 DEF Strobes
  <2>2. QED
    BY <2>1 DEF ReadBackIsSent
<1>3. CASE ~dac_update_strobe
  <2>1. missed' = missed /\ reg_dac_vout' = reg_dac_vout
    BY <1>3 DEF Strobes, ReadBack
  <2>2. CASE dac_state = "S_GAP0a"
    <3>1. loaded \in Seq(Frames) /\ Len(loaded) = 1 /\ loaded' = Append(loaded, shift_reg')
      BY <1>3, <2>2 DEF DacClock, Loading, DacInv
    <3>2. loaded'[1] = loaded[1] /\ loaded # <<>>
      BY <3>1
    <3>3. QED
      BY <2>1, <3>2 DEF ReadBackIsSent, Frame
  <2>3. CASE dac_state # "S_GAP0a"
    <3>1. loaded' = loaded
      BY <1>3, <2>3 DEF DacClock, Loading
    <3>2. QED
      BY <2>1, <3>1 DEF ReadBackIsSent, Frame
  <2>4. QED
    BY <2>2, <2>3
<1>4. QED
  BY <1>1, <1>2, <1>3

\* The interface, the solver outputs and the read-back registers together.
LEMMA AnalogNext == AnalogInv /\ (dac_update_strobe \in BOOLEAN) /\ [TopNext]_topVars
                        => AnalogInv' /\ (dac_update_strobe \in BOOLEAN)'
<1> SUFFICES ASSUME AnalogInv, dac_update_strobe \in BOOLEAN, [TopNext]_topVars
             PROVE  AnalogInv' /\ (dac_update_strobe \in BOOLEAN)'
  OBVIOUS
<1>1. CASE TopNext
  <2>1. PICK v \in Volts, i \in Amps, div \in Divs : TopClock(v, i, div)
    BY <1>1 DEF TopNext
  <2>2. SolverInv'
    BY <2>1 DEF TopClock, SolverStep, SolverInv, AnalogInv
  <2>3. (dac_update_strobe \in BOOLEAN)'
    BY <2>1 DEF TopClock, Divider
  <2>4. PICK strobe, ch0, ch1 :
            /\ strobe \in BOOLEAN /\ strobe = dac_update_strobe
            /\ ch0 = dac_code_vout /\ ch1 = dac_code_il
    OBVIOUS
  <2>5. Frame(0, ch0) \in Frames /\ Frame(1, ch1) \in Frames
    BY <2>4, FramesTyped DEF AnalogInv
  <2>6. DacClock(strobe, ch0, ch1)
    BY <2>1, <2>4 DEF TopClock
  <2>7. DacInv'
    <3>1. DacInv /\ strobe \in BOOLEAN
      BY <2>4 DEF AnalogInv
    <3>2. QED
      BY <3>1, <2>5, <2>6, DacStep, ZenonT(60)
  <2>8. ReadBackIsSent'
    BY <2>1, ReadBackStep DEF TopClock, AnalogInv
  <2>9. QED
    BY <2>2, <2>3, <2>7, <2>8 DEF AnalogInv
<1>2. CASE UNCHANGED topVars
  <2>1. SolverInv' /\ dac_update_strobe' = dac_update_strobe
    BY <1>2 DEF topVars, solver, updates, AnalogInv, SolverInv
  <2>2. DacInv'
    BY <1>2 DEF topVars, dac, interface, receiver, AnalogInv, DacInv, Sending, Shifted, Got,
       Complete, Quiet
  <2>3. ReadBackIsSent'
    BY <1>2 DEF topVars, dac, readback, AnalogInv, ReadBackIsSent, Frame
  <2>4. QED
    BY <2>1, <2>2, <2>3 DEF AnalogInv
<1>3. QED
  BY <1>1, <1>2

\* Whatever the outputs and the strobes do meanwhile.
LEMMA AnalogInvHolds == TopSpec => []AnalogInv
<1>1. TopInit => AnalogInv /\ (dac_update_strobe \in BOOLEAN)
  BY AnalogInit DEF TopInit
<1>2. QED
  BY <1>1, AnalogNext, PTL DEF TopSpec

\* Both words of an update reach the DAC complete and in order, whatever the
\* solver does while they are shifted out: data is loaded before the frame, the
\* clock and the shift register move in opposite halves of a bit, and CS covers
\* the 32 bits (dac_interface.sv:75-94, 101-114, 120-134 and 141-148;
\* harness_dac.cpp:47-74).
THEOREM FramesArriveIntact == TopSpec => []FramesIntact
<1>1. AnalogInv => FramesIntact
  <2> SUFFICES ASSUME DacInv PROVE FramesIntact
    BY DEF AnalogInv
  <2>1. CASE received = loaded
    BY <2>1 DEF FramesIntact, DacInv
  <2>2. CASE received = <<>> /\ dac_state \notin {"S_IDLE", "S_WAIT"}
    BY <2>2 DEF FramesIntact, DacInv
  <2>3. CASE received = <<loaded[1]>> /\ Len(loaded) = 2 /\ dac_state \notin {"S_IDLE", "S_WAIT"}
    BY <2>3 DEF FramesIntact, DacInv
  <2>4. QED
    BY <2>1, <2>2, <2>3 DEF DacInv
<1>2. QED
  BY <1>1, AnalogInvHolds, PTL

\* Unless the last strobe found the interface busy, the register the host reads
\* back holds the code that channel 0 was sent (buck_hil_top.sv:315-345).
THEOREM ReadBackIsTrue == TopSpec => []ReadBackIsSent
<1>1. AnalogInv => ReadBackIsSent
  BY DEF AnalogInv
<1>2. QED
  BY <1>1, AnalogInvHolds, PTL
====
