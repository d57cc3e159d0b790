---- MODULE Measurement_proofs ----
(***************************************************************************)
(* The way of a duty cycle from the pin to the solver.  PwmCapture: for    *)
(* every time-out the measurement is that of the signal, no edge is missed *)
(* and a loss is reported exactly.  DutyCrossing: for all frequencies of   *)
(* the two clocks the crossing was built for, every measurement announced  *)
(* crosses intact.  The two share no variable.                             *)
(***************************************************************************)
EXTENDS PwmCapture, DutyCrossing, TLAPS

-----------------------------------------------------------------------------
(* PwmCapture *)

Types ==
    /\ pwm_sync_shift \in {0, 1} \X {0, 1}
    /\ pwm_sync_shift[1] \in {0, 1} /\ pwm_sync_shift[2] \in {0, 1}
    /\ pwm_filtered \in {0, 1} /\ pwm_filtered_d \in {0, 1}
    /\ measure_got_falling \in BOOLEAN /\ pwm_lost \in BOOLEAN
    /\ state \in {"S_IDLE", "S_MEASURE", "S_VALIDATE", "S_CONSISTENCY", "S_UPDATE"}
    /\ period_counter \in Nat /\ high_counter \in Nat /\ timeout_counter \in 0 .. Timeout
    /\ since \in 1 .. Silence /\ high \in Nat

\* The filter after an edge: the level holds for two cycles, so that the next
\* rising edge is at least four cycles away.
FilterInv ==
    /\ pwm_rising => pwm_sync_shift[2] = 1
    /\ since = 1 => pwm_filtered = 1 /\ pwm_filtered_d = 1
    /\ since = 2 => pwm_filtered_d = 1 /\ (pwm_filtered = 1 \/ pwm_sync_shift[2] = 0)
    /\ since = 3 => ~pwm_rising

\* Where the machine is in the period of the signal.
StateInv ==
    /\ state = "S_MEASURE" =>
          /\ period_counter = since /\ high_counter = high
          /\ since <= Timeout
          /\ measure_got_falling \/ pwm_filtered_d = 1
    /\ state = "S_VALIDATE" =>
          /\ since = 1
          /\ <<captured_period, captured_high>> = span
    /\ state = "S_CONSISTENCY" => since = 2
    /\ state = "S_UPDATE" => since = 3

\* The idle counter against the observer's.
LossInv ==
    /\ state = "S_IDLE" =>
          /\ since >= Blind /\ timeout_counter <= since - Blind
          /\ timeout_counter = Timeout \/ timeout_counter >= since - Timeout
    /\ pwm_lost => since > Timeout + Blind \/ since = 1
    /\ since >= Silence => pwm_lost /\ state = "S_IDLE"
    /\ state # "S_IDLE" => timeout_counter = 0

Inv == Types /\ FilterInv /\ StateInv /\ LossInv

-----------------------------------------------------------------------------
\* Reset: nothing is being measured and the signal counts as lost.
LEMMA InitInv == Init => Inv
<1> SUFFICES ASSUME Init PROVE Inv
  OBVIOUS
<1>1. Types
  <2>1. pwm_sync_shift \in {0, 1} \X {0, 1} /\ pwm_sync_shift[1] = 0 /\ pwm_sync_shift[2] = 0
    BY DEF Init
  <2>2. measure_got_falling \in BOOLEAN /\ pwm_lost \in BOOLEAN
    BY DEF Init
  <2>3. since \in 1 .. Silence
    BY TimeoutAssumption DEF Init, Silence, Blind
  <2>4. QED
    BY <2>1, <2>2, <2>3, TimeoutAssumption DEF Init, Types
<1>2. FilterInv
  BY TimeoutAssumption, SMT DEF Init, FilterInv, Silence, Blind, pwm_rising
<1>3. StateInv
  BY TimeoutAssumption, SMT DEF Init, StateInv
<1>4. LossInv
  BY TimeoutAssumption, SMT DEF Init, LossInv, Silence, Blind
<1>5. QED
  BY <1>1, <1>2, <1>3, <1>4 DEF Inv

\* Every register keeps its range.
LEMMA TypesStep == ASSUME Inv, Next PROVE Types'
<1>1. PICK pwm_in \in {0, 1} : Clock(pwm_in)
  BY DEF Next
<1>2. Types
  BY DEF Inv
<1>3. /\ pwm_sync_shift' = <<pwm_in, pwm_sync_shift[1]>>
      /\ pwm_filtered' \in {0, 1} /\ pwm_filtered_d' \in {0, 1}
  BY <1>1, <1>2 DEF Clock, FilterBlock, Types
<1>4. /\ pwm_sync_shift' \in {0, 1} \X {0, 1}
      /\ pwm_sync_shift[1]' \in {0, 1} /\ pwm_sync_shift[2]' \in {0, 1}
  BY <1>2, <1>3 DEF Types
<1>5. state' \in {"S_IDLE", "S_MEASURE", "S_VALIDATE", "S_CONSISTENCY", "S_UPDATE"}
  BY <1>1 DEF Clock, StateBlock, Measure
<1>6. period_counter' \in Nat /\ high_counter' \in Nat
  BY <1>1, <1>2 DEF Clock, PeriodBlock, Types
<1>7. measure_got_falling' \in BOOLEAN
  BY <1>1, <1>2, Zenon DEF Clock, PeriodBlock, Types
<1>8. pwm_lost' \in BOOLEAN
  BY <1>1, Zenon DEF Clock, LossBlock
<1>9. timeout_counter' \in 0 .. Timeout
  BY <1>1, <1>2, TimeoutAssumption DEF Clock, TimeoutBlock, Types
<1>10. since' \in 1 .. Silence /\ high' \in Nat
  BY <1>1, <1>2, TimeoutAssumption DEF Clock, Observe, Silence, Types
<1>11. QED
  BY <1>3, <1>4, <1>5, <1>6, <1>7, <1>8, <1>9, <1>10 DEF Types

\* The observer's counters, one cycle later.
LEMMA Observed ==
  ASSUME Inv, Next
  PROVE  /\ pwm_rising => since' = 1 /\ high' = 1 /\ span' = <<since, high>>
         /\ ~pwm_rising /\ since < Silence => since' = since + 1 /\ high' = high + pwm_filtered
         /\ ~pwm_rising /\ since = Silence => since' = since
         /\ Silence \in Nat /\ Silence > 8 /\ since \in 1 .. Silence
<1>1. PICK pwm_in \in {0, 1} : Clock(pwm_in)
  BY DEF Next
<1>2. Types /\ Silence \in Nat /\ Silence > 8
  BY TimeoutAssumption DEF Inv, Silence
<1>3. QED
  BY <1>1, <1>2 DEF Clock, Observe, Types

\* The filter holds a level for two cycles at least.
LEMMA FilterStep == ASSUME Inv, Next PROVE FilterInv'
<1>1. PICK pwm_in \in {0, 1} : Clock(pwm_in)
  BY DEF Next
<1>2. Types /\ FilterInv
  BY DEF Inv
<1>3. pwm_sync_shift[2]' = pwm_sync_shift[1]
  BY <1>1 DEF Clock, FilterBlock
<1>4. /\ pwm_filtered' = IF pwm_sync_shift[1] = pwm_sync_shift[2]
                         THEN pwm_sync_shift[1] ELSE pwm_filtered
      /\ pwm_filtered_d' = pwm_filtered
  BY <1>1 DEF Clock, FilterBlock
<1>5. CASE pwm_rising
  <2>1. since' = 1
    BY <1>5, Observed
  <2>2. pwm_filtered' = 1 /\ pwm_filtered_d' = 1
    BY <1>2, <1>4, <1>5 DEF Types, FilterInv, pwm_rising
  <2>3. QED
    BY <2>1, <2>2 DEF FilterInv, pwm_rising
<1>6. CASE ~pwm_rising
  <2>1. since' # 1
    BY <1>6, Observed
  <2>2. /\ since' = 2 => since = 1
        /\ since' = 3 => since = 2
    BY <1>6, Observed
  <2>3. QED
    BY <1>2, <1>3, <1>4, <1>6, <2>1, <2>2 DEF Types, FilterInv, pwm_rising
<1>7. QED
  BY <1>5, <1>6

\* A state that does not look for edges lasts too short a time to meet one, and
\* a measurement that meets one has seen the falling edge before it.
LEMMA EdgesSeen ==
  ASSUME Inv
  PROVE  pwm_rising => state = "S_IDLE" \/ (state = "S_MEASURE" /\ measure_got_falling)
  BY DEF Inv, Types, FilterInv, StateInv, pwm_rising

\* One step per state of the machine.
LEMMA StateStep == ASSUME Inv, Next PROVE StateInv'
<1>1. PICK pwm_in \in {0, 1} : Clock(pwm_in)
  BY DEF Next
<1>2. Types /\ StateInv
  BY DEF Inv
<1>3. pwm_filtered_d' = pwm_filtered
  BY <1>1 DEF Clock, FilterBlock
<1>4. state' = "S_MEASURE" =>
         /\ period_counter' = since' /\ high_counter' = high' /\ since' <= Timeout
         /\ measure_got_falling' \/ pwm_filtered_d' = 1
  <2>1. CASE state = "S_IDLE" /\ pwm_rising
    <3>1. period_counter' = 1 /\ high_counter' = 1
      BY <1>1, <2>1 DEF Clock, PeriodBlock, Restart, pwm_rising
    <3>2. pwm_filtered_d' = 1 /\ since' = 1 /\ high' = 1
      BY <1>3, <2>1, Observed DEF pwm_rising
    <3>3. QED
      BY <3>1, <3>2, TimeoutAssumption
  <2>2. CASE state = "S_MEASURE" /\ ~pwm_rising
    <3>1. SUFFICES ASSUME state' = "S_MEASURE"
                   PROVE  /\ period_counter' = since' /\ high_counter' = high' /\ since' <= Timeout
                          /\ measure_got_falling' \/ pwm_filtered_d' = 1
      OBVIOUS
    <3>2. period_counter < Timeout
      BY <1>1, <1>2, <2>2, <3>1, TimeoutAssumption DEF Clock, StateBlock, Measure, Types
    <3>3. /\ period_counter' = period_counter + 1
          /\ high_counter' = high_counter + pwm_filtered
      BY <1>1, <2>2 DEF Clock, PeriodBlock, Restart
    <3>4. measure_got_falling' <=> (measure_got_falling \/ pwm_falling)
      BY <1>1, <2>2, Zenon DEF Clock, PeriodBlock, Restart
    <3>5. since < Silence /\ since = period_counter /\ high = high_counter
      BY <1>2, <2>2, <3>2, TimeoutAssumption DEF StateInv, Silence, Types
    <3>6. since' = since + 1 /\ high' = high + pwm_filtered
      BY <2>2, <3>5, Observed
    <3>7. measure_got_falling' \/ pwm_filtered_d' = 1
      BY <1>2, <1>3, <2>2, <3>4 DEF StateInv, Types, pwm_falling
    <3>8. QED
      BY <1>2, <3>2, <3>3, <3>5, <3>6, <3>7, TimeoutAssumption DEF Types
  <2>3. CASE ~(state = "S_IDLE" /\ pwm_rising) /\ ~(state = "S_MEASURE" /\ ~pwm_rising)
    <3>1. ~(state = "S_MEASURE" /\ pwm_rising /\ ~measure_got_falling)
      BY EdgesSeen
    <3>2. state' # "S_MEASURE"
      BY <1>1, <2>3, <3>1 DEF Clock, StateBlock, Measure
    <3>3. QED
      BY <3>2
  <2>4. QED
    BY <2>1, <2>2, <2>3
<1>5. state' = "S_VALIDATE" => since' = 1 /\ <<captured_period', captured_high'>> = span'
  <2>1. SUFFICES ASSUME state' = "S_VALIDATE"
                 PROVE  since' = 1 /\ <<captured_period', captured_high'>> = span'
    OBVIOUS
  <2>2. state = "S_MEASURE" /\ pwm_rising
    BY <1>1, <2>1 DEF Clock, StateBlock, Measure
  <2>3. period_counter = since /\ high_counter = high /\ period_counter > 0
    BY <1>2, <2>2, Observed DEF StateInv
  <2>4. captured_period' = period_counter /\ captured_high' = high_counter
    BY <1>1, <2>2, <2>3 DEF Clock, LatchBlock
  <2>5. QED
    BY <2>2, <2>3, <2>4, Observed
<1>6. state' = "S_CONSISTENCY" => since' = 2
  <2>1. SUFFICES ASSUME state' = "S_CONSISTENCY" PROVE since' = 2
    OBVIOUS
  <2>2. state = "S_VALIDATE"
    BY <1>1, <2>1 DEF Clock, StateBlock, Measure
  <2>3. since = 1 /\ ~pwm_rising
    BY <1>2, <2>2, EdgesSeen DEF StateInv
  <2>4. QED
    BY <2>3, Observed
<1>7. state' = "S_UPDATE" => since' = 3
  <2>1. SUFFICES ASSUME state' = "S_UPDATE" PROVE since' = 3
    OBVIOUS
  <2>2. state = "S_CONSISTENCY"
    BY <1>1, <2>1 DEF Clock, StateBlock, Measure
  <2>3. since = 2 /\ ~pwm_rising
    BY <1>2, <2>2, EdgesSeen DEF StateInv
  <2>4. QED
    BY <2>3, Observed
<1>8. QED
  BY <1>4, <1>5, <1>6, <1>7 DEF StateInv

\* The two time-outs, by the state they run in.
LEMMA LossStep == ASSUME Inv, Next PROVE LossInv'
<1>1. PICK pwm_in \in {0, 1} : Clock(pwm_in)
  BY DEF Next
<1>2. Types /\ StateInv /\ LossInv
  BY DEF Inv
<1>3. pwm_lost' <=> (state = "S_IDLE" /\ timeout_counter >= Timeout)
  BY <1>1, Zenon DEF Clock, LossBlock
<1>4. state' = "S_IDLE" /\ ~pwm_rising =>
         timeout_counter' = IF timeout_counter < Timeout THEN timeout_counter + 1
                            ELSE timeout_counter
  BY <1>1 DEF Clock, TimeoutBlock
<1>5. state' = "S_IDLE" =>
         /\ ~pwm_rising
         /\ \/ state = "S_IDLE"
            \/ state = "S_MEASURE" /\ since = Timeout
            \/ state = "S_UPDATE" /\ since = 3
  BY <1>1, <1>2, EdgesSeen, TimeoutAssumption DEF Clock, StateBlock, Measure, StateInv, Types
<1>6. state' = "S_IDLE" =>
         /\ since' >= Blind /\ timeout_counter' <= since' - Blind
         /\ timeout_counter' = Timeout \/ timeout_counter' >= since' - Timeout
  <2>1. SUFFICES ASSUME state' = "S_IDLE"
                 PROVE  /\ since' >= Blind /\ timeout_counter' <= since' - Blind
                        /\ timeout_counter' = Timeout \/ timeout_counter' >= since' - Timeout
    OBVIOUS
  <2>2. timeout_counter' = IF timeout_counter < Timeout THEN timeout_counter + 1
                           ELSE timeout_counter
    BY <1>4, <1>5, <2>1
  <2>3. CASE state = "S_IDLE"
    BY <1>2, <1>5, <2>1, <2>2, <2>3, Observed, TimeoutAssumption
       DEF LossInv, Types, Blind, Silence
  <2>4. CASE state # "S_IDLE"
    <3>1. timeout_counter = 0
      BY <1>2, <2>4 DEF LossInv
    <3>2. QED
      BY <1>5, <2>1, <2>2, <2>4, <3>1, Observed, TimeoutAssumption DEF Blind, Silence
  <2>5. QED
    BY <2>3, <2>4
<1>7. pwm_lost' => since' > Timeout + Blind \/ since' = 1
  <2>1. SUFFICES ASSUME state = "S_IDLE", timeout_counter >= Timeout, ~pwm_rising
                 PROVE  since' > Timeout + Blind
    BY <1>3, Observed
  <2>2. since >= Timeout + Blind
    BY <1>2, <2>1, TimeoutAssumption DEF LossInv, Types, Blind
  <2>3. QED
    BY <2>1, <2>2, Observed, TimeoutAssumption DEF Blind, Silence
<1>8. since' >= Silence => pwm_lost' /\ state' = "S_IDLE"
  <2>1. SUFFICES ASSUME since' >= Silence PROVE pwm_lost' /\ state' = "S_IDLE"
    OBVIOUS
  <2>2. ~pwm_rising /\ since >= 2 * Timeout
    BY <2>1, Observed, TimeoutAssumption DEF Silence
  <2>3. state = "S_IDLE"
    BY <1>2, <2>2, TimeoutAssumption DEF StateInv, Types
  <2>4. timeout_counter >= Timeout
    BY <1>2, <2>2, <2>3, TimeoutAssumption DEF LossInv, Types
  <2>5. state' = "S_IDLE"
    BY <1>1, <2>2, <2>3 DEF Clock, StateBlock, Measure
  <2>6. QED
    BY <1>3, <2>3, <2>4, <2>5
<1>9. state' # "S_IDLE" => timeout_counter' = 0
  <2>1. SUFFICES ASSUME state' # "S_IDLE" PROVE state # "S_IDLE" \/ pwm_rising
    BY <1>1, Zenon DEF Clock, TimeoutBlock
  <2>2. QED
    BY <1>1, <2>1 DEF Clock, StateBlock, Measure
<1>10. QED
  BY <1>6, <1>7, <1>8, <1>9 DEF LossInv

\* The parts together; without a clock edge nothing changes.
LEMMA InvInductive == ASSUME Inv, [Next]_vars PROVE Inv'
<1>1. CASE Next
  BY <1>1, TypesStep, FilterStep, StateStep, LossStep DEF Inv
<1>2. CASE UNCHANGED vars
  BY <1>2 DEF vars, filter, counters, consistency, outputs, history, Inv, Types, FilterInv, StateInv,
     LossInv, pwm_rising
<1>3. QED
  BY <1>1, <1>2

-----------------------------------------------------------------------------
\* The inductive invariant of the measurement.
LEMMA InvHolds == Spec => []Inv
<1>1. Init => Inv
  BY InitInv
<1>2. Inv /\ [Next]_vars => Inv'
  BY InvInductive
<1>3. QED
  BY <1>1, <1>2, PTL DEF Spec

\* For every time-out, what is latched is the period and the high time of the
\* filtered signal (pwm_capture.sv:213-235).
THEOREM MeasuredExactly == Spec => []MeasuresTheSignal
<1>1. Inv => MeasuresTheSignal
  BY DEF Inv, StateInv, MeasuresTheSignal
<1>2. QED
  BY <1>1, InvHolds, PTL

\* For every time-out, the filter keeps edges apart long enough for the three
\* states that ignore them (pwm_capture.sv:56-78, 170-191).
THEOREM EdgesAreSeen == Spec => []NoEdgeMissed
<1>1. Inv => NoEdgeMissed
  BY EdgesSeen DEF NoEdgeMissed
<1>2. QED
  BY <1>1, InvHolds, PTL

\* For every time-out, pwm_lost is neither early nor later than two time-outs
\* (pwm_capture.sv:161-162, 237-245, 351).
THEOREM LossIsTimely == Spec => []LossReported
<1>1. Inv => LossReported
  BY DEF Inv, LossInv, LossReported
<1>2. QED
  BY <1>1, InvHolds, PTL

-----------------------------------------------------------------------------
(* DutyCrossing *)

CrossingTypes ==
    /\ fast_edges \in 0 .. MaxFast /\ slow_edges \in 0 .. MinGap
    /\ pwm_duty_valid \in BOOLEAN /\ stretched \in BOOLEAN /\ stretch_cnt_400 \in 0 .. 4
    /\ sync_1 \in BOOLEAN /\ sync_2 \in BOOLEAN /\ sync_3 \in BOOLEAN
    /\ crossing \in {0, 1}

\* Edges of clk_400 since the announcement, while it is stretched.
stretch == IF pwm_duty_valid THEN 0 ELSE stretch_cnt_400 + 1

\* The announcement has not been sampled yet: it is not over before clk_100 has
\* had an edge in it.
Waiting ==
    /\ crossing = 1 /\ (pwm_duty_valid <=> ~stretched)
    /\ ~sync_1 /\ (sync_2 => sync_3)
    /\ \/ slow_edges = 0 /\ fast_edges > stretch
       \/ slow_edges = 1 /\ fast_edges = stretch

\* It has been sampled: it is seen for so many edges of clk_100 as the clocks
\* allow, and without a gap.
Seen ==
    /\ ~pwm_duty_valid
    /\ stretched =>
          /\ sync_1
          /\ stretch >= slow_edges - 1 + fast_edges
          /\ MinFast >= 2 => stretch >= 2 * (slow_edges - 1) + fast_edges
    /\ sync_1 => slow_edges <= IF MinFast >= 2 THEN 3 ELSE 6

\* sync_1 has it, then sync_2 and the solver samples the word, then sync_3.
Arriving == Seen /\ crossing = 1 /\ sync_1 /\ ~sync_2 /\ slow_edges \in {1, 2}
Sampling == Seen /\ crossing = 1 /\ sync_2 /\ ~sync_3 /\ slow_edges \in {2, 3}
Crossed == Seen /\ crossing = 0 /\ (sync_1 => sync_2) /\ (sync_2 => sync_3)

CrossingData ==
    IF crossing = 1 THEN pwm_duty_q16 = last /\ pwm_duty_q16_sync = before
                    ELSE pwm_duty_q16_sync = last /\ duty_q16_r = before

CrossingInv ==
    /\ CrossingTypes /\ CrossingData
    /\ Waiting \/ Arriving \/ Sampling \/ Crossed

\* The word is sampled in Sampling only.
LEMMA SampledOnce == CrossingInv => (duty_valid_stretched <=> Sampling)
<1> SUFFICES ASSUME CrossingInv PROVE duty_valid_stretched <=> Sampling
  OBVIOUS
<1>1. QED
  BY DEF CrossingInv, CrossingTypes, Waiting, Arriving, Sampling, Crossed, duty_valid_stretched

\* An edge of clk_400 on which no measurement is taken.
LEMMA StretchKeepsInv ==
    ASSUME CrossingInv, FastEdge(FALSE, FALSE) \/ FastEdge(FALSE, TRUE)
    PROVE  CrossingInv'
<1>1. /\ fast_edges' = fast_edges + 1 /\ fast_edges < MaxFast
      /\ pwm_duty_valid' = FALSE /\ Stretch
      /\ UNCHANGED <<slow_edges, pwm_duty_q16, last, before, crossing, sync_1, sync_2, sync_3,
                     pwm_duty_q16_sync, duty_q16_r>>
  BY DEF FastEdge, Announce, synchroniser
<1>2. /\ stretched' \in BOOLEAN /\ stretch_cnt_400' \in 0 .. 4
      /\ stretched' => stretch' = stretch + 1 /\ (stretched \/ pwm_duty_valid)
      /\ ~stretched' => ~pwm_duty_valid /\ (stretched => stretch = 5)
  <2>1. stretch_cnt_400 \in 0 .. 4 /\ stretched \in BOOLEAN /\ ~pwm_duty_valid'
    BY <1>1 DEF CrossingInv, CrossingTypes
  <2>2. CASE pwm_duty_valid
    BY <1>1, <2>1, <2>2 DEF Stretch, stretch
  <2>3. CASE ~pwm_duty_valid /\ ~stretched
    BY <1>1, <2>1, <2>3 DEF Stretch, stretcher
  <2>4. CASE ~pwm_duty_valid /\ stretched /\ stretch_cnt_400 >= 4
    <3>1. stretched' = FALSE /\ stretch_cnt_400' = stretch_cnt_400
      BY <1>1, <2>4, Zenon DEF Stretch
    <3>2. stretch = 5
      BY <2>1, <2>4 DEF stretch
    <3>3. QED
      BY <2>1, <2>4, <3>1, <3>2, Zenon
  <2>5. CASE ~pwm_duty_valid /\ stretched /\ ~(stretch_cnt_400 >= 4)
    <3>1. stretched' = stretched /\ stretch_cnt_400' = stretch_cnt_400 + 1
      BY <1>1, <2>5, Zenon DEF Stretch
    <3>2. QED
      BY <2>1, <2>5, <3>1 DEF stretch
  <2>6. QED
    BY <2>1, <2>2, <2>3, <2>4, <2>5
<1>3. CrossingTypes' /\ CrossingData'
  <2>1. CrossingData'
    BY <1>1 DEF CrossingInv, CrossingData
  <2>2. fast_edges' \in 0 .. MaxFast
    BY <1>1, CrossingAssumption DEF CrossingInv, CrossingTypes
  <2>3. QED
    BY <1>1, <1>2, <2>1, <2>2, Zenon DEF CrossingInv, CrossingTypes
<1>4. stretch \in Int
  BY DEF CrossingInv, CrossingTypes, stretch
<1>5. CASE Waiting
  <2>1. CASE stretched'
    <3>1. Waiting'
      BY <1>1, <1>2, <1>4, <1>5, <2>1, CrossingAssumption DEF Waiting, CrossingInv, CrossingTypes
    <3>2. QED
      BY <1>3, <3>1 DEF CrossingInv
  <2>2. CASE ~stretched'
    <3>1. stretch = 5
      BY <1>2, <1>5, <2>2 DEF Waiting
    <3>2. QED
      BY <1>1, <1>5, <3>1, CrossingAssumption DEF Waiting, CrossingInv, CrossingTypes
  <2>3. QED
    BY <2>1, <2>2
<1>6. Seen => Seen'
  BY <1>1, <1>2, <1>4, CrossingAssumption DEF Seen, CrossingInv, CrossingTypes
<1>7. CASE Arriving
  BY <1>1, <1>3, <1>6, <1>7 DEF Arriving, CrossingInv
<1>8. CASE Sampling
  BY <1>1, <1>3, <1>6, <1>8 DEF Sampling, CrossingInv
<1>9. CASE Crossed
  BY <1>1, <1>3, <1>6, <1>9 DEF Crossed, CrossingInv
<1>10. QED
  BY <1>3, <1>5, <1>7, <1>8, <1>9 DEF CrossingInv

\* A measurement is taken: the one before has crossed, and clk_100 has seen the
\* end of its announcement.
LEMMA MeasurementKeepsInv ==
    ASSUME CrossingInv, FastEdge(TRUE, FALSE) \/ FastEdge(TRUE, TRUE)
    PROVE  CrossingInv'
<1>1. slow_edges = MinGap
  BY CrossingAssumption DEF FastEdge, Announce, CrossingInv, CrossingTypes
<1>2. Crossed /\ ~sync_1 /\ ~stretched
  BY <1>1, CrossingAssumption, GapAssumption
     DEF CrossingInv, CrossingTypes, Waiting, Arriving, Sampling, Crossed, Seen
<1>3. /\ fast_edges' = fast_edges + 1 /\ fast_edges < MaxFast /\ slow_edges' = 0
      /\ UNCHANGED <<sync_1, sync_2, sync_3, pwm_duty_q16_sync, duty_q16_r, stretched, stretch_cnt_400>>
  BY <1>2 DEF FastEdge, Announce, synchroniser, Stretch, stretcher, Crossed, Seen
<1>4. CASE FastEdge(TRUE, TRUE)
  <2>1. /\ pwm_duty_valid' = TRUE /\ crossing' = crossing + 1
        /\ pwm_duty_q16' = last' /\ before' = last
    BY <1>4, Zenon DEF FastEdge, Announce
  <2>2. CrossingTypes' /\ CrossingData'
    BY <1>2, <1>3, <2>1, CrossingAssumption DEF CrossingInv, CrossingTypes, CrossingData, Crossed
  <2>3. Waiting'
    BY <1>2, <1>3, <2>1 DEF Waiting, stretch, Crossed, CrossingInv, CrossingTypes
  <2>4. QED
    BY <2>2, <2>3 DEF CrossingInv
<1>5. CASE FastEdge(TRUE, FALSE)
  <2>1. pwm_duty_valid' = FALSE /\ UNCHANGED <<crossing, last, before>>
    BY <1>5 DEF FastEdge, Announce
  <2>2. CrossingTypes' /\ CrossingData'
    <3>1. CrossingData'
      BY <1>2, <1>3, <2>1 DEF CrossingInv, CrossingData, Crossed
    <3>2. fast_edges' \in 0 .. MaxFast /\ slow_edges' \in 0 .. MinGap
      BY <1>3, CrossingAssumption DEF CrossingInv, CrossingTypes
    <3>3. QED
      BY <1>3, <2>1, <3>1, <3>2, Zenon DEF CrossingInv, CrossingTypes
  <2>3. Crossed'
    BY <1>2, <1>3, <2>1 DEF Crossed, Seen
  <2>4. QED
    BY <2>2, <2>3 DEF CrossingInv
<1>6. QED
  BY <1>4, <1>5

\* An edge of clk_100 takes the announcement one stage on.
LEMMA SlowEdgeKeepsInv == ASSUME CrossingInv, SlowEdge PROVE CrossingInv'
<1>1. /\ fast_edges >= MinFast /\ fast_edges' = 0
      /\ slow_edges' = IF slow_edges < MinGap THEN slow_edges + 1 ELSE slow_edges
      /\ sync_1' = stretched /\ sync_2' = sync_1 /\ sync_3' = sync_2
      /\ UNCHANGED <<pwm_duty_q16, pwm_duty_valid, last, before, stretched, stretch_cnt_400>>
      /\ stretch' = stretch
  BY DEF SlowEdge, Synchronise, announced, stretcher, stretch
<1>2. stretch \in 0 .. 5
  BY DEF CrossingInv, CrossingTypes, stretch
<1>3. CASE Sampling
  <2>1. /\ crossing = 1 /\ crossing' = 0
        /\ pwm_duty_q16_sync' = pwm_duty_q16 /\ duty_q16_r' = pwm_duty_q16_sync
    BY <1>3, SampledOnce DEF SlowEdge, Synchronise, DutyRegister, Sampling
  <2>2. CrossingTypes' /\ CrossingData'
    BY <1>1, <2>1, CrossingAssumption, GapAssumption DEF CrossingInv, CrossingTypes, CrossingData
  <2>3. Seen'
    BY <1>1, <1>2, <1>3, CrossingAssumption, GapAssumption DEF Sampling, Seen, CrossingInv, CrossingTypes
  <2>4. Crossed'
    BY <1>1, <1>3, <2>1, <2>3 DEF Sampling, Seen, Crossed
  <2>5. QED
    BY <2>2, <2>4 DEF CrossingInv
<1>4. CASE ~Sampling
  <2>1. UNCHANGED <<crossing, pwm_duty_q16_sync, duty_q16_r>>
    BY <1>4, SampledOnce DEF SlowEdge, Synchronise, DutyRegister
  <2>2. CrossingTypes' /\ CrossingData'
    BY <1>1, <2>1, CrossingAssumption, GapAssumption DEF CrossingInv, CrossingTypes, CrossingData
  <2>3. CASE Waiting /\ pwm_duty_valid
    <3>1. slow_edges = 0 /\ ~stretched
      BY <1>1, <2>3, CrossingAssumption DEF Waiting, stretch, CrossingInv, CrossingTypes
    <3>2. Waiting'
      BY <1>1, <2>1, <2>3, <3>1, CrossingAssumption, GapAssumption DEF Waiting, stretch
    <3>3. QED
      BY <2>2, <3>2 DEF CrossingInv
  <2>4. CASE Waiting /\ ~pwm_duty_valid
    <3>1. Seen' /\ slow_edges' \in {1, 2}
      BY <1>1, <1>2, <2>4, CrossingAssumption, GapAssumption
         DEF Waiting, Seen, CrossingInv, CrossingTypes
    <3>2. QED
      BY <1>1, <2>1, <2>2, <2>4, <3>1 DEF Waiting, Arriving, CrossingInv
  <2>5. Seen => Seen'
    BY <1>1, <1>2, CrossingAssumption, GapAssumption DEF Seen, CrossingInv, CrossingTypes
  <2>6. CASE Arriving
    BY <1>1, <2>1, <2>2, <2>5, <2>6, GapAssumption, CrossingAssumption
       DEF Arriving, Sampling, CrossingInv
  <2>7. CASE Crossed
    BY <1>1, <2>1, <2>2, <2>5, <2>7 DEF Crossed, Seen, CrossingInv
  <2>8. QED
    BY <1>4, <2>2, <2>3, <2>4, <2>6, <2>7 DEF CrossingInv
<1>5. QED
  BY <1>3, <1>4

\* The stretched pulse is sampled in one unbroken stretch, so that it arrives as
\* one pulse, and before the next measurement can replace the word
\* (buck_hil_top.sv:131-165, buck_solver.sv:148-150).
THEOREM AnnouncedWordsCross == CrossingSpec => []CrossesIntact
<1>1. CrossingInit => CrossingInv
  <2> SUFFICES ASSUME CrossingInit PROVE CrossingInv
    OBVIOUS
  <2>1. Crossed /\ CrossingData
    BY Zenon DEF CrossingInit, Crossed, Seen, CrossingData
  <2>2. fast_edges \in 0 .. MaxFast /\ slow_edges \in 0 .. MinGap /\ stretch_cnt_400 \in 0 .. 4
    BY CrossingAssumption DEF CrossingInit
  <2>3. QED
    BY <2>1, <2>2, Zenon DEF CrossingInit, CrossingInv, CrossingTypes
<1>2. CrossingInv /\ [CrossingNext]_crossingVars => CrossingInv'
  <2> SUFFICES ASSUME CrossingInv, [CrossingNext]_crossingVars PROVE CrossingInv'
    OBVIOUS
  <2>1. CASE FastClock
    BY <2>1, StretchKeepsInv, MeasurementKeepsInv DEF FastClock
  <2>2. CASE SlowEdge
    BY <2>2, SlowEdgeKeepsInv
  <2>3. CASE UNCHANGED crossingVars
    BY <2>3 DEF crossingVars, announced, stretcher, synchroniser, CrossingInv, CrossingTypes,
       CrossingData, Waiting, Arriving, Sampling, Crossed, Seen, stretch
  <2>4. QED
    BY <2>1, <2>2, <2>3 DEF CrossingNext
<1>3. CrossingInv => CrossesIntact
  <2> SUFFICES ASSUME CrossingInv PROVE CrossesIntact
    OBVIOUS
  <2>1. crossing \in {0, 1} /\ (crossing = 0 => pwm_duty_q16_sync = last /\ duty_q16_r = before)
    BY DEF CrossingInv, CrossingTypes, CrossingData
  <2>2. duty_valid_stretched => pwm_duty_q16 = last /\ slow_edges > 0
    BY SampledOnce DEF CrossingInv, CrossingData, Sampling
  <2>3. QED
    BY <2>1, <2>2 DEF CrossesIntact
<1>4. QED
  BY <1>1, <1>2, <1>3, PTL DEF CrossingSpec
====
