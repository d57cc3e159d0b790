---- MODULE PwmCapture ----
(***************************************************************************)
(* The measurement of the external PWM signal (fpga/rtl/pwm_capture.sv).   *)
(* One step is one rising edge of clk: the always_ff blocks all read the   *)
(* old values, and the level of the pin is chosen freely in each cycle.    *)
(* The duty cycle is the Q16.16 number the divider gives.                  *)
(***************************************************************************)
EXTENDS Integers, Sequences, FiniteSetsExt

CONSTANTS
    Timeout,        \* TIMEOUT_CYCLES
    MaxMeasured     \* bound: measurements; the pin stays low afterwards

ASSUME TimeoutAssumption == Timeout \in Nat /\ Timeout > 3
ASSUME BoundAssumption == MaxMeasured \in Nat

VARIABLES
    pwm_sync_shift, pwm_filtered, pwm_filtered_d,
    state, measure_got_falling,
    period_counter, high_counter, timeout_counter,
    captured_period, captured_high,
    duty_history, consistency_index, consistency_count,
    duty_q16, duty_valid, measured_freq, freq_valid, pwm_lost,
    since,      \* history: cycles since the last rising edge, up to Silence
    high,       \* history: how many of them the signal was high
    span,       \* history: both, for the last full period
    measured    \* history: how many there were

filter == <<pwm_sync_shift, pwm_filtered, pwm_filtered_d>>
counters == <<measure_got_falling, period_counter, high_counter, timeout_counter,
              captured_period, captured_high>>
consistency == <<duty_history, consistency_index, consistency_count>>
outputs == <<duty_q16, duty_valid, measured_freq, freq_valid, pwm_lost>>
history == <<since, high, span, measured>>
vars == <<filter, state, counters, consistency, outputs, history>>

CLK_FREQ == 400000000
CONSISTENCY_CYCLES == 3
CONSISTENCY_THRESHOLD == 10486      \* 0x28F6

\* The cycles after an edge in which the machine does not look for the next one
\* (reset counts as the end of them).
Blind == 3

\* Bound of the history: when a loss must have been reported, in any state.
Silence == 2 * Timeout + 1

pwm_rising == pwm_filtered = 1 /\ pwm_filtered_d = 0
pwm_falling == pwm_filtered = 0 /\ pwm_filtered_d = 1

Init ==
    /\ pwm_sync_shift = <<0, 0>> /\ pwm_filtered = 0 /\ pwm_filtered_d = 0
    /\ state = "S_IDLE" /\ measure_got_falling = FALSE
    /\ period_counter = 0 /\ high_counter = 0 /\ timeout_counter = 0
    /\ captured_period = 0 /\ captured_high = 0
    /\ duty_history = [i \in 0 .. CONSISTENCY_CYCLES - 1 |-> 0]
    /\ consistency_index = 0 /\ consistency_count = 0
    /\ duty_q16 = 0 /\ duty_valid = FALSE
    /\ measured_freq = 0 /\ freq_valid = FALSE /\ pwm_lost = FALSE
    /\ since = Blind /\ high = 0 /\ span = <<0, 0>> /\ measured = 0

-----------------------------------------------------------------------------
\* Mutant: the filter follows the pin instead of waiting for two equal levels.
FilterBlockFollows(pwm_in) ==
    /\ pwm_sync_shift' = <<pwm_in, pwm_sync_shift[1]>>
    /\ pwm_filtered' = pwm_sync_shift[2]
    /\ pwm_filtered_d' = pwm_filtered

\* The glitch filter: two equal levels change the output, else it holds.
FilterBlock(pwm_in) ==
    /\ pwm_sync_shift' = <<pwm_in, pwm_sync_shift[1]>>
    /\ pwm_filtered' = IF pwm_sync_shift[1] = pwm_sync_shift[2]
                       THEN pwm_sync_shift[1] ELSE pwm_filtered
    /\ pwm_filtered_d' = pwm_filtered

\* A full period ends the measurement; one that is too long gives it up.
Measure ==
    /\ state = "S_MEASURE"
    /\ state' = IF pwm_rising /\ measure_got_falling THEN "S_VALIDATE"
                ELSE IF period_counter >= Timeout THEN "S_IDLE"
                ELSE "S_MEASURE"

StateBlock ==
    \/ state = "S_IDLE" /\ state' = (IF pwm_rising THEN "S_MEASURE" ELSE "S_IDLE")
    \/ Measure
    \/ state = "S_VALIDATE" /\ state' = "S_CONSISTENCY"
    \/ state = "S_CONSISTENCY" /\ state' = "S_UPDATE"
    \/ state = "S_UPDATE" /\ state' = "S_IDLE"

\* A measurement begins in the cycle of the edge.
Restart == \/ state = "S_IDLE" /\ pwm_rising
           \/ state = "S_MEASURE" /\ pwm_rising /\ measure_got_falling

\* Mutant: the cycle of the first edge is not counted.
PeriodBlockLate ==
    IF Restart
    THEN period_counter' = 0 /\ high_counter' = 0 /\ measure_got_falling' = FALSE
    ELSE /\ period_counter' = period_counter + (IF state = "S_MEASURE" THEN 1 ELSE 0)
         /\ high_counter' = high_counter + (IF state = "S_MEASURE" THEN pwm_filtered ELSE 0)
         /\ measure_got_falling' = (measure_got_falling \/ (state = "S_MEASURE" /\ pwm_falling))

\* The counters of a measurement (20 bits; Timeout keeps them below that).
PeriodBlock ==
    IF Restart
    THEN period_counter' = 1 /\ high_counter' = pwm_filtered /\ measure_got_falling' = FALSE
    ELSE /\ period_counter' = period_counter + (IF state = "S_MEASURE" THEN 1 ELSE 0)
         /\ high_counter' = high_counter + (IF state = "S_MEASURE" THEN pwm_filtered ELSE 0)
         /\ measure_got_falling' = (measure_got_falling \/ (state = "S_MEASURE" /\ pwm_falling))

\* The edge that ends a measurement latches its counters.
LatchBlock ==
    IF state = "S_MEASURE" /\ pwm_rising /\ period_counter > 0
    THEN captured_period' = period_counter /\ captured_high' = high_counter
    ELSE UNCHANGED <<captured_period, captured_high>>

\* Idle cycles without an edge, counted up to Timeout; reads the next state.
TimeoutBlock ==
    timeout_counter' =
        IF (state # "S_IDLE" /\ state' # "S_IDLE") \/ pwm_rising THEN 0
        ELSE IF timeout_counter < Timeout THEN timeout_counter + 1
        ELSE timeout_counter

raw_freq == IF captured_period > 0 THEN (CLK_FREQ \div captured_period) % 2^20 ELSE 0
raw_duty == IF captured_period > 0 THEN (captured_high * 65536) \div captured_period ELSE 0

Spread(S) == Max(S) - Min(S)
check_consistency ==
    Spread({duty_history[i] : i \in DOMAIN duty_history}) <= CONSISTENCY_THRESHOLD
consistency_pass == consistency_count < CONSISTENCY_CYCLES \/ check_consistency

\* The index has two bits: at 3 it names no entry, and the write is lost.
ConsistencyBlock ==
    IF state = "S_CONSISTENCY"
    THEN /\ duty_history' = [i \in DOMAIN duty_history |->
                IF i = consistency_index THEN raw_duty ELSE duty_history[i]]
         /\ IF consistency_pass
            THEN /\ consistency_index' = (consistency_index + 1) % 4
                 /\ consistency_count' = IF consistency_count < CONSISTENCY_CYCLES
                                         THEN consistency_count + 1 ELSE consistency_count
            ELSE consistency_index' = 1 /\ consistency_count' = 1
    ELSE UNCHANGED consistency

OutputBlock ==
    /\ freq_valid' = (state = "S_VALIDATE")
    /\ measured_freq' = IF state = "S_VALIDATE" THEN raw_freq ELSE measured_freq
    /\ duty_q16' = IF state = "S_UPDATE" THEN raw_duty ELSE duty_q16
    /\ duty_valid' = (/\ state = "S_UPDATE"
                      /\ consistency_pass /\ consistency_count >= CONSISTENCY_CYCLES)

\* Mutant: one idle cycle too few.
LossBlockEarly ==
    pwm_lost' = (state = "S_IDLE" /\ timeout_counter >= Timeout - 1)

LossBlock ==
    pwm_lost' = (state = "S_IDLE" /\ timeout_counter >= Timeout)

\* What an observer of the filtered signal, who knows no states, counts.
Observe ==
    /\ IF pwm_rising
       THEN since' = 1 /\ high' = 1 /\ span' = <<since, high>>
       ELSE /\ IF since < Silence
               THEN since' = since + 1 /\ high' = high + pwm_filtered
               ELSE UNCHANGED <<since, high>>
            /\ UNCHANGED span
    /\ measured' = measured + (IF state = "S_CONSISTENCY" THEN 1 ELSE 0)

Clock(pwm_in) ==
    /\ FilterBlock(pwm_in)
    /\ StateBlock
    /\ PeriodBlock /\ LatchBlock /\ TimeoutBlock
    /\ ConsistencyBlock
    /\ OutputBlock /\ LossBlock
    /\ Observe

Next == \E pwm_in \in {0, 1} :
            /\ pwm_in = 1 => measured < MaxMeasured
            /\ Clock(pwm_in)

Spec == Init /\ [][Next]_vars

-----------------------------------------------------------------------------
(* Properties *)

\* The latched counters are the period and the high time of the filtered
\* signal between its last two rising edges, wherever the measurement began.
MeasuresTheSignal ==
    state = "S_VALIDATE" => <<captured_period, captured_high>> = span

\* The states that do not look at edges are left before the filter can let the
\* next one through, whatever the pin does.
NoEdgeMissed ==
    pwm_rising => state \in {"S_IDLE", "S_MEASURE"}

\* pwm_lost is raised only after a time-out's length without an edge (it falls
\* one cycle after the edge), and at the latest after two of them: one that
\* ends a measurement and one in S_IDLE.
LossReported ==
    /\ pwm_lost => since > Timeout + Blind \/ since = 1
    /\ since >= Silence => pwm_lost
====
