---- MODULE DutyCrossing ----
(***************************************************************************)
(* How a measured duty cycle gets from the 400 MHz clock of pwm_capture to *)
(* the 100 MHz clock of the solver (fpga/rtl/buck_hil_top.sv, section 2):  *)
(* the announcing pulse is stretched, synchronised by two flip-flops and   *)
(* made a pulse again by a third, on which the word itself is sampled.     *)
(* The clocks come from different pins, so their edges interleave freely   *)
(* but for their frequencies.  A flip-flop that samples a line in the      *)
(* moment it changes gets the old or the new level: the orders of the two  *)
(* edges.  A measurement is a number that later ones do not repeat soon.   *)
(***************************************************************************)
EXTENDS Integers

CONSTANTS
    MinFast, MaxFast,   \* edges of clk_400 between two of clk_100
    MinGap              \* edges of clk_100 between two measurements, at least

ASSUME CrossingAssumption ==
    /\ MinFast \in Nat /\ MaxFast \in Nat /\ 0 < MinFast /\ MinFast <= MaxFast
    /\ MaxFast <= 5 /\ MinGap \in Nat

\* The waveform leaves the crossing the time it takes: a period of PWM is at
\* least a microsecond (measured_freq has 20 bits), a hundred edges of clk_100.
ASSUME GapAssumption == MinGap >= 4 /\ (MinFast >= 2 \/ MinGap >= 7)

VARIABLES
    fast_edges,                 \* of clk_400 since the last of clk_100
    slow_edges,                 \* of clk_100 since the last measurement, up to MinGap
    pwm_duty_q16, pwm_duty_valid,                   \* outputs of pwm_capture
    stretched, stretch_cnt_400,                     \* duty_valid_400_stretched
    sync_1, sync_2, sync_3,                         \* duty_valid_sync_1 to _3
    pwm_duty_q16_sync,
    duty_q16_r,                                     \* in the solver
    last, before,       \* history: the last two measurements announced
    crossing            \* history: announced and not yet sampled

announced == <<pwm_duty_q16, pwm_duty_valid, last, before>>
stretcher == <<stretched, stretch_cnt_400>>
synchroniser == <<sync_1, sync_2, sync_3, pwm_duty_q16_sync, duty_q16_r>>
crossingVars == <<fast_edges, slow_edges, announced, stretcher, synchroniser, crossing>>

Measurements == 0 .. 3
Later(m) == (m + 1) % 4

CrossingInit ==
    /\ fast_edges = 0 /\ slow_edges = MinGap
    /\ pwm_duty_q16 = 0 /\ pwm_duty_valid = FALSE
    /\ stretched = FALSE /\ stretch_cnt_400 = 0
    /\ sync_1 = FALSE /\ sync_2 = FALSE /\ sync_3 = FALSE
    /\ pwm_duty_q16_sync = 0 /\ duty_q16_r = 0
    /\ last = 0 /\ before = 0 /\ crossing = 0

-----------------------------------------------------------------------------
\* pwm_capture takes over every measurement, but announces only those that
\* agree with the ones before.
Announce(taken, agrees) ==
    /\ taken => slow_edges >= MinGap
    /\ pwm_duty_q16' = IF taken THEN Later(pwm_duty_q16) ELSE pwm_duty_q16
    /\ pwm_duty_valid' = (taken /\ agrees)
    /\ IF taken /\ agrees
       THEN last' = Later(pwm_duty_q16) /\ before' = last /\ crossing' = crossing + 1
       ELSE UNCHANGED <<last, before, crossing>>
    /\ slow_edges' = IF taken THEN 0 ELSE slow_edges

\* Mutant: the pulse is stretched to two edges of clk_400.
StretchShort ==
    IF pwm_duty_valid THEN stretched' = TRUE /\ stretch_cnt_400' = 0
    ELSE IF ~stretched THEN UNCHANGED stretcher
    ELSE IF stretch_cnt_400 >= 1 THEN stretched' = FALSE /\ UNCHANGED stretch_cnt_400
    ELSE stretch_cnt_400' = stretch_cnt_400 + 1 /\ UNCHANGED stretched

\* Five edges of clk_400, longer than a period of clk_100.
Stretch ==
    IF pwm_duty_valid THEN stretched' = TRUE /\ stretch_cnt_400' = 0
    ELSE IF ~stretched THEN UNCHANGED stretcher
    ELSE IF stretch_cnt_400 >= 4 THEN stretched' = FALSE /\ UNCHANGED stretch_cnt_400
    ELSE stretch_cnt_400' = stretch_cnt_400 + 1 /\ UNCHANGED stretched

\* One rising edge of clk_400.
FastEdge(taken, agrees) ==
    /\ fast_edges < MaxFast
    /\ fast_edges' = fast_edges + 1
    /\ Announce(taken, agrees) /\ Stretch
    /\ UNCHANGED synchroniser

-----------------------------------------------------------------------------
\* duty_valid_in of the solver.
duty_valid_stretched == sync_2 /\ ~sync_3

\* The word is sampled in the cycle in which the pulse reaches the solver.
Synchronise ==
    /\ sync_1' = stretched /\ sync_2' = sync_1 /\ sync_3' = sync_2
    /\ pwm_duty_q16_sync' = IF duty_valid_stretched THEN pwm_duty_q16 ELSE pwm_duty_q16_sync

\* The solver's register, which takes over what the sampled word was before.
DutyRegister == duty_q16_r' = IF duty_valid_stretched THEN pwm_duty_q16_sync ELSE duty_q16_r

\* One rising edge of clk_100.
SlowEdge ==
    /\ fast_edges >= MinFast
    /\ fast_edges' = 0
    /\ slow_edges' = IF slow_edges < MinGap THEN slow_edges + 1 ELSE slow_edges
    /\ Synchronise /\ DutyRegister
    /\ crossing' = IF duty_valid_stretched THEN crossing - 1 ELSE crossing
    /\ UNCHANGED <<announced, stretcher>>

FastClock == \E taken, agrees \in BOOLEAN : FastEdge(taken, agrees)
CrossingNext == FastClock \/ SlowEdge

\* Neither clock stops.
CrossingSpec == CrossingInit /\ [][CrossingNext]_crossingVars /\ WF_crossingVars(FastClock) /\ WF_crossingVars(SlowEdge)

-----------------------------------------------------------------------------
\* Every measurement announced crosses once, before the next, and the word that
\* is sampled is the announced one, neither changing nor replaced by a later
\* measurement that was not announced.  After the crossing the sampled word is
\* the last measurement, and the solver works with the one before it until the
\* next is announced.
CrossesIntact ==
    /\ crossing \in {0, 1}
    /\ duty_valid_stretched => pwm_duty_q16 = last /\ slow_edges > 0
    /\ crossing = 0 => pwm_duty_q16_sync = last /\ duty_q16_r = before
====
