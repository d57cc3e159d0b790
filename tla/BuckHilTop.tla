---- MODULE BuckHilTop ----
(***************************************************************************)
(* The analog path of the top level (fpga/rtl/buck_hil_top.sv, sections 5  *)
(* and 6): the solver's outputs on their way to the DAC, through scaling,  *)
(* update divider, read-back registers and the serial interface            *)
(* (DacInterface).  Of the solver (BuckSolver) there is what it shows      *)
(* here, new outputs every STEP_DIV cycles; integer parts only, as the     *)
(* scaling uses no others.                                                 *)
(***************************************************************************)
EXTENDS DacInterface

CONSTANTS
    STEP_DIV,
    Volts, Amps,            \* what the solver may show
    VoutRange, ILRange,     \* 12 V and 10 A
    VoutScale, ILScale,     \* reg_dac_scale_*, fixed in a behaviour
    Divs                    \* what software may write to DAC_UPDATE_DIV

ASSUME TopAssumption == STEP_DIV \in Nat \ {0} /\ Divs \subseteq 0 .. 1023

VARIABLES
    solver_counter, solver_vout, solver_il, solver_step_valid,
    dac_update_div,
    dac_div_counter, dac_update_strobe,
    reg_dac_vout, reg_dac_il,
    missed          \* history: the last strobe found the interface busy

solver == <<solver_counter, solver_vout, solver_il, solver_step_valid>>
updates == <<dac_update_div, dac_div_counter, dac_update_strobe>>
readback == <<reg_dac_vout, reg_dac_il, missed>>
topVars == <<dac, solver, updates, readback>>

TopInit ==
    /\ DacInit
    /\ solver_counter = 0 /\ solver_vout = 0 /\ solver_il = 0 /\ solver_step_valid = FALSE
    /\ dac_update_div \in Divs
    /\ dac_div_counter = 0 /\ dac_update_strobe = FALSE
    /\ reg_dac_vout = 0 /\ reg_dac_il = 0
    /\ missed = FALSE

-----------------------------------------------------------------------------
DacCode(x, range, scale) == IF x > range THEN 2^CodeBits - 1 ELSE (x * scale) % 2^CodeBits
dac_code_vout == DacCode(solver_vout, VoutRange, VoutScale)
dac_code_il == DacCode(solver_il, ILRange, ILScale)

SolverStep(v, i) ==
    /\ solver_counter' = (solver_counter + 1) % STEP_DIV
    /\ solver_step_valid' = (solver_counter = 0)
    /\ IF solver_counter = 0 THEN solver_vout' = v /\ solver_il' = i
       ELSE UNCHANGED <<solver_vout, solver_il>>

\* The update strobe: N counted steps, then one more.
Divider ==
    /\ dac_update_strobe' = (solver_step_valid /\ dac_div_counter >= dac_update_div)
    /\ dac_div_counter' = IF ~solver_step_valid THEN dac_div_counter
                          ELSE IF dac_div_counter >= dac_update_div THEN 0
                          ELSE (dac_div_counter + 1) % 1024

\* Mutant: the read-back registers follow every step of the solver.
ReadBackEveryStep ==
    IF solver_step_valid THEN reg_dac_vout' = dac_code_vout /\ reg_dac_il' = dac_code_il
    ELSE UNCHANGED <<reg_dac_vout, reg_dac_il>>

ReadBack ==
    IF dac_update_strobe THEN reg_dac_vout' = dac_code_vout /\ reg_dac_il' = dac_code_il
    ELSE UNCHANGED <<reg_dac_vout, reg_dac_il>>

\* History: what the last strobe found.
Strobes == missed' = IF dac_update_strobe THEN dac_state # "S_IDLE" ELSE missed

\* One rising edge of clk_100.
TopClock(v, i, div) ==
    /\ SolverStep(v, i) /\ dac_update_div' = div
    /\ Divider /\ ReadBack /\ Strobes
    /\ DacClock(dac_update_strobe, dac_code_vout, dac_code_il)

TopNext == \E v \in Volts, i \in Amps, div \in Divs : TopClock(v, i, div)

\* The clock does not stop.
TopSpec == TopInit /\ [][TopNext]_topVars /\ WF_topVars(TopNext)

-----------------------------------------------------------------------------
\* What the DAC takes in is what was loaded for it, both channels in order,
\* whatever the outputs and the strobes do meanwhile.
FramesIntact ==
    /\ Len(received) <= Len(loaded) /\ \A i \in DOMAIN received : received[i] = loaded[i]
    /\ dac_state \in {"S_IDLE", "S_WAIT"} => received = loaded

\* Unless the last strobe found the interface busy, DAC_VOUT reads back the code
\* that channel 0 was last sent.
ReadBackIsSent ==
    ~missed /\ loaded # <<>> => loaded[1] = Frame(0, reg_dac_vout)

\* An update once begun reaches the DAC on both channels.
UpdateCompletes == Len(loaded) = 1 ~> Len(received) = 2
====
