---- MODULE DacInterface ----
(***************************************************************************)
(* The serial interface to the DAC (fpga/rtl/dac_interface.sv) and what is *)
(* at the other end of it: the receiver of fpga/tb/harness_dac.cpp, which  *)
(* shifts a bit in on every rising edge of the serial clock while it is    *)
(* selected and takes a frame of the right length when deselected.  The    *)
(* operators are the always_ff blocks of one rising edge of clk; they read *)
(* the old values, and the module that uses them joins them to a step.     *)
(* Of a frame {CMD, ADDR, DATA} only the bits that differ are kept: the    *)
(* last one of the command, which names the channel, and the code.         *)
(***************************************************************************)
EXTENDS Integers, Sequences

CONSTANTS
    SpiClkDiv,      \* SPI_CLK_DIV
    CodeBits        \* bits of a DAC code

ASSUME SpiAssumption == SpiClkDiv \in Nat \ {0} /\ CodeBits \in Nat \ {0}

VARIABLES
    dac_state, cycle_counter, shift_reg, spi_sclk, spi_cs_n,
    bits,           \* the receiver: bits of the frame under way
    received,       \* the receiver: frames of the last update
    loaded          \* history: frames the interface took on for it

interface == <<dac_state, cycle_counter, shift_reg, spi_sclk, spi_cs_n>>
receiver == <<bits, received>>
dac == <<interface, receiver, loaded>>

BITS_PER_FRAME == CodeBits + 1
CYCLES_PER_BIT == 2 * SpiClkDiv
TOTAL_CYCLES == BITS_PER_FRAME * CYCLES_PER_BIT

Codes == 0 .. 2^CodeBits - 1

\* {DAC_CMD[ch], 8'h00, code}, most significant bit first.
Frame(ch, code) == [i \in 1 .. BITS_PER_FRAME |->
    IF i = 1 THEN ch ELSE (code \div 2^(BITS_PER_FRAME - i)) % 2]

DacInit ==
    /\ dac_state = "S_IDLE" /\ cycle_counter = 0
    /\ shift_reg = [i \in 1 .. BITS_PER_FRAME |-> 0]
    /\ spi_sclk = 0 /\ spi_cs_n = 1
    /\ bits = <<>> /\ received = <<>> /\ loaded = <<>>

-----------------------------------------------------------------------------
transmitting == dac_state \in {"S_TX_CH0", "S_TX_CH1"}

\* Mutant: one cycle more than the counter counts.
BitCntDoneLate == cycle_counter = TOTAL_CYCLES

\* The last cycle of a frame.
bit_cnt_done == cycle_counter = TOTAL_CYCLES - 1

Go(from, guard, to) == dac_state = from /\ dac_state' = IF guard THEN to ELSE from

StateBlock(strobe) ==
    \/ Go("S_IDLE", strobe, "S_TX_CH0")
    \/ Go("S_TX_CH0", bit_cnt_done, "S_GAP0")
    \/ Go("S_GAP0", TRUE, "S_GAP0a")
    \/ Go("S_GAP0a", TRUE, "S_TX_CH1")
    \/ Go("S_TX_CH1", bit_cnt_done, "S_GAP1")
    \/ Go("S_GAP1", TRUE, "S_GAP1a")
    \/ Go("S_GAP1a", TRUE, "S_WAIT")
    \/ Go("S_WAIT", ~strobe, "S_IDLE")

CycleBlock == cycle_counter' = IF transmitting /\ ~bit_cnt_done THEN cycle_counter + 1 ELSE 0

half_bit_tick == cycle_counter % (CYCLES_PER_BIT \div 2) = 0

SclkBlock == spi_sclk' = IF ~transmitting THEN 0
                         ELSE IF half_bit_tick THEN 1 - spi_sclk ELSE spi_sclk

\* Mutant: a strobe loads the register whatever is being sent.
ShiftBlockAlways(strobe, ch0, ch1) ==
    shift_reg' =
        IF strobe THEN Frame(0, ch0)
        ELSE IF dac_state = "S_GAP0a" THEN Frame(1, ch1)
        ELSE IF transmitting /\ cycle_counter % CYCLES_PER_BIT = CYCLES_PER_BIT \div 2
             THEN Append(Tail(shift_reg), 0)
        ELSE shift_reg

\* Channel 0 is taken with the strobe, channel 1 in the gap after its frame.
ShiftBlock(strobe, ch0, ch1) ==
    shift_reg' =
        IF dac_state = "S_IDLE" /\ strobe THEN Frame(0, ch0)
        ELSE IF dac_state = "S_GAP0a" THEN Frame(1, ch1)
        ELSE IF transmitting /\ cycle_counter % CYCLES_PER_BIT = CYCLES_PER_BIT \div 2
             THEN Append(Tail(shift_reg), 0)
        ELSE shift_reg

CsBlock(strobe) ==
    spi_cs_n' = IF transmitting \/ (dac_state = "S_IDLE" /\ strobe) THEN 0 ELSE 1

\* SpiMonitor::sample, which sees the lines after the edge.
Receive(strobe) ==
    LET begun == IF spi_cs_n = 1 /\ spi_cs_n' = 0 THEN <<>> ELSE bits
        ended == spi_cs_n = 0 /\ spi_cs_n' = 1
    IN  /\ bits' = IF spi_sclk = 0 /\ spi_sclk' = 1 /\ spi_cs_n' = 0
                   THEN Append(begun, Head(shift_reg')) ELSE begun
        /\ received' = IF dac_state = "S_IDLE" /\ strobe THEN <<>>
                       ELSE IF ended /\ Len(bits) = BITS_PER_FRAME THEN Append(received, bits)
                       ELSE received

\* History: the frames of this update.
Loading(strobe) ==
    loaded' = IF dac_state = "S_IDLE" /\ strobe THEN <<shift_reg'>>
              ELSE IF dac_state = "S_GAP0a" THEN Append(loaded, shift_reg')
              ELSE loaded

DacClock(strobe, ch0, ch1) ==
    /\ StateBlock(strobe) /\ CycleBlock /\ SclkBlock
    /\ ShiftBlock(strobe, ch0, ch1) /\ CsBlock(strobe)
    /\ Receive(strobe) /\ Loading(strobe)
====
