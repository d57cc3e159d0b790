---- MODULE RegisterMap ----
(***************************************************************************)
(* The addresses the FPGA's register file decodes                          *)
(* (fpga/rtl/axi_mm_regs.sv), shared by the model of the register file and *)
(* by that of the firmware which writes it.                                *)
(***************************************************************************)
EXTENDS Naturals

ADDR_VIN == 0
ADDR_L_VAL == 4
ADDR_C_VAL == 8
ADDR_R_LOAD == 12
ADDR_INV_R_LOAD == 16
ADDR_R_L == 20
ADDR_VF == 24
ADDR_IL_MAX == 28
ADDR_DAC_SCALE_VOUT == 40
ADDR_DAC_SCALE_IL == 44
ADDR_DAC_UPDATE_DIV == 48
ADDR_DAC_CTRL == 52
ADDR_TRIG_SRC == 64
ADDR_TRIG_LEVEL == 68
ADDR_TRIG_ARM == 72
ADDR_TRIG_STATUS == 76
ADDR_CTRL == 128

\* The addresses whose writes are kept.
Writable ==
    {ADDR_VIN, ADDR_L_VAL, ADDR_C_VAL, ADDR_R_LOAD, ADDR_INV_R_LOAD, ADDR_R_L,
     ADDR_VF, ADDR_IL_MAX, ADDR_DAC_SCALE_VOUT, ADDR_DAC_SCALE_IL,
     ADDR_DAC_UPDATE_DIV, ADDR_DAC_CTRL, ADDR_TRIG_SRC, ADDR_TRIG_LEVEL,
     ADDR_TRIG_ARM, ADDR_CTRL}

\* Those that read what other modules drive: the two DAC codes, the trigger
\* and the status word.
Inputs == {32, 36, ADDR_TRIG_STATUS, 132}

\* FW_VERSION and DEVICE_ID.
Fixed == {136, 140}
====
