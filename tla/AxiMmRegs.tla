---- MODULE AxiMmRegs ----
(***************************************************************************)
(* The register file of the FPGA (fpga/rtl/axi_mm_regs.sv) with the AXI    *)
(* master in front of it.  One step is one rising edge of clk: the write   *)
(* channel, the read channel, the pulse generator and the master all read  *)
(* the old values of the registers.  The master is external: it performs   *)
(* one write and one read at a time, the two independently, and holds a    *)
(* valid signal until it is accepted.                                      *)
(*                                                                         *)
(* Data words are small numbers: bit 0 is what TRIG_ARM keeps, bit 2 what  *)
(* CTRL makes a param_update pulse of.                                     *)
(***************************************************************************)
EXTENDS RegisterMap

CONSTANTS
    Addresses,  \* the addresses the master uses
    Data,       \* the words it writes
    MaxWrites   \* bound: writes in a behaviour

ASSUME AddressAssumption == Addresses \subseteq 0 .. 255
ASSUME DataAssumption == Data \subseteq Nat /\ 0 \in Data
ASSUME BoundAssumption == MaxWrites \in Nat

VARIABLES
    regs,           \* vin_o ... ctrl_o, by address
    inputs,         \* dac_vout_i, dac_il_i, trig_occurred_i, status_i
    w_state, w_addr, awready, wready, bvalid,
    ctrl_bit2_d,
    r_state, r_addr, arready, rvalid, rdata,
    aw, w, waddr, wdata,    \* the master's write: both channels, what it wrote
    ar, araddr,             \* the master's read
    writes,                 \* writes begun
    seen,                   \* history: what the register read has held since the read began
    raises, pulses          \* history: CTRL bit 2 set, param_update cycles

slave == <<w_state, w_addr, awready, wready, bvalid>>
read == <<r_state, r_addr, arready, rvalid, rdata>>
wmaster == <<aw, w, waddr, wdata, writes>>
rmaster == <<ar, araddr, seen>>
vars == <<regs, inputs, slave, ctrl_bit2_d, read, wmaster, rmaster, raises, pulses>>

\* AxVALID and WVALID are "on"; "taken" is accepted and not yet answered.
Channel == {"off", "on", "taken"}
Bit2(d) == (d \div 4) % 2 = 1
param_update == Bit2(regs[ADDR_CTRL]) /\ ~ctrl_bit2_d

Init ==
    /\ regs = [a \in Writable |-> 0] /\ inputs = [a \in Inputs |-> 0]
    /\ w_state = "W_IDLE" /\ w_addr = 0
    /\ awready = FALSE /\ wready = FALSE /\ bvalid = FALSE
    /\ ctrl_bit2_d = FALSE
    /\ r_state = "R_IDLE" /\ r_addr = 0
    /\ arready = FALSE /\ rvalid = FALSE /\ rdata = <<"data", 0>>
    /\ aw = "off" /\ w = "off" /\ waddr = 0 /\ wdata = 0
    /\ ar = "off" /\ araddr = 0
    /\ writes = 0 /\ seen = {} /\ raises = 0 /\ pulses = 0

-----------------------------------------------------------------------------
(* The write channel *)

\* What a register keeps of a word.
Latch(a, d) == IF a = ADDR_TRIG_ARM THEN d % 2 ELSE d

\* The registers after word d is written to address a; other addresses, and
\* TRIG_STATUS, ignore it.
Written(a, d) == [b \in Writable |-> IF b = a THEN Latch(a, d) ELSE regs[b]]

WriteIdle ==
    /\ w_state = "W_IDLE"
    /\ awready' = TRUE /\ wready' = TRUE /\ bvalid' = FALSE
    /\ IF aw = "on" /\ awready
       THEN w_addr' = waddr /\ w_state' = "W_DATA"
       ELSE UNCHANGED <<w_addr, w_state>>
    /\ UNCHANGED regs

\* Mutant: the response is offered for one cycle and not held.
WriteDataOneShot ==
    /\ w_state = "W_DATA"
    /\ awready' = FALSE
    /\ IF w = "on" /\ wready
       THEN /\ regs' = Written(w_addr, wdata)
            /\ w_state' = "W_IDLE" /\ bvalid' = TRUE /\ wready' = FALSE
       ELSE UNCHANGED <<regs, w_state, wready, bvalid>>
    /\ UNCHANGED w_addr

\* Mutant: the word is taken without a test of wvalid.
WriteDataUnchecked ==
    /\ w_state = "W_DATA"
    /\ awready' = FALSE
    /\ regs' = Written(w_addr, wdata)
    /\ w_state' = "W_RESP" /\ wready' = FALSE /\ bvalid' = TRUE
    /\ UNCHANGED w_addr

WriteData ==
    /\ w_state = "W_DATA"
    /\ awready' = FALSE
    /\ IF w = "on" /\ wready
       THEN /\ regs' = Written(w_addr, wdata)
            /\ w_state' = "W_RESP" /\ wready' = FALSE /\ bvalid' = TRUE
       ELSE UNCHANGED <<regs, w_state, wready, bvalid>>
    /\ UNCHANGED w_addr

WriteResp(bready) ==
    /\ w_state = "W_RESP"
    /\ IF bready /\ bvalid
       THEN bvalid' = FALSE /\ w_state' = "W_IDLE"
       ELSE UNCHANGED <<bvalid, w_state>>
    /\ UNCHANGED <<regs, w_addr, awready, wready>>

WriteChannel(bready) == WriteIdle \/ WriteData \/ WriteResp(bready)

\* Mutant: the pulse is the level of the bit.
PulseGeneratorLevel ==
    /\ UNCHANGED ctrl_bit2_d
    /\ pulses' = pulses + (IF param_update THEN 1 ELSE 0)
    /\ raises' = raises + (IF Bit2(regs'[ADDR_CTRL]) /\ ~Bit2(regs[ADDR_CTRL]) THEN 1 ELSE 0)

\* param_update is high for the cycle after CTRL bit 2 rises.
PulseGenerator ==
    /\ ctrl_bit2_d' = Bit2(regs[ADDR_CTRL])
    /\ pulses' = pulses + (IF param_update THEN 1 ELSE 0)
    /\ raises' = raises + (IF Bit2(regs'[ADDR_CTRL]) /\ ~Bit2(regs[ADDR_CTRL]) THEN 1 ELSE 0)

-----------------------------------------------------------------------------
(* The read channel *)

\* What the read multiplexer selects; words that no register holds are tagged.
ReadMux(a) ==
    CASE a \in Writable -> <<"data", regs[a]>>
      [] a \in Inputs -> <<"data", inputs[a]>>
      [] a \in Fixed -> <<"fixed", a>>
      [] OTHER -> <<"DEAD_BEEF", 0>>

\* Mutant: rvalid is already up, with the previous word, when data is selected.
ReadIdleValid ==
    /\ r_state = "R_IDLE"
    /\ IF ar = "on" /\ arready
       THEN r_addr' = araddr /\ r_state' = "R_DATA" /\ arready' = FALSE /\ rvalid' = TRUE
       ELSE arready' = TRUE /\ rvalid' = FALSE /\ UNCHANGED <<r_addr, r_state>>
    /\ UNCHANGED rdata

ReadIdle ==
    /\ r_state = "R_IDLE"
    /\ rvalid' = FALSE
    /\ IF ar = "on" /\ arready
       THEN r_addr' = araddr /\ r_state' = "R_DATA" /\ arready' = FALSE
       ELSE arready' = TRUE /\ UNCHANGED <<r_addr, r_state>>
    /\ UNCHANGED rdata

\* The word is selected again in every cycle the master does not take it.
ReadData(rready) ==
    /\ r_state = "R_DATA"
    /\ rdata' = ReadMux(r_addr)
    /\ IF rready /\ rvalid
       THEN rvalid' = FALSE /\ r_state' = "R_IDLE"
       ELSE rvalid' = TRUE /\ UNCHANGED r_state
    /\ UNCHANGED <<r_addr, arready>>

ReadChannel(rready) == ReadIdle \/ ReadData(rready)

-----------------------------------------------------------------------------
(* The master and the other modules, external *)

\* A write: the address, the data with it or after it, then the response.
MasterWrite(bready) ==
    \/ /\ aw = "off" /\ w = "off" /\ writes < MaxWrites
       /\ aw' = "on" /\ w' \in {"on", "off"}
       /\ waddr' \in Addresses /\ wdata' \in Data
       /\ writes' = writes + 1
    \/ /\ aw = "off" /\ UNCHANGED wmaster
    \/ /\ aw # "off" /\ ~(bvalid /\ bready)
       /\ aw' = IF awready THEN "taken" ELSE aw
       /\ \/ w = "on" /\ w' = IF wready THEN "taken" ELSE "on"
          \/ w = "off" /\ aw' = "taken" /\ w' = "on"
          \/ w # "on" /\ UNCHANGED w
       /\ UNCHANGED <<waddr, wdata, writes>>
    \/ /\ aw # "off" /\ bvalid /\ bready
       /\ aw' = "off" /\ w' = "off"
       /\ UNCHANGED <<waddr, wdata, writes>>

MasterRead(rready) ==
    \/ /\ ar = "off" /\ ar' \in {"off", "on"}
       /\ araddr' \in IF ar' = "on" THEN Addresses ELSE {araddr}
       /\ seen' = {}
    \/ /\ ar = "on" /\ ar' = IF arready THEN "taken" ELSE "on"
       /\ seen' = seen \cup {ReadMux(araddr)} /\ UNCHANGED araddr
    \/ /\ ar = "taken" /\ ar' = IF rvalid /\ rready THEN "off" ELSE "taken"
       /\ seen' = seen \cup {ReadMux(araddr)} /\ UNCHANGED araddr

Clock(bready, rready, status) ==
    /\ WriteChannel(bready) /\ PulseGenerator /\ ReadChannel(rready)
    /\ MasterWrite(bready) /\ MasterRead(rready)
    /\ inputs' = [inputs EXCEPT ![ADDR_TRIG_STATUS] = status]

Next == \E bready, rready \in BOOLEAN, status \in {0, 1} : Clock(bready, rready, status)

\* The clock runs, and the master does not withhold its data, or refuse its
\* responses, for ever.
Fairness ==
    /\ WF_vars(\E status \in {0, 1} : Clock(TRUE, TRUE, status))
    /\ WF_vars(aw = "taken" /\ w = "off" /\ w' = "on" /\ Next)

Spec == Init /\ [][Next]_vars /\ Fairness

-----------------------------------------------------------------------------
(* Properties *)

\* A write whose response the slave offers has been performed: the register it
\* names holds the word, however long address, data and response stalled. No
\* response is offered for anything else.
ResponseMeansWritten ==
    bvalid =>
        /\ aw = "taken" /\ w = "taken"
        /\ waddr \in Writable => regs[waddr] = Latch(waddr, wdata)

\* The word a read returns was in the register it names at some moment between
\* the acceptance of its address and of its data, whatever write overlaps it.
ReadIsAtomic == ar = "taken" /\ rvalid => rdata \in seen

\* Every time CTRL bit 2 rises param_update is high for one cycle: a latch on
\* it neither misses an update nor sees one twice.
OnePulsePerRaise == raises = pulses + (IF param_update THEN 1 ELSE 0)

\* The slave has taken the data and still waits for it: wready is up before an
\* address is latched, and what comes with the address is not looked at.
Swallowed == w_state = "W_DATA" /\ w = "taken"

\* Every write is answered, except one whose data was swallowed: the one way
\* in which the channel can hang.
WritesAnswered == aw = "on" ~> aw = "off" \/ Swallowed
====
