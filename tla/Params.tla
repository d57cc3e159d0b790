---- MODULE Params ----
(***************************************************************************)
(* Parameters and commands: params.c, the command dispatcher of protocol.c *)
(* and, below them, the registers of the FPGA as the firmware reaches them *)
(* through the 8-bit address of buck_hil_top.  One step executes one       *)
(* command taken from the receive queue, or one entry of a batch; nothing  *)
(* else in the program writes the mirror or a register the FPGA keeps.     *)
(*                                                                         *)
(* A 32-bit word is the pair of its 16-bit halves.  A payload is what it   *)
(* encodes, or "short" when its length does not fit the command.           *)
(***************************************************************************)
EXTENDS RegisterMap, Sequences

CONSTANTS
    Ids,        \* the parameter ids in commands, known or not
    Values,     \* the values in commands
    Sources, Edges, Levels,   \* the bytes and words SET_TRIGGER carries
    MaxBatch    \* bound: entries of a batch; COUNT is one byte

ASSUME IdsAssumption == Ids \subseteq Nat
ASSUME ValuesAssumption == Values \subseteq Nat
ASSUME TriggerAssumption ==
    Sources \subseteq Nat /\ Edges \subseteq Nat /\ Levels \subseteq Nat
ASSUME BatchAssumption == MaxBatch \in 0 .. 255

VARIABLES
    g_params,   \* the mirror: parameter id to value
    regs,       \* the register file: address to word
    pending,    \* entries params_write_batch has still to write
    request,    \* the command being executed, or executed last
    out         \* the answer frame, as last built

vars == <<g_params, regs, pending, request, out>>

-----------------------------------------------------------------------------
(* Parameters *)

PARAM_L == 1
PARAM_C == 2
PARAM_R_LOAD == 3
PARAM_VIN == 4
PARAM_R_L == 5
PARAM_VF == 6
PARAM_F_SW == 7
PARAM_IL_MAX == 8
PARAM_DAC_UPDATE_DIV == 11
PARAM_FW_VERSION == 256
PARAM_DEVICE_ID == 257

\* The parameters of the mirror.  PARAM_VOUT_SCALE and PARAM_IL_SCALE (9, 10)
\* have ids and nothing else.
Mirrored == (1 .. 8) \cup {PARAM_DAC_UPDATE_DIV}

\* The tables below are indexed by the id:
\*   L       C          R_LOAD   VIN    R_L     VF    F_SW     IL_MAX  -  -  DIV
DefaultValue ==
  <<100000, 1000000,   10000,   12000, 100,    700,  200000,  10000,  0, 0, 10>>
MinValue ==
  <<100,    100,       10,      0,     0,      0,    10000,   0,      0, 0, 1>>
MaxValue ==
  <<1000000, 100000000, 1000000, 50000, 100000, 2000, 1000000, 20000, 0, 0, 1000>>

\* What params_init puts in the mirror.
Default == [id \in Mirrored |-> DefaultValue[id]]

\* What validate_range accepts.
InRange(id, v) == MinValue[id] <= v /\ v <= MaxValue[id]

-----------------------------------------------------------------------------
(* Words and registers *)

\* The 32-bit word of v.
Word(v) == <<(v \div 65536) % 65536, v % 65536>>

\* v << 16 in 32 bits: the upper half of v is lost.
Shl16(v) == <<v % 65536, 0>>

\* params_calc_dt_over_L: (100 << 24) / l.
DtOverL(l) == Word(1677721600 \div l)

\* params_calc_dt_over_C: (100000 << 24) / c, cut to 32 bits.  The six
\* hexadecimal digits of the shift are divided one after the other.
DtOverC(c) ==
    LET Digit(r) == (16 * r) \div c
        Rest(r) == (16 * r) % c
        r0 == 100000 % c    r1 == Rest(r0)  r2 == Rest(r1)
        r3 == Rest(r2)      r4 == Rest(r3)  r5 == Rest(r4)
    IN  <<256 * ((100000 \div c) % 256) + 16 * Digit(r0) + Digit(r1),
          4096 * Digit(r2) + 256 * Digit(r3) + 16 * Digit(r4) + Digit(r5)>>

\* The register that params_write writes for a parameter (F_SW has none), in
\* the order of the tables above, and the word it writes.
NoRegister == 256
Registers ==
    <<ADDR_L_VAL, ADDR_C_VAL, ADDR_INV_R_LOAD, ADDR_VIN, ADDR_R_L, ADDR_VF,
      NoRegister, ADDR_IL_MAX, NoRegister, NoRegister, ADDR_DAC_UPDATE_DIV>>
Register(id) == Registers[id]

RegisterWord(id, v) ==
    IF id = PARAM_L THEN DtOverL(v)
    ELSE IF id = PARAM_C THEN DtOverC(v)
    ELSE IF id = PARAM_R_LOAD THEN Shl16(1000000 \div v)
    ELSE IF id = PARAM_DAC_UPDATE_DIV THEN Word(v)
    ELSE Shl16(v)

\* The offsets the firmware uses beyond the parameters' own registers.
PL_REG_CTRL == 256
PL_REG_STATUS == 260
PL_REG_FW_VERSION == 264
PL_REG_DEVICE_ID == 268

\* Eight address lines reach the register file.
Decoded(offset) == offset % 256

\* pl_write32 and pl_read32.
PlWrite32(r, offset, word) ==
    [a \in Writable |->
        IF a # Decoded(offset) THEN r[a]
        ELSE IF a = ADDR_TRIG_ARM THEN <<0, word[2] % 2>> ELSE word]
PlRead32(r, offset) == r[Decoded(offset)]

\* sync_params_to_pl; the FPGA's registers are decoded, so that setting and
\* clearing bit 2 of "CTRL" is done to whatever PL_REG_CTRL reaches.
SyncParams(table, r) ==
    LET Put(s, id) == PlWrite32(s, Register(id), RegisterWord(id, table[id]))
        r1 == Put(Put(Put(Put(r, PARAM_VIN), PARAM_L), PARAM_C), PARAM_R_LOAD)
        r2 == Put(Put(Put(r1, PARAM_R_L), PARAM_VF), PARAM_IL_MAX)
        r3 == PlWrite32(r2, ADDR_DAC_SCALE_VOUT, <<13107, 0>>)
        r4 == PlWrite32(r3, ADDR_DAC_SCALE_IL, <<6553, 32768>>)
        r5 == Put(r4, PARAM_DAC_UPDATE_DIV)
        ctrl == PlRead32(r5, PL_REG_CTRL)
        low == ctrl[2] - 4 * ((ctrl[2] \div 4) % 2)
        r6 == PlWrite32(r5, PL_REG_CTRL, <<ctrl[1], low + 4>>)
    IN  PlWrite32(r6, PL_REG_CTRL, <<ctrl[1], low>>)

\* platform_init_pl and params_init on registers that come up as zero.
BootRegs ==
    LET r0 == [a \in Writable |-> Word(0)]
        r1 == PlWrite32(PlWrite32(r0, PL_REG_CTRL, Word(2)), PL_REG_CTRL, Word(0))
        r2 == SyncParams(Default, r1)
        r3 == PlWrite32(r2, PL_REG_FW_VERSION, <<1, 0>>)
        r4 == PlWrite32(r3, PL_REG_DEVICE_ID, <<0, 1>>)
        r5 == PlWrite32(r4, ADDR_DAC_CTRL, Word(1))
    IN  PlWrite32(r5, ADDR_DAC_CTRL, Word(0))

Init ==
    /\ g_params = Default /\ regs = BootRegs /\ pending = <<>>
    /\ request = [cmd |-> "none"] /\ out = [cmd |-> "none"]

-----------------------------------------------------------------------------
(* Reading and writing a parameter *)

ParamResp(id, word) == [cmd |-> "CMD_PARAM_RESP", id |-> id, value |-> word]
Done == [cmd |-> "CMD_PARAM_RESP"]
BuildError(code) == [cmd |-> "CMD_ERROR", code |-> code]

\* Mutant: a read of the input voltage goes to its register.
ParamsReadPl(id) ==
    IF id = PARAM_FW_VERSION THEN PlRead32(regs, PL_REG_FW_VERSION)
    ELSE IF id = PARAM_DEVICE_ID THEN PlRead32(regs, PL_REG_DEVICE_ID)
    ELSE IF id = PARAM_VIN THEN Word(PlRead32(regs, ADDR_VIN)[1])
    ELSE Word(g_params[id])

\* params_read of an id it knows.
ParamsRead(id) ==
    IF id = PARAM_FW_VERSION THEN PlRead32(regs, PL_REG_FW_VERSION)
    ELSE IF id = PARAM_DEVICE_ID THEN PlRead32(regs, PL_REG_DEVICE_ID)
    ELSE Word(g_params[id])

\* What params_write answers to an entry.
WriteError(e) ==
    IF e.id \notin Mirrored THEN "ERR_INVALID_PARAM_ID"
    ELSE IF ~InRange(e.id, e.value) THEN "ERR_PARAM_RANGE" ELSE "ERR_NONE"

\* Mutant: the register is written from the mirror before the mirror is.
AcceptStale(e) ==
    /\ g_params' = [g_params EXCEPT ![e.id] = e.value]
    /\ regs' = IF e.id = PARAM_F_SW THEN regs
               ELSE PlWrite32(regs, Register(e.id), RegisterWord(e.id, g_params[e.id]))

\* What it does when it accepts one.  The frequency has no register.
Accept(e) ==
    /\ g_params' = [g_params EXCEPT ![e.id] = e.value]
    /\ regs' = IF e.id = PARAM_F_SW THEN regs
               ELSE PlWrite32(regs, Register(e.id), RegisterWord(e.id, e.value))

-----------------------------------------------------------------------------
(* The commands *)

Entries == [id : Ids, value : Values]
Triggers == [src : Sources, edge : Edges, level : Levels, pre : Levels]
Batches == UNION {[1 .. n -> Entries] : n \in 0 .. MaxBatch}

\* The dispatcher takes a command and answers it in the same step.
Execute(command, frame) ==
    /\ pending = <<>> /\ UNCHANGED pending
    /\ request' = command /\ out' = frame

\* Mutant: the mirror is written before the range is checked.
WriteParamEarly(e) ==
    LET command == [cmd |-> "CMD_WRITE_PARAM", entry |-> e] IN
    \/ /\ WriteError(e) = "ERR_NONE"
       /\ Execute(command, ParamResp(e.id, Word(e.value)))
       /\ Accept(e)
    \/ /\ WriteError(e) # "ERR_NONE"
       /\ Execute(command, BuildError(WriteError(e)))
       /\ g_params' = IF e.id \in Mirrored THEN [g_params EXCEPT ![e.id] = e.value]
                      ELSE g_params
       /\ UNCHANGED regs

WriteParam(e) ==
    LET command == [cmd |-> "CMD_WRITE_PARAM", entry |-> e] IN
    \/ /\ WriteError(e) = "ERR_NONE"
       /\ Execute(command, ParamResp(e.id, Word(e.value)))
       /\ Accept(e)
    \/ /\ WriteError(e) # "ERR_NONE"
       /\ Execute(command, BuildError(WriteError(e)))
       /\ UNCHANGED <<g_params, regs>>

ReadParam(id) ==
    /\ Execute([cmd |-> "CMD_READ_PARAM", id |-> id],
               IF id \in Mirrored \cup {PARAM_FW_VERSION, PARAM_DEVICE_ID}
               THEN ParamResp(id, ParamsRead(id)) ELSE BuildError("ERR_INVALID_PARAM_ID"))
    /\ UNCHANGED <<g_params, regs>>

\* params_write_batch begins; an empty batch is answered at once.
BatchBegin(batch) ==
    /\ pending = <<>> /\ pending' = batch
    /\ request' = [cmd |-> "CMD_WRITE_PARAM_BATCH", entries |-> batch]
    /\ out' = IF batch = <<>> THEN Done ELSE out
    /\ UNCHANGED <<g_params, regs>>

\* Mutant: a batch goes on after an entry that fails.
BatchEntryGoesOn ==
    /\ pending # <<>> /\ UNCHANGED request
    /\ pending' = Tail(pending)
    /\ out' = IF pending' = <<>> THEN Done ELSE out
    /\ IF WriteError(Head(pending)) = "ERR_NONE" THEN Accept(Head(pending))
       ELSE UNCHANGED <<g_params, regs>>

\* One entry; the first that fails ends the batch.
BatchEntry ==
    /\ pending # <<>> /\ UNCHANGED request
    /\ \/ /\ WriteError(Head(pending)) = "ERR_NONE"
          /\ Accept(Head(pending))
          /\ pending' = Tail(pending)
          /\ out' = IF pending' = <<>> THEN Done ELSE out
       \/ /\ WriteError(Head(pending)) # "ERR_NONE"
          /\ pending' = <<>>
          /\ out' = BuildError(WriteError(Head(pending)))
          /\ UNCHANGED <<g_params, regs>>

\* Source and edge share a register; PRE is used only as a switch.
SetTrigger(t) ==
    /\ Execute([cmd |-> "CMD_SET_TRIGGER", trigger |-> t], Done)
    /\ regs' = PlWrite32(PlWrite32(PlWrite32(regs,
                   ADDR_TRIG_SRC, Word(4 * t.src + (t.edge % 4))),
                   ADDR_TRIG_LEVEL, Word(t.level)),
                   ADDR_TRIG_ARM, Word(IF t.pre > 0 THEN 1 ELSE 0))
    /\ UNCHANGED g_params

\* 0 stop, 1 start, 2 reset (the bit set and cleared), 3 soft trigger.
SimCtrl(ctrl) ==
    /\ Execute([cmd |-> "CMD_SIM_CTRL", ctrl |-> ctrl],
               IF ctrl \in 0 .. 3 THEN Done ELSE BuildError("ERR_INVALID_CMD"))
    /\ UNCHANGED g_params
    /\ \/ ctrl \in {0, 1} /\ regs' = PlWrite32(regs, PL_REG_CTRL, Word(ctrl))
       \/ /\ ctrl = 2
          /\ regs' = PlWrite32(PlWrite32(regs, PL_REG_CTRL, Word(2)), PL_REG_CTRL, Word(0))
       \/ /\ ctrl = 3
          /\ regs' = PlWrite32(PlWrite32(regs, ADDR_TRIG_SRC, Word(0)), ADDR_TRIG_ARM, Word(1))
       \/ ctrl \notin 0 .. 3 /\ UNCHANGED regs

GetStatus ==
    LET low == PlRead32(regs, PL_REG_STATUS)[2]
        Bit(i) == (low \div 2^i) % 2
    IN  /\ Execute([cmd |-> "CMD_GET_STATUS"],
                   [cmd |-> "CMD_STATUS_RESP", state |-> Bit(0),
                    flags |-> (1 - Bit(1)) + 2 * Bit(2)])
        /\ UNCHANGED <<g_params, regs>>

\* Writes a pattern to the version register, reads it back, writes v1.0.0.
SelfTest ==
    LET pattern == <<57005, 48879>>
        tested == PlWrite32(regs, PL_REG_FW_VERSION, pattern)
    IN  /\ Execute([cmd |-> "CMD_SELF_TEST"],
                   [cmd |-> "CMD_SELF_TEST_RESP",
                    ok |-> PlRead32(tested, PL_REG_FW_VERSION) = pattern])
        /\ regs' = PlWrite32(tested, PL_REG_FW_VERSION, <<1, 0>>)
        /\ UNCHANGED g_params

\* A payload of the wrong length, or a command nobody knows.
Malformed(command, code) ==
    /\ Execute([cmd |-> command, short |-> TRUE], BuildError(code))
    /\ UNCHANGED <<g_params, regs>>

Sized == {"CMD_WRITE_PARAM", "CMD_READ_PARAM", "CMD_WRITE_PARAM_BATCH",
          "CMD_SET_TRIGGER", "CMD_SIM_CTRL"}

Next ==
    \/ \E e \in Entries : WriteParam(e)
    \/ \E id \in Ids : ReadParam(id)
    \/ \E batch \in Batches : BatchBegin(batch)
    \/ BatchEntry
    \/ \E t \in Triggers : SetTrigger(t)
    \/ \E ctrl \in 0 .. 4 : SimCtrl(ctrl)
    \/ GetStatus
    \/ SelfTest
    \/ \E command \in Sized : Malformed(command, "ERR_FRAME_LEN")
    \/ Malformed("unknown", "ERR_INVALID_CMD")

Spec == Init /\ [][Next]_vars

-----------------------------------------------------------------------------
(* Properties *)

Half == {x \in Nat : x < 65536}

TypeOK ==
    /\ DOMAIN g_params = Mirrored
    /\ \A id \in Mirrored : g_params[id] \in Nat /\ InRange(id, g_params[id])
    /\ regs \in [Writable -> Half \X Half]
    /\ pending \in Seq(Entries)

\* The solver's registers always hold the coefficients of the parameters in
\* the mirror, whatever mixture of writes, batches that failed half-way, run
\* control and self tests came before: for every parameter but the two whose
\* registers the control offsets alias, VIN and C.
RegsMirror ==
    \A id \in Mirrored \ {PARAM_F_SW, PARAM_VIN, PARAM_C} :
        regs[Register(id)] = RegisterWord(id, g_params[id])

\* The step that answers a command with an error has changed nothing: neither
\* the mirror nor the FPGA holds a value the host was told was refused.
ErrorChangesNothing ==
    [][pending' = <<>> /\ out'.cmd = "CMD_ERROR" => UNCHANGED <<g_params, regs>>]_vars

\* The entries of the batch before the first that cannot be written.
Good(batch, k) == \A j \in 1 .. k : WriteError(batch[j]) = "ERR_NONE"

\* The outcome of a batch as its sender can work it out from its answer: every
\* entry before the first bad one is written, a later entry for the same
\* parameter winning; the error is that of the bad entry.
BatchOutcome ==
    request.cmd = "CMD_WRITE_PARAM_BATCH" /\ "entries" \in DOMAIN request /\ pending = <<>> =>
        LET batch == request.entries
            good == CHOOSE k \in 0 .. Len(batch) :
                        Good(batch, k) /\ (k = Len(batch) \/ ~Good(batch, k + 1))
        IN  /\ \A j \in 1 .. good :
                  \/ g_params[batch[j].id] = batch[j].value
                  \/ \E i \in j + 1 .. good : batch[i].id = batch[j].id
            /\ out = IF good = Len(batch) THEN Done ELSE BuildError(WriteError(batch[good + 1]))

\* An answer that names a parameter carries its value in the mirror, whatever
\* has been done to the registers since it was written.
AnswersTheMirror ==
    pending = <<>> /\ "id" \in DOMAIN out /\ out.id \in Mirrored =>
        out.value = Word(g_params[out.id])
====
