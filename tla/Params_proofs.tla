---- MODULE Params_proofs ----
(***************************************************************************)
(* The mirror and the registers for every set of ids, values and batches.  *)
(* TypeOK gives the addresses and ids their ranges; RegsMirror needs it to *)
(* know that what is accepted has a register, and that the registers the   *)
(* control offsets reach (VIN, L as a read, C and R_LOAD) are not among    *)
(* those it speaks of.  BatchInv follows a batch entry by entry: how many  *)
(* of its entries are written is what its answer will say.                 *)
(***************************************************************************)
EXTENDS Params, SequenceTheorems, TLAPS

\* The parameters that RegsMirror speaks of.
Kept == Mirrored \ {PARAM_F_SW, PARAM_VIN, PARAM_C}

\* The ids are the numbers params.h gives them.
LEMMA MirroredIds ==
    /\ Mirrored = {1, 2, 3, 4, 5, 6, 7, 8, 11}
    /\ Kept = {1, 3, 5, 6, 8, 11}
  BY DEF Mirrored, Kept, PARAM_F_SW, PARAM_VIN, PARAM_C, PARAM_DAC_UPDATE_DIV

\* Every parameter but the frequency has a register of its own.
LEMMA RegisterFacts ==
    ASSUME NEW id \in Mirrored \ {PARAM_F_SW}
    PROVE  /\ Register(id) \in Writable
           /\ Decoded(Register(id)) = Register(id)
           /\ Register(id) # ADDR_TRIG_ARM
           /\ id \in Kept => Register(id) \notin {ADDR_VIN, ADDR_C_VAL, ADDR_R_LOAD}
           /\ \A j \in Mirrored \ {PARAM_F_SW} : Register(id) = Register(j) => id = j
  <1>1. id \in {1, 2, 3, 4, 5, 6, 8, 11}
    BY MirroredIds DEF PARAM_F_SW
  <1>2. \A j \in Mirrored \ {PARAM_F_SW} : j \in {1, 2, 3, 4, 5, 6, 8, 11}
    BY MirroredIds DEF PARAM_F_SW
  <1>3. \A j \in {1, 2, 3, 4, 5, 6, 8, 11} :
            Register(j) = IF j = 1 THEN 4 ELSE IF j = 2 THEN 8 ELSE IF j = 3 THEN 16 ELSE
                          IF j = 4 THEN 0 ELSE IF j = 5 THEN 20 ELSE IF j = 6 THEN 24 ELSE
                          IF j = 8 THEN 28 ELSE 48
    BY DEF Register, Registers, ADDR_VIN, ADDR_L_VAL, ADDR_C_VAL, ADDR_INV_R_LOAD, ADDR_R_L,
       ADDR_VF, ADDR_IL_MAX, ADDR_DAC_UPDATE_DIV
  <1>4. Register(id) \in Writable /\ Decoded(Register(id)) = Register(id)
        /\ Register(id) # ADDR_TRIG_ARM
    BY <1>1, <1>3 DEF Writable, Decoded, ADDR_VIN, ADDR_L_VAL, ADDR_C_VAL, ADDR_INV_R_LOAD,
       ADDR_R_L, ADDR_VF, ADDR_IL_MAX, ADDR_DAC_UPDATE_DIV, ADDR_TRIG_ARM
  <1>5. id \in Kept => Register(id) \notin {ADDR_VIN, ADDR_C_VAL, ADDR_R_LOAD}
    BY <1>3, MirroredIds DEF ADDR_VIN, ADDR_C_VAL, ADDR_R_LOAD
  <1>6. \A j \in Mirrored \ {PARAM_F_SW} : Register(id) = Register(j) => id = j
    BY <1>1, <1>2, <1>3
  <1>7. QED BY <1>4, <1>5, <1>6

-----------------------------------------------------------------------------
(* Words *)

Words == Half \X Half

\* A number is cut to the two halves of a register.
LEMMA WordType == ASSUME NEW v \in Nat PROVE Word(v) \in Words
  <1>0. v \div 65536 \in Nat
    OBVIOUS
  <1>1. (v \div 65536) % 65536 \in Half /\ v % 65536 \in Half
    BY <1>0 DEF Half
  <1>2. QED BY <1>1 DEF Word, Words

\* A shift by 16 leaves the lower half of the number in the upper one.
LEMMA Shl16Type == ASSUME NEW v \in Nat PROVE Shl16(v) \in Words
  <1>1. v % 65536 \in Half /\ 0 \in Half
    BY DEF Half
  <1>2. QED BY <1>1 DEF Shl16, Words

\* One hexadecimal digit of a division.
LEMMA DigitBound ==
    ASSUME NEW c \in Nat, c > 0, NEW r \in 0 .. c - 1
    PROVE  (16 * r) \div c \in 0 .. 15 /\ (16 * r) % c \in 0 .. c - 1
  OBVIOUS

\* dt/C is a word.
LEMMA DtOverCType == ASSUME NEW c \in Nat, c > 0 PROVE DtOverC(c) \in Words
  <1> DEFINE Digit(r) == (16 * r) \div c
             Rest(r) == (16 * r) % c
             r0 == 100000 % c
             r1 == Rest(r0)
             r2 == Rest(r1)
             r3 == Rest(r2)
             r4 == Rest(r3)
             r5 == Rest(r4)
  <1>1. \A r \in 0 .. c - 1 : Digit(r) \in 0 .. 15 /\ Rest(r) \in 0 .. c - 1
    BY DigitBound
  <1>2. r0 \in 0 .. c - 1
    OBVIOUS
  <1> HIDE DEF Digit, Rest, r0
  <1>3. r1 \in 0 .. c - 1 /\ r2 \in 0 .. c - 1 /\ r3 \in 0 .. c - 1
        /\ r4 \in 0 .. c - 1 /\ r5 \in 0 .. c - 1
    BY <1>1, <1>2
  <1> HIDE DEF r1, r2, r3, r4, r5
  <1> DEFINE q == (100000 \div c) % 256
  <1>4. q \in 0 .. 255
    OBVIOUS
  <1> HIDE DEF q
  <1>5. 256 * q + 16 * Digit(r0) + Digit(r1) \in Half
    <2>1. Digit(r0) \in 0 .. 15 /\ Digit(r1) \in 0 .. 15
      BY <1>1, <1>2, <1>3
    <2>2. /\ 256 * q + 16 * Digit(r0) + Digit(r1) \in Nat
          /\ 256 * q + 16 * Digit(r0) + Digit(r1) < 65536
      BY <2>1, <1>4, SMTT(60)
    <2>3. QED BY <2>2 DEF Half
  <1>6. 4096 * Digit(r2) + 256 * Digit(r3) + 16 * Digit(r4) + Digit(r5) \in Half
    <2>1. /\ Digit(r2) \in 0 .. 15 /\ Digit(r3) \in 0 .. 15
          /\ Digit(r4) \in 0 .. 15 /\ Digit(r5) \in 0 .. 15
      BY <1>1, <1>3
    <2>2. PICK d \in 0 .. 15, e \in 0 .. 15, f \in 0 .. 15, g \in 0 .. 15 :
              d = Digit(r2) /\ e = Digit(r3) /\ f = Digit(r4) /\ g = Digit(r5)
      BY <2>1
    <2>3. 4096 * d + 256 * e + 16 * f + g \in Nat /\ 4096 * d + 256 * e + 16 * f + g < 65536
      OBVIOUS
    <2>4. QED BY <2>2, <2>3 DEF Half
  <1>7. QED
    BY <1>5, <1>6 DEF Words, DtOverC, Digit, Rest, r0, r1, r2, r3, r4, r5, q

\* Every value in the range of a parameter has a word.
LEMMA RegisterWordType ==
    ASSUME NEW id \in Mirrored, NEW v \in Nat, InRange(id, v)
    PROVE  RegisterWord(id, v) \in Words
  <1>1. CASE id = PARAM_L
    <2>1. v >= 100 /\ v > 0
      BY <1>1 DEF InRange, MinValue, PARAM_L
    <2>2. \A n \in Nat : n \div v \in Nat
      BY <2>1
    <2>3. DtOverL(v) \in Words
      BY <2>2, WordType, SMT DEF DtOverL
    <2>4. QED BY <1>1, <2>3 DEF RegisterWord
  <1>2. CASE id = PARAM_C
    <2>1. v > 0
      BY <1>2 DEF InRange, MinValue, PARAM_C
    <2>2. QED BY <1>2, <2>1, DtOverCType DEF RegisterWord, PARAM_C, PARAM_L
  <1>3. CASE id = PARAM_R_LOAD
    <2>1. v > 0
      BY <1>3 DEF InRange, MinValue, PARAM_R_LOAD
    <2>2. 1000000 \div v \in Nat
      BY <2>1
    <2>3. QED BY <1>3, <2>2, Shl16Type DEF RegisterWord, PARAM_R_LOAD, PARAM_L, PARAM_C
  <1>4. CASE id = PARAM_DAC_UPDATE_DIV
    BY <1>4, WordType DEF RegisterWord, PARAM_DAC_UPDATE_DIV, PARAM_L, PARAM_C, PARAM_R_LOAD
  <1>5. CASE id \notin {PARAM_L, PARAM_C, PARAM_R_LOAD, PARAM_DAC_UPDATE_DIV}
    BY <1>5, Shl16Type DEF RegisterWord
  <1>6. QED BY <1>1, <1>2, <1>3, <1>4, <1>5

\* Setting or clearing bit 2 of a half word gives a half word.
LEMMA BitTwo ==
    ASSUME NEW x \in Nat, x < 65536
    PROVE  LET low == x - 4 * ((x \div 4) % 2)
           IN  low \in Nat /\ low < 65536 /\ low + 4 \in Nat /\ low + 4 < 65536
  <1>1. PICK n \in Nat : n = x \div 4
    OBVIOUS
  <1>2. 4 * n <= x /\ x < 4 * n + 4
    BY <1>1
  <1>3. n % 2 \in {0, 1}
    OBVIOUS
  <1>4. CASE n % 2 = 0
    <2>1. PICK m \in Nat : n = 2 * m
      BY <1>4
    <2>2. x + 4 < 65536
      BY <1>2, <2>1
    <2>3. QED BY <1>1, <1>4, <2>2
  <1>5. CASE n % 2 = 1
    <2>1. n >= 1
      BY <1>5
    <2>2. QED BY <1>1, <1>2, <1>5, <2>1
  <1>6. QED BY <1>3, <1>4, <1>5

-----------------------------------------------------------------------------
(* Register files *)

Files == [Writable -> Words]

\* The registers of the parameters in S hold the words of a table.
Holds(S, r, table) == \A id \in S : r[Register(id)] = RegisterWord(id, table[id])

\* A write gives the register file its word at the decoded address, and only
\* there.
LEMMA WriteEffect ==
    ASSUME NEW r \in Files, NEW offset \in Nat, NEW w \in Words
    PROVE  /\ PlWrite32(r, offset, w) \in Files
           /\ \A a \in Writable \ {Decoded(offset)} : PlWrite32(r, offset, w)[a] = r[a]
           /\ Decoded(offset) \in Writable \ {ADDR_TRIG_ARM} =>
                 PlWrite32(r, offset, w)[Decoded(offset)] = w
  <1>1. <<0, w[2] % 2>> \in Words
    <2>1. w[2] \in Nat
      BY DEF Words, Half
    <2>2. 0 \in Half /\ w[2] % 2 \in Half
      BY <2>1 DEF Half
    <2>3. QED BY <2>2 DEF Words
  <1>2. QED BY <1>1 DEF PlWrite32, Files

\* The registers of the kept parameters are six of the register file's.
KeptRegisters == {4, 16, 20, 24, 28, 48}

\* The parameters RegsMirror speaks of have registers of their own.
LEMMA KeptFacts == \A id \in Kept : Register(id) \in KeptRegisters /\ Register(id) \in Writable
  <1>1. KeptRegisters \subseteq Writable
    BY DEF KeptRegisters, Writable, ADDR_L_VAL, ADDR_INV_R_LOAD, ADDR_R_L, ADDR_VF, ADDR_IL_MAX,
       ADDR_DAC_UPDATE_DIV
  <1>2. \A id \in {1, 3, 5, 6, 8, 11} : Register(id) \in KeptRegisters
    BY DEF KeptRegisters, Register, Registers, ADDR_L_VAL, ADDR_INV_R_LOAD, ADDR_R_L, ADDR_VF,
       ADDR_IL_MAX, ADDR_DAC_UPDATE_DIV
  <1>3. QED BY <1>1, <1>2, MirroredIds

\* A write elsewhere leaves them alone.
LEMMA WriteElsewhere ==
    ASSUME NEW r \in Files, NEW offset \in Nat, NEW w \in Words, NEW table, NEW S \in SUBSET Kept,
           Decoded(offset) \notin KeptRegisters, Holds(S, r, table)
    PROVE  PlWrite32(r, offset, w) \in Files /\ Holds(S, PlWrite32(r, offset, w), table)
  BY WriteEffect, KeptFacts DEF Holds

\* A parameter's own write makes its register hold its word and leaves those
\* of the other kept parameters alone.
LEMMA WriteParameter ==
    ASSUME NEW r \in Files, NEW id \in Mirrored \ {PARAM_F_SW}, NEW table, NEW S \in SUBSET Kept,
           RegisterWord(id, table[id]) \in Words, Holds(S \ {id}, r, table)
    PROVE  LET after == PlWrite32(r, Register(id), RegisterWord(id, table[id]))
           IN  after \in Files /\ Holds(S, after, table)
  <1> DEFINE after == PlWrite32(r, Register(id), RegisterWord(id, table[id]))
  <1>1. /\ Register(id) \in Writable \ {ADDR_TRIG_ARM} /\ Decoded(Register(id)) = Register(id)
        /\ Register(id) \in Nat
    BY RegisterFacts DEF Writable, ADDR_VIN, ADDR_L_VAL, ADDR_C_VAL, ADDR_R_LOAD, ADDR_INV_R_LOAD,
       ADDR_R_L, ADDR_VF, ADDR_IL_MAX, ADDR_DAC_SCALE_VOUT, ADDR_DAC_SCALE_IL,
       ADDR_DAC_UPDATE_DIV, ADDR_DAC_CTRL, ADDR_TRIG_SRC, ADDR_TRIG_LEVEL, ADDR_TRIG_ARM, ADDR_CTRL
  <1>2. /\ after \in Files
        /\ \A a \in Writable \ {Register(id)} : after[a] = r[a]
        /\ after[Register(id)] = RegisterWord(id, table[id])
    BY <1>1, WriteEffect
  <1>3. ASSUME NEW j \in S PROVE after[Register(j)] = RegisterWord(j, table[j])
    <2>1. CASE j = id
      BY <2>1, <1>2
    <2>2. CASE j # id
      <3>1. Register(j) \in Writable \ {Register(id)}
        BY <2>2, RegisterFacts, KeptFacts DEF Kept
      <3>2. QED BY <3>1, <2>2, <1>2 DEF Holds
    <2>3. QED BY <2>1, <2>2
  <1>4. QED BY <1>2, <1>3 DEF Holds

\* The offsets of everything but the parameters miss the kept registers, the
\* control offsets because eight address lines turn them into VIN, C and R_LOAD.
LEMMA OtherOffsets ==
    \A offset \in {PL_REG_CTRL, PL_REG_FW_VERSION, PL_REG_DEVICE_ID, ADDR_DAC_SCALE_VOUT,
                   ADDR_DAC_SCALE_IL, ADDR_DAC_CTRL, ADDR_TRIG_SRC, ADDR_TRIG_LEVEL, ADDR_TRIG_ARM} :
        offset \in Nat /\ Decoded(offset) \notin KeptRegisters
  BY DEF Decoded, KeptRegisters, PL_REG_CTRL, PL_REG_FW_VERSION, PL_REG_DEVICE_ID,
     ADDR_DAC_SCALE_VOUT, ADDR_DAC_SCALE_IL, ADDR_DAC_CTRL, ADDR_TRIG_SRC, ADDR_TRIG_LEVEL,
     ADDR_TRIG_ARM

\* So a write to one of them leaves the kept registers alone.
LEMMA OtherWrite ==
    ASSUME NEW r \in Files, NEW w \in Words, NEW table, NEW S \in SUBSET Kept, Holds(S, r, table),
           NEW o \in {PL_REG_CTRL, PL_REG_FW_VERSION, PL_REG_DEVICE_ID, ADDR_DAC_SCALE_VOUT,
                      ADDR_DAC_SCALE_IL, ADDR_DAC_CTRL, ADDR_TRIG_SRC, ADDR_TRIG_LEVEL, ADDR_TRIG_ARM}
    PROVE  PlWrite32(r, o, w) \in Files /\ Holds(S, PlWrite32(r, o, w), table)
  <1>1. o \in Nat /\ Decoded(o) \notin KeptRegisters
    BY OtherOffsets
  <1>2. QED BY <1>1, WriteElsewhere

\* The defaults are in range, so each has a word.
LEMMA DefaultInRange ==
    \A id \in Mirrored : /\ Default[id] \in Nat /\ InRange(id, Default[id])
                         /\ RegisterWord(id, Default[id]) \in Words
  <1>1. \A id \in Mirrored : Default[id] \in Nat /\ InRange(id, Default[id])
    BY MirroredIds, SMT DEF Default, DefaultValue, InRange, MinValue, MaxValue
  <1>2. QED BY <1>1, RegisterWordType

\* After boot every kept register holds the default's coefficient.
LEMMA BootHolds == BootRegs \in Files /\ Holds(Kept, BootRegs, Default)
  <1> DEFINE Put(s, id) == PlWrite32(s, Register(id), RegisterWord(id, Default[id]))
             r0 == [a \in Writable |-> Word(0)]
             r1 == PlWrite32(PlWrite32(r0, PL_REG_CTRL, Word(2)), PL_REG_CTRL, Word(0))
  <1>1. \A v \in {0, 1, 2} : Word(v) \in Words
    BY WordType
  <1>2. <<1, 0>> \in Words /\ <<0, 1>> \in Words /\ <<13107, 0>> \in Words /\ <<6553, 32768>> \in Words
    BY DEF Words, Half
  <1>3. r1 \in Files /\ Holds({}, r1, Default)
    BY <1>1, WriteEffect, OtherOffsets DEF Files, Holds
  <1>4. ASSUME NEW s \in Files, NEW S \in SUBSET Kept, Holds(S, s, Default),
               NEW id \in Mirrored \ {PARAM_F_SW}
        PROVE  Put(s, id) \in Files /\ Holds((S \cup {id}) \cap Kept, Put(s, id), Default)
    <2>1. Holds(((S \cup {id}) \cap Kept) \ {id}, s, Default)
      BY <1>4 DEF Holds
    <2>2. QED BY <2>1, WriteParameter, DefaultInRange
  <1>5. ASSUME NEW s \in Files, NEW S \in SUBSET Kept, Holds(S, s, Default), NEW w \in Words,
               NEW o \in {PL_REG_CTRL, PL_REG_FW_VERSION, PL_REG_DEVICE_ID, ADDR_DAC_SCALE_VOUT,
                          ADDR_DAC_SCALE_IL, ADDR_DAC_CTRL}
        PROVE  PlWrite32(s, o, w) \in Files /\ Holds(S, PlWrite32(s, o, w), Default)
    BY <1>5, OtherWrite
  <1> HIDE DEF Put, r1
  <1>6. /\ PARAM_VIN = 4 /\ PARAM_L = 1 /\ PARAM_C = 2 /\ PARAM_R_LOAD = 3 /\ PARAM_R_L = 5
        /\ PARAM_VF = 6 /\ PARAM_IL_MAX = 8 /\ PARAM_DAC_UPDATE_DIV = 11 /\ PARAM_F_SW = 7
    BY DEF PARAM_VIN, PARAM_L, PARAM_C, PARAM_R_LOAD, PARAM_R_L, PARAM_VF, PARAM_IL_MAX,
       PARAM_DAC_UPDATE_DIV, PARAM_F_SW
  <1> DEFINE a1 == Put(r1, PARAM_VIN)
             a2 == Put(a1, PARAM_L)
             a3 == Put(a2, PARAM_C)
             a4 == Put(a3, PARAM_R_LOAD)
             a5 == Put(a4, PARAM_R_L)
             a6 == Put(a5, PARAM_VF)
             a7 == Put(a6, PARAM_IL_MAX)
             a8 == PlWrite32(a7, ADDR_DAC_SCALE_VOUT, <<13107, 0>>)
             a9 == PlWrite32(a8, ADDR_DAC_SCALE_IL, <<6553, 32768>>)
             b1 == Put(a9, PARAM_DAC_UPDATE_DIV)
             ctrl == PlRead32(b1, PL_REG_CTRL)
             low == ctrl[2] - 4 * ((ctrl[2] \div 4) % 2)
             b2 == PlWrite32(b1, PL_REG_CTRL, <<ctrl[1], low + 4>>)
             b3 == PlWrite32(b2, PL_REG_CTRL, <<ctrl[1], low>>)
  <1>7. a2 \in Files /\ Holds({1}, a2, Default)
    <2>1. a1 \in Files /\ Holds(({} \cup {4}) \cap Kept, a1, Default)
      BY <1>3, <1>4, <1>6, MirroredIds
    <2>2. a2 \in Files /\ Holds(((({} \cup {4}) \cap Kept) \cup {1}) \cap Kept, a2, Default)
      BY <2>1, <1>4, <1>6, MirroredIds
    <2>3. QED BY <2>2, MirroredIds DEF Holds
  <1>8. a4 \in Files /\ Holds({1, 3}, a4, Default)
    <2>1. a3 \in Files /\ Holds(({1} \cup {2}) \cap Kept, a3, Default)
      BY <1>7, <1>4, <1>6, MirroredIds
    <2>2. a4 \in Files /\ Holds(((({1} \cup {2}) \cap Kept) \cup {3}) \cap Kept, a4, Default)
      BY <2>1, <1>4, <1>6, MirroredIds
    <2>3. QED BY <2>2, MirroredIds DEF Holds
  <1>9. a6 \in Files /\ Holds({1, 3, 5, 6}, a6, Default)
    <2>1. a5 \in Files /\ Holds(({1, 3} \cup {5}) \cap Kept, a5, Default)
      BY <1>8, <1>4, <1>6, MirroredIds
    <2>2. a6 \in Files /\ Holds(((({1, 3} \cup {5}) \cap Kept) \cup {6}) \cap Kept, a6, Default)
      BY <2>1, <1>4, <1>6, MirroredIds
    <2>3. QED BY <2>2, MirroredIds DEF Holds
  <1>10. a9 \in Files /\ Holds(Kept \ {11}, a9, Default)
    <2>1. a7 \in Files /\ Holds(({1, 3, 5, 6} \cup {8}) \cap Kept, a7, Default)
      BY <1>9, <1>4, <1>6, MirroredIds
    <2>2. a7 \in Files /\ Holds(Kept \ {11}, a7, Default)
      BY <2>1, MirroredIds DEF Holds
    <2>3. a8 \in Files /\ Holds(Kept \ {11}, a8, Default)
      BY <2>2, <1>5, <1>2
    <2>4. QED BY <2>3, <1>5, <1>2
  <1>11. b1 \in Files /\ Holds(Kept, b1, Default)
    <2>1. b1 \in Files /\ Holds(((Kept \ {11}) \cup {11}) \cap Kept, b1, Default)
      BY <1>10, <1>4, <1>6, MirroredIds
    <2>2. QED BY <2>1 DEF Holds
  <1> HIDE DEF a1, a2, a3, a4, a5, a6, a7, a8, a9, b1
  <1>12. <<ctrl[1], low + 4>> \in Words /\ <<ctrl[1], low>> \in Words
    <2>1. Decoded(PL_REG_CTRL) = 0 /\ 0 \in Writable
      BY DEF Decoded, PL_REG_CTRL, Writable, ADDR_VIN
    <2>2. ctrl \in Words
      BY <1>11, <2>1 DEF PlRead32, Files
    <2>3. ctrl[1] \in Half /\ ctrl[2] \in Half
      BY <2>2 DEF Words
    <2>4. PICK x \in Nat : x = ctrl[2] /\ x < 65536
      BY <2>3 DEF Half
    <2>5. /\ x - 4 * ((x \div 4) % 2) \in Nat /\ x - 4 * ((x \div 4) % 2) < 65536
          /\ x - 4 * ((x \div 4) % 2) + 4 \in Nat /\ x - 4 * ((x \div 4) % 2) + 4 < 65536
      BY <2>4, BitTwo
    <2>6. low \in Half /\ low + 4 \in Half
      BY <2>4, <2>5 DEF Half
    <2>7. QED BY <2>3, <2>6 DEF Words
  <1>13. b3 \in Files /\ Holds(Kept, b3, Default)
    <2>1. b2 \in Files /\ Holds(Kept, b2, Default)
      BY <1>5, <1>11, <1>12
    <2>2. QED BY <2>1, <1>5, <1>12
  <1> HIDE DEF b3
  <1>14. /\ PlWrite32(b3, PL_REG_FW_VERSION, <<1, 0>>) \in Files
         /\ Holds(Kept, PlWrite32(b3, PL_REG_FW_VERSION, <<1, 0>>), Default)
    BY <1>13, <1>5, <1>2
  <1> DEFINE c1 == PlWrite32(b3, PL_REG_FW_VERSION, <<1, 0>>)
             c2 == PlWrite32(c1, PL_REG_DEVICE_ID, <<0, 1>>)
             c3 == PlWrite32(c2, ADDR_DAC_CTRL, Word(1))
             c4 == PlWrite32(c3, ADDR_DAC_CTRL, Word(0))
  <1> HIDE DEF c1
  <1>15. c2 \in Files /\ Holds(Kept, c2, Default)
    BY <1>14, <1>5, <1>2 DEF c1
  <1> HIDE DEF c2
  <1>16. c3 \in Files /\ Holds(Kept, c3, Default)
    BY <1>15, <1>5, <1>1
  <1> HIDE DEF c3
  <1>17. c4 \in Files /\ Holds(Kept, c4, Default)
    BY <1>16, <1>5, <1>1
  <1>18. BootRegs = c4
    BY DEF BootRegs, SyncParams, Put, r1, a1, a2, a3, a4, a5, a6, a7, a8, a9, b1, b3, c1, c2, c3
  <1>19. QED BY <1>17, <1>18

-----------------------------------------------------------------------------
(* The invariant *)

Inv == TypeOK /\ RegsMirror

\* RegsMirror is what the lemmas about single writes keep up.
LEMMA MirrorIsHolds == RegsMirror <=> Holds(Kept, regs, g_params)
  BY DEF RegsMirror, Holds, Kept

\* After the start-up the registers follow the defaults, and no batch is pending.
LEMMA InvInit == Init => Inv
  <1> SUFFICES ASSUME Init PROVE Inv
    OBVIOUS
  <1>1. regs \in Files /\ Holds(Kept, regs, g_params)
    BY BootHolds DEF Init
  <1>2. DOMAIN g_params = Mirrored /\ \A id \in Mirrored : g_params[id] \in Nat /\ InRange(id, g_params[id])
    BY DefaultInRange DEF Init, Default
  <1>3. pending \in Seq(Entries)
    BY DEF Init
  <1>4. QED BY <1>1, <1>2, <1>3, MirrorIsHolds DEF Inv, TypeOK, Files, Words

\* An accepted entry keeps the mirror in range and the registers with it.
LEMMA AcceptKeeps ==
    ASSUME Inv, NEW e \in Entries, WriteError(e) = "ERR_NONE", Accept(e)
    PROVE  /\ DOMAIN g_params' = Mirrored
           /\ \A id \in Mirrored : g_params'[id] \in Nat /\ InRange(id, g_params'[id])
           /\ regs' \in Files /\ Holds(Kept, regs', g_params')
  <1>1. e.id \in Mirrored /\ e.value \in Nat /\ InRange(e.id, e.value)
    BY ValuesAssumption DEF Entries, WriteError
  <1>2. /\ DOMAIN g_params = Mirrored /\ regs \in Files /\ Holds(Kept, regs, g_params)
        /\ \A id \in Mirrored : g_params[id] \in Nat /\ InRange(id, g_params[id])
    BY MirrorIsHolds DEF Inv, TypeOK, Files, Words
  <1>3. /\ DOMAIN g_params' = Mirrored /\ g_params'[e.id] = e.value
        /\ \A id \in Mirrored \ {e.id} : g_params'[id] = g_params[id]
    BY <1>1, <1>2 DEF Accept
  <1>4. \A id \in Mirrored : g_params'[id] \in Nat /\ InRange(id, g_params'[id])
    BY <1>1, <1>2, <1>3
  <1>5. Holds(Kept \ {e.id}, regs, g_params')
    BY <1>2, <1>3 DEF Holds, Kept
  <1>6. CASE e.id = PARAM_F_SW
    BY <1>2, <1>3, <1>4, <1>5, <1>6 DEF Accept, Holds, Kept
  <1>7. CASE e.id # PARAM_F_SW
    <2>1. RegisterWord(e.id, g_params'[e.id]) \in Words
      BY <1>1, <1>3, RegisterWordType
    <2>2. regs' = PlWrite32(regs, Register(e.id), RegisterWord(e.id, g_params'[e.id]))
      BY <1>3, <1>7 DEF Accept
    <2>3. regs' \in Files /\ Holds(Kept, regs', g_params')
      BY <1>1, <1>2, <1>5, <1>7, <2>1, <2>2, WriteParameter
    <2>4. QED BY <1>3, <1>4, <2>3
  <1>8. QED BY <1>6, <1>7

\* A step that writes no parameter and only other registers.
LEMMA MirrorKept ==
    ASSUME Inv, UNCHANGED g_params, regs' \in Files, Holds(Kept, regs', g_params),
           pending' \in Seq(Entries)
    PROVE  Inv'
  BY DEF Inv, TypeOK, RegsMirror, Holds, Kept, Files, Words

\* The inductive step, command by command.
LEMMA InvNext == Inv /\ [Next]_vars => Inv'
  <1> SUFFICES ASSUME Inv, [Next]_vars PROVE Inv'
    OBVIOUS
  <1>1. /\ regs \in Files /\ Holds(Kept, regs, g_params) /\ pending \in Seq(Entries)
        /\ Holds(Kept, regs', g_params') => RegsMirror'
    BY MirrorIsHolds DEF Inv, TypeOK, Files, Words, RegsMirror, Holds, Kept
  <1>2. ASSUME UNCHANGED <<g_params, regs>>, pending' \in Seq(Entries) PROVE Inv'
    BY <1>1, <1>2, MirrorKept
  <1>3. ASSUME NEW e \in Entries, WriteError(e) = "ERR_NONE", Accept(e), pending' \in Seq(Entries)
        PROVE  Inv'
    BY <1>1, <1>3, AcceptKeeps DEF Inv, TypeOK, Files, Words
  <1>4. CASE \E e \in Entries : WriteParam(e)
    BY <1>1, <1>2, <1>3, <1>4 DEF WriteParam, Execute
  <1>5. CASE \E id \in Ids : ReadParam(id)
    BY <1>1, <1>2, <1>5 DEF ReadParam, Execute
  <1>6. CASE \E batch \in Batches : BatchBegin(batch)
    <2>1. PICK batch \in Batches : BatchBegin(batch)
      BY <1>6
    <2>2. batch \in Seq(Entries)
      BY BatchAssumption DEF Batches
    <2>3. QED BY <1>2, <2>1, <2>2 DEF BatchBegin
  <1>7. CASE BatchEntry
    <2>1. Head(pending) \in Entries /\ Tail(pending) \in Seq(Entries) /\ <<>> \in Seq(Entries)
      BY <1>1, <1>7 DEF BatchEntry
    <2>2. QED BY <1>2, <1>3, <1>7, <2>1 DEF BatchEntry
  <1>8. CASE \E t \in Triggers : SetTrigger(t)
    <2>1. PICK t \in Triggers : SetTrigger(t)
      BY <1>8
    <2>2. /\ Word(4 * t.src + (t.edge % 4)) \in Words /\ Word(t.level) \in Words
          /\ Word(IF t.pre > 0 THEN 1 ELSE 0) \in Words
      <3>1. t.src \in Nat /\ t.edge \in Nat /\ t.level \in Nat
        BY TriggerAssumption DEF Triggers
      <3>2. 4 * t.src + (t.edge % 4) \in Nat
        BY <3>1
      <3>3. QED BY <3>1, <3>2, WordType
    <2> DEFINE s1 == PlWrite32(regs, ADDR_TRIG_SRC, Word(4 * t.src + (t.edge % 4)))
               s2 == PlWrite32(s1, ADDR_TRIG_LEVEL, Word(t.level))
               s3 == PlWrite32(s2, ADDR_TRIG_ARM, Word(IF t.pre > 0 THEN 1 ELSE 0))
    <2>3. regs' \in Files /\ Holds(Kept, regs', g_params)
      <3>1. s1 \in Files /\ Holds(Kept, s1, g_params)
        BY <1>1, <2>2, OtherWrite
      <3>2. s2 \in Files /\ Holds(Kept, s2, g_params)
        <4> HIDE DEF s1
        <4>1. QED BY <3>1, <2>2, OtherWrite
      <3>3. s3 \in Files /\ Holds(Kept, s3, g_params)
        <4> HIDE DEF s2
        <4>1. QED BY <3>2, <2>2, OtherWrite
      <3>4. regs' = s3
        BY <2>1 DEF SetTrigger
      <3>5. QED BY <3>3, <3>4
    <2>4. QED BY <1>1, <2>1, <2>3, MirrorKept DEF SetTrigger, Execute
  <1>9. CASE \E ctrl \in 0 .. 4 : SimCtrl(ctrl)
    <2>1. PICK ctrl \in 0 .. 4 : SimCtrl(ctrl)
      BY <1>9
    <2>2. Word(0) \in Words /\ Word(1) \in Words /\ Word(2) \in Words
      BY WordType
    <2>3. regs' \in Files /\ Holds(Kept, regs', g_params)
      <3>1. ASSUME NEW r \in Files, Holds(Kept, r, g_params), NEW w \in Words,
                   NEW o \in {PL_REG_CTRL, ADDR_TRIG_SRC, ADDR_TRIG_ARM}
            PROVE  PlWrite32(r, o, w) \in Files /\ Holds(Kept, PlWrite32(r, o, w), g_params)
        BY <3>1, OtherWrite
      <3>2. CASE ctrl \in {0, 1} /\ regs' = PlWrite32(regs, PL_REG_CTRL, Word(ctrl))
        BY <1>1, <2>2, <3>1, <3>2
      <3>3. CASE regs' = PlWrite32(PlWrite32(regs, PL_REG_CTRL, Word(2)), PL_REG_CTRL, Word(0))
        <4>1. PlWrite32(regs, PL_REG_CTRL, Word(2)) \in Files
              /\ Holds(Kept, PlWrite32(regs, PL_REG_CTRL, Word(2)), g_params)
          BY <1>1, <2>2, <3>1
        <4>2. QED BY <2>2, <3>1, <3>3, <4>1
      <3>4. CASE regs' = PlWrite32(PlWrite32(regs, ADDR_TRIG_SRC, Word(0)), ADDR_TRIG_ARM, Word(1))
        <4>1. PlWrite32(regs, ADDR_TRIG_SRC, Word(0)) \in Files
              /\ Holds(Kept, PlWrite32(regs, ADDR_TRIG_SRC, Word(0)), g_params)
          BY <1>1, <2>2, <3>1
        <4>2. QED BY <2>2, <3>1, <3>4, <4>1
      <3>5. CASE UNCHANGED regs
        BY <1>1, <3>5
      <3>6. QED BY <2>1, <3>2, <3>3, <3>4, <3>5 DEF SimCtrl
    <2>4. QED BY <1>1, <2>1, <2>3, MirrorKept DEF SimCtrl, Execute
  <1>10. CASE GetStatus
    BY <1>1, <1>2, <1>10 DEF GetStatus, Execute
  <1>11. CASE SelfTest
    <2>1. <<57005, 48879>> \in Words /\ <<1, 0>> \in Words
      BY DEF Words, Half
    <2> DEFINE tested == PlWrite32(regs, PL_REG_FW_VERSION, <<57005, 48879>>)
    <2>2. regs' \in Files /\ Holds(Kept, regs', g_params)
      <3>1. tested \in Files /\ Holds(Kept, tested, g_params)
        BY <1>1, <2>1, OtherWrite
      <3>2. regs' = PlWrite32(tested, PL_REG_FW_VERSION, <<1, 0>>)
        BY <1>11 DEF SelfTest
      <3> HIDE DEF tested
      <3>3. QED BY <2>1, <3>1, <3>2, OtherWrite
    <2>3. QED BY <1>1, <1>11, <2>2, MirrorKept DEF SelfTest, Execute
  <1>12. CASE \E command \in Sized : Malformed(command, "ERR_FRAME_LEN")
    BY <1>1, <1>2, <1>12 DEF Malformed, Execute
  <1>13. CASE Malformed("unknown", "ERR_INVALID_CMD")
    BY <1>1, <1>2, <1>13 DEF Malformed, Execute
  <1>14. CASE UNCHANGED vars
    BY <1>1, <1>2, <1>14 DEF vars
  <1>15. QED
    BY <1>4, <1>5, <1>6, <1>7, <1>8, <1>9, <1>10, <1>11, <1>12, <1>13, <1>14 DEF Next

\* The mirror and the registers have their types, every parameter is within
\* its range and every word fits 32 bits, for all ids and values a host sends.
THEOREM TypeCorrect == Spec => []TypeOK
  BY InvInit, InvNext, PTL DEF Spec, Inv

\* The solver's coefficients are those of the mirror's parameters, VIN and C
\* apart, in every state, in the middle of a batch too.
THEOREM RegistersFollowMirror == Spec => []RegsMirror
  BY InvInit, InvNext, PTL DEF Spec, Inv

\* Whatever a host was told was refused has left no trace.
THEOREM RefusalsAreVoid == Spec => ErrorChangesNothing
  <1>1. ASSUME [Next]_vars
        PROVE  [pending' = <<>> /\ out'.cmd = "CMD_ERROR" => UNCHANGED <<g_params, regs>>]_vars
    <2> SUFFICES ASSUME Next, pending' = <<>>, out'.cmd = "CMD_ERROR"
                 PROVE  UNCHANGED <<g_params, regs>>
      BY <1>1
    <2>1. CASE \E e \in Entries : WriteParam(e)
      BY <2>1 DEF WriteParam, Execute, ParamResp
    <2>2. CASE \E id \in Ids : ReadParam(id)
      BY <2>2 DEF ReadParam
    <2>3. CASE \E batch \in Batches : BatchBegin(batch)
      BY <2>3 DEF BatchBegin
    <2>4. CASE BatchEntry
      BY <2>4 DEF BatchEntry, Done
    <2>5. CASE \E t \in Triggers : SetTrigger(t)
      BY <2>5 DEF SetTrigger, Execute, Done
    <2>6. CASE \E ctrl \in 0 .. 4 : SimCtrl(ctrl)
      BY <2>6 DEF SimCtrl, Execute, Done
    <2>7. CASE GetStatus \/ SelfTest
      BY <2>7 DEF GetStatus, SelfTest, Execute
    <2>8. CASE \/ \E command \in Sized : Malformed(command, "ERR_FRAME_LEN")
               \/ Malformed("unknown", "ERR_INVALID_CMD")
      BY <2>8 DEF Malformed
    <2>9. QED BY <2>1, <2>2, <2>3, <2>4, <2>5, <2>6, <2>7, <2>8 DEF Next
  <1>2. QED BY <1>1, PTL DEF Spec, ErrorChangesNothing

\* A parameter's value in an answer is its value in the mirror.
THEOREM AnswersAreCurrent == Spec => []AnswersTheMirror
  <1>1. Init => AnswersTheMirror
    BY DEF Init, AnswersTheMirror
  <1>2. ASSUME Inv, AnswersTheMirror, [Next]_vars PROVE AnswersTheMirror'
    <2> SUFFICES ASSUME pending' = <<>>, "id" \in DOMAIN out', out'.id \in Mirrored
                 PROVE  out'.value = Word(g_params'[out'.id])
      BY DEF AnswersTheMirror
    <2>1. CASE \E e \in Entries : WriteParam(e)
      <3>1. PICK e \in Entries : WriteParam(e)
        BY <2>1
      <3>2. CASE WriteError(e) = "ERR_NONE"
        <4>1. out' = ParamResp(e.id, Word(e.value)) /\ Accept(e)
          BY <3>1, <3>2 DEF WriteParam, Execute
        <4>2. g_params'[e.id] = e.value
          BY <1>2, <3>2, <4>1 DEF Accept, WriteError, Inv, TypeOK
        <4>3. QED BY <4>1, <4>2 DEF ParamResp
      <3>3. CASE WriteError(e) # "ERR_NONE"
        BY <3>1, <3>3 DEF WriteParam, Execute, BuildError
      <3>4. QED BY <3>2, <3>3
    <2>2. CASE \E id \in Ids : ReadParam(id)
      <3>1. PICK id \in Ids : ReadParam(id)
        BY <2>2
      <3>2. out' = ParamResp(id, ParamsRead(id)) \/ out' = BuildError("ERR_INVALID_PARAM_ID")
        BY <3>1 DEF ReadParam, Execute
      <3>3. out' = ParamResp(id, ParamsRead(id))
        BY <3>2 DEF BuildError
      <3>4. id \in Mirrored /\ id \notin {PARAM_FW_VERSION, PARAM_DEVICE_ID}
        BY <3>3, MirroredIds DEF ParamResp, PARAM_FW_VERSION, PARAM_DEVICE_ID
      <3>5. QED BY <3>1, <3>3, <3>4 DEF ReadParam, ParamResp, ParamsRead
    <2>3. CASE \E batch \in Batches : BatchBegin(batch)
      BY <2>3 DEF BatchBegin, Done
    <2>4. CASE BatchEntry
      BY <2>4 DEF BatchEntry, Done, BuildError
    <2>5. CASE \E t \in Triggers : SetTrigger(t)
      BY <2>5 DEF SetTrigger, Execute, Done
    <2>6. CASE \E ctrl \in 0 .. 4 : SimCtrl(ctrl)
      BY <2>6 DEF SimCtrl, Execute, Done, BuildError
    <2>7. CASE GetStatus \/ SelfTest
      BY <2>7 DEF GetStatus, SelfTest, Execute
    <2>8. CASE \/ \E command \in Sized : Malformed(command, "ERR_FRAME_LEN")
               \/ Malformed("unknown", "ERR_INVALID_CMD")
      BY <2>8 DEF Malformed, Execute, BuildError
    <2>9. CASE UNCHANGED vars
      BY <1>2, <2>9 DEF vars, AnswersTheMirror
    <2>10. QED
      BY <1>2, <2>1, <2>2, <2>3, <2>4, <2>5, <2>6, <2>7, <2>8, <2>9 DEF Next
  <1>3. QED BY <1>1, <1>2, InvInit, InvNext, PTL DEF Spec

-----------------------------------------------------------------------------
(* Batches                                                                  *)

IsBatch == request.cmd = "CMD_WRITE_PARAM_BATCH" /\ "entries" \in DOMAIN request

\* The first n entries have been written to the table, a later one for the same
\* parameter over an earlier.
Written(table, batch, n) ==
    \A j \in 1 .. n : \/ table[batch[j].id] = batch[j].value
                      \/ \E i \in j + 1 .. n : batch[i].id = batch[j].id

\* A batch under way: what has been written was good, and the rest is pending.
UnderWay(batch, n) ==
    /\ batch \in Seq(Entries) /\ n + Len(pending) = Len(batch)
    /\ \A k \in 1 .. Len(pending) : pending[k] = batch[n + k]
    /\ Good(batch, n) /\ Written(g_params, batch, n)

\* A batch that is over: it was written up to its first bad entry.
Over(batch, n) ==
    /\ batch \in Seq(Entries) /\ n \in 0 .. Len(batch)
    /\ Good(batch, n) /\ (n = Len(batch) \/ ~Good(batch, n + 1))
    /\ Written(g_params, batch, n)
    /\ out = IF n = Len(batch) THEN Done ELSE BuildError(WriteError(batch[n + 1]))

BatchInv ==
    /\ pending # <<>> => IsBatch /\ \E n \in Nat : UnderWay(request.entries, n)
    /\ pending = <<>> /\ IsBatch => \E n \in Nat : Over(request.entries, n)

\* There is one place where a batch stops.
LEMMA StopIsUnique ==
    ASSUME NEW batch \in Seq(Entries), NEW n \in 0 .. Len(batch), NEW m \in 0 .. Len(batch),
           Good(batch, n), n = Len(batch) \/ ~Good(batch, n + 1),
           Good(batch, m), m = Len(batch) \/ ~Good(batch, m + 1)
    PROVE  n = m
  <1>1. Len(batch) \in Nat
    OBVIOUS
  <1>2. CASE n < m
    BY <1>1, <1>2 DEF Good
  <1>3. CASE m < n
    BY <1>1, <1>3 DEF Good
  <1>4. QED BY <1>1, <1>2, <1>3

\* Writing the next entry.
LEMMA WriteNext ==
    ASSUME Inv, NEW batch \in Seq(Entries), NEW n \in Nat, n < Len(batch), Good(batch, n),
           Written(g_params, batch, n), WriteError(batch[n + 1]) = "ERR_NONE", Accept(batch[n + 1])
    PROVE  Good(batch, n + 1) /\ Written(g_params', batch, n + 1)
  <1>1. \A j \in 1 .. n + 1 : j \in 1 .. n \/ j = n + 1
    OBVIOUS
  <1>2. Good(batch, n + 1)
    BY <1>1 DEF Good
  <1>3. \A j \in 1 .. n + 1 : batch[j].id \in Mirrored
    BY <1>2 DEF Good, WriteError
  <1>4. \A id \in Mirrored : g_params'[id] = IF id = batch[n + 1].id THEN batch[n + 1].value
                                             ELSE g_params[id]
    BY <1>3 DEF Inv, TypeOK, Accept
  <1>5. ASSUME NEW j \in 1 .. n + 1
        PROVE  \/ g_params'[batch[j].id] = batch[j].value
               \/ \E i \in j + 1 .. n + 1 : batch[i].id = batch[j].id
    <2>1. CASE j = n + 1
      BY <1>3, <1>4, <2>1
    <2>2. CASE j \in 1 .. n /\ batch[j].id = batch[n + 1].id
      BY <2>2
    <2>3. CASE j \in 1 .. n /\ batch[j].id # batch[n + 1].id
      <3>1. g_params'[batch[j].id] = g_params[batch[j].id]
        BY <1>3, <1>4, <2>3
      <3>2. QED BY <2>3, <3>1 DEF Written
    <2>4. QED BY <1>1, <2>1, <2>2, <2>3
  <1>6. QED BY <1>2, <1>5 DEF Written

\* What a command that is no batch leaves behind.
LEMMA OtherCommand ==
    ASSUME pending' = <<>>, ~IsBatch' PROVE BatchInv'
  BY DEF BatchInv

\* One entry of a batch.
LEMMA EntryKeepsBatch ==
    ASSUME Inv, BatchInv, BatchEntry
    PROVE  BatchInv'
  <1>1. pending \in Seq(Entries) /\ pending # <<>> /\ request' = request
    BY DEF Inv, TypeOK, BatchEntry
  <1>2. IsBatch /\ IsBatch'
    BY <1>1 DEF BatchInv, IsBatch
  <1> DEFINE batch == request.entries
  <1>3. PICK n \in Nat : UnderWay(batch, n)
    BY <1>1 DEF BatchInv
  <1> HIDE DEF batch
  <1>4. /\ batch \in Seq(Entries) /\ n < Len(batch) /\ Len(pending) \in Nat \ {0}
        /\ Len(batch) \in Nat /\ n + Len(pending) = Len(batch) /\ batch[n + 1] \in Entries
        /\ Head(pending) = batch[n + 1] /\ Good(batch, n) /\ Written(g_params, batch, n)
    BY <1>1, <1>3 DEF UnderWay
  <1>5. CASE /\ WriteError(Head(pending)) = "ERR_NONE" /\ Accept(Head(pending))
             /\ pending' = Tail(pending)
             /\ out' = IF pending' = <<>> THEN Done ELSE out
    <2>1. Good(batch, n + 1) /\ Written(g_params', batch, n + 1)
      BY <1>4, <1>5, WriteNext
    <2>2. /\ pending' \in Seq(Entries) /\ Len(pending') = Len(pending) - 1
          /\ \A k \in 1 .. Len(pending') : pending'[k] = pending[k + 1]
      BY <1>1, <1>5, HeadTailProperties
    <2> DEFINE left == Len(pending)
               after == Len(pending')
               total == Len(batch)
    <2>3. n + 1 + after = total
      <3>1. after = left - 1 /\ left \in Nat /\ total \in Nat /\ n + left = total
        BY <1>4, <2>2
      <3> HIDE DEF left, after, total
      <3>2. QED BY <3>1
    <2>4. CASE pending' # <<>>
      <3>1. batch' = batch
        BY <1>1 DEF batch
      <3>2. \A k \in 1 .. Len(pending') : k + 1 \in 1 .. Len(pending) /\ n + (k + 1) = (n + 1) + k
        BY <1>4, <2>2
      <3>3. \A k \in 1 .. Len(pending') : pending'[k] = batch[n + 1 + k]
        BY <1>3, <2>2, <3>2 DEF UnderWay
      <3>4. UnderWay(batch, n + 1)'
        BY <1>4, <2>1, <2>3, <3>1, <3>3 DEF UnderWay
      <3>5. QED BY <1>1, <1>2, <1>4, <2>4, <3>4 DEF BatchInv, batch
    <2>5. CASE pending' = <<>>
      <3>1. Len(pending') = 0 /\ out' = Done
        BY <1>5, <2>5
      <3>2. n + 1 = Len(batch)
        BY <1>4, <2>3, <3>1
      <3>3. Over(batch, n + 1)'
        BY <1>1, <1>4, <2>1, <3>1, <3>2 DEF Over, batch
      <3>4. QED BY <1>1, <1>2, <1>4, <2>5, <3>3 DEF BatchInv, batch
    <2>6. QED BY <2>4, <2>5
  <1>6. CASE /\ WriteError(Head(pending)) # "ERR_NONE" /\ pending' = <<>>
             /\ out' = BuildError(WriteError(Head(pending)))
             /\ UNCHANGED <<g_params, regs>>
    <2>1. ~Good(batch, n + 1)
      BY <1>4, <1>6 DEF Good
    <2>2. Over(batch, n)'
      BY <1>1, <1>4, <1>6, <2>1 DEF Over, batch
    <2>3. QED BY <1>1, <1>2, <1>6, <2>2 DEF BatchInv, batch
  <1>7. QED BY <1>5, <1>6 DEF BatchEntry

\* The beginning of one.
LEMMA BeginKeepsBatch ==
    ASSUME NEW batch \in Batches, BatchBegin(batch)
    PROVE  BatchInv'
  <1>1. request'.cmd = "CMD_WRITE_PARAM_BATCH" /\ "entries" \in DOMAIN request'
        /\ request'.entries = batch /\ pending' = batch
    BY DEF BatchBegin
  <1>2. batch \in Seq(Entries) /\ Len(batch) \in Nat
    <2>1. PICK n \in 0 .. MaxBatch : batch \in [1 .. n -> Entries]
      BY DEF Batches
    <2>2. n \in Nat
      BY BatchAssumption
    <2>3. QED BY <2>1, <2>2
  <1>3. Good(batch, 0) /\ Written(g_params', batch, 0)
    BY DEF Good, Written
  <1>4. CASE batch # <<>>
    <2>1. UnderWay(batch, 0)'
      BY <1>1, <1>2, <1>3 DEF UnderWay
    <2>2. QED BY <1>1, <1>4, <2>1 DEF BatchInv, IsBatch
  <1>5. CASE batch = <<>>
    <2>1. Len(batch) = 0 /\ out' = Done
      BY <1>5 DEF BatchBegin
    <2>2. Over(batch, 0)'
      BY <1>1, <1>2, <1>3, <2>1 DEF Over
    <2>3. QED BY <1>1, <1>5, <2>2 DEF BatchInv, IsBatch
  <1>6. QED BY <1>4, <1>5

\* Every command keeps what is known of the batch.
LEMMA BatchNext == Inv /\ BatchInv /\ [Next]_vars => BatchInv'
  <1> SUFFICES ASSUME Inv, BatchInv, [Next]_vars PROVE BatchInv'
    OBVIOUS
  <1>1. CASE \E batch \in Batches : BatchBegin(batch)
    BY <1>1, BeginKeepsBatch
  <1>2. CASE BatchEntry
    BY <1>2, EntryKeepsBatch
  <1>3. CASE \E e \in Entries : WriteParam(e)
    BY <1>3, OtherCommand DEF WriteParam, Execute, IsBatch
  <1>4. CASE \E id \in Ids : ReadParam(id)
    BY <1>4, OtherCommand DEF ReadParam, Execute, IsBatch
  <1>5. CASE \E t \in Triggers : SetTrigger(t)
    BY <1>5, OtherCommand DEF SetTrigger, Execute, IsBatch
  <1>6. CASE \E ctrl \in 0 .. 4 : SimCtrl(ctrl)
    BY <1>6, OtherCommand DEF SimCtrl, Execute, IsBatch
  <1>7. CASE GetStatus \/ SelfTest
    BY <1>7, OtherCommand DEF GetStatus, SelfTest, Execute, IsBatch
  <1>8. CASE \/ \E command \in Sized : Malformed(command, "ERR_FRAME_LEN")
             \/ Malformed("unknown", "ERR_INVALID_CMD")
    BY <1>8, OtherCommand DEF Malformed, Execute, IsBatch
  <1>9. CASE UNCHANGED vars
    BY <1>9 DEF vars, BatchInv, IsBatch, UnderWay, Over, Written
  <1>10. QED
    BY <1>1, <1>2, <1>3, <1>4, <1>5, <1>6, <1>7, <1>8, <1>9 DEF Next

\* params_write_batch writes exactly the entries before the first bad one and
\* answers with that one's error, whatever it wrote over on the way.
THEOREM BatchesEndAsAnswered == Spec => []BatchOutcome
  <1>1. Init => BatchInv
    BY DEF Init, BatchInv, IsBatch
  <1>2. ASSUME BatchInv PROVE BatchOutcome
    <2> SUFFICES ASSUME IsBatch, pending = <<>>
                 PROVE  LET batch == request.entries
                            good == CHOOSE k \in 0 .. Len(batch) :
                                        Good(batch, k) /\ (k = Len(batch) \/ ~Good(batch, k + 1))
                        IN  /\ Written(g_params, batch, good)
                            /\ out = IF good = Len(batch) THEN Done
                                     ELSE BuildError(WriteError(batch[good + 1]))
      BY DEF BatchOutcome, IsBatch, Written
    <2> DEFINE batch == request.entries
               Stop(k) == Good(batch, k) /\ (k = Len(batch) \/ ~Good(batch, k + 1))
               good == CHOOSE k \in 0 .. Len(batch) : Stop(k)
    <2>1. PICK n \in Nat : Over(batch, n)
      BY <1>2 DEF BatchInv
    <2>2. batch \in Seq(Entries) /\ n \in 0 .. Len(batch) /\ Stop(n)
      BY <2>1 DEF Over
    <2>3. good \in 0 .. Len(batch) /\ Stop(good)
      BY <2>2
    <2> HIDE DEF good
    <2>4. good = n
      BY <2>2, <2>3, StopIsUnique
    <2>5. Written(g_params, batch, good)
          /\ out = IF good = Len(batch) THEN Done ELSE BuildError(WriteError(batch[good + 1]))
      BY <2>1, <2>4 DEF Over
    <2>6. QED BY <2>5 DEF good
  <1>3. QED BY <1>1, <1>2, InvInit, InvNext, BatchNext, PTL DEF Spec
====
