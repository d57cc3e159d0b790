---- MODULE AxiPorts_proofs ----
(***************************************************************************)
(* Proofs about the two AXI interfaces of the FPGA.  The register file,    *)
(* for every set of addresses and words the master uses: each channel is   *)
(* in step with the master, so which of the two sides has accepted what    *)
(* follows from the state machine alone.  The capture stream, for every    *)
(* size of the ring: every pointer is at the place of the sample it stands *)
(* for, in some lap.  The two share no variable.                           *)
(***************************************************************************)
EXTENDS AxiMmRegs, CaptureManager, TLAPS

-----------------------------------------------------------------------------
(* The write channel *)

\* Where the master is for each state of the slave; a response is up exactly
\* in W_RESP, after the word has been latched.
WriteInv ==
    /\ w_state \in {"W_IDLE", "W_DATA", "W_RESP"}
    /\ bvalid = (w_state = "W_RESP")
    /\ w_state = "W_IDLE" => aw \in {"off", "on"}
    /\ w_state = "W_DATA" => aw = "taken" /\ w_addr = waddr
    /\ w_state = "W_RESP" => /\ aw = "taken" /\ w = "taken"
                             /\ waddr \in Writable => regs[waddr] = Latch(waddr, wdata)

\* Nothing is being written at reset.
LEMMA WriteInit == Init => WriteInv
  BY DEF Init, WriteInv

\* The word goes to the register that its address names.
LEMMA WrittenLatches ==
  ASSUME NEW a, NEW d, a \in Writable
  PROVE  Written(a, d)[a] = Latch(a, d)
  BY DEF Written

\* Nothing but the address is taken in W_IDLE, by both sides at once.
LEMMA IdleStep ==
  ASSUME WriteInv, WriteIdle, NEW bready \in BOOLEAN, MasterWrite(bready)
  PROVE  WriteInv'
  <1>1. bvalid = FALSE /\ aw \in {"off", "on"} /\ w_state = "W_IDLE"
    BY DEF WriteInv, WriteIdle
  <1>2. CASE aw = "on" /\ awready
    <2>1. w_state' = "W_DATA" /\ w_addr' = waddr /\ bvalid' = FALSE
      BY <1>2 DEF WriteIdle
    <2>2. aw' = "taken" /\ waddr' = waddr
      BY <1>1, <1>2 DEF MasterWrite
    <2>3. QED BY <2>1, <2>2 DEF WriteInv
  <1>3. CASE ~(aw = "on" /\ awready)
    <2>1. w_state' = "W_IDLE" /\ bvalid' = FALSE
      BY <1>1, <1>3 DEF WriteIdle
    <2>2. aw' \in {"off", "on"}
      BY <1>1, <1>3 DEF MasterWrite, wmaster
    <2>3. QED BY <2>1, <2>2 DEF WriteInv
  <1>4. QED BY <1>2, <1>3

\* In W_DATA the register is written when both sides see the word accepted.
LEMMA DataStep ==
  ASSUME WriteInv, WriteData, NEW bready \in BOOLEAN, MasterWrite(bready)
  PROVE  WriteInv'
  <1>1. bvalid = FALSE /\ aw = "taken" /\ w_addr = waddr /\ w_state = "W_DATA"
    BY DEF WriteInv, WriteData
  <1>2. aw' = "taken" /\ waddr' = waddr /\ wdata' = wdata
    BY <1>1 DEF MasterWrite
  <1>3. CASE w = "on" /\ wready
    <2>1. w_state' = "W_RESP" /\ bvalid' = TRUE /\ regs' = Written(waddr, wdata)
      BY <1>1, <1>3 DEF WriteData
    <2>2. w' = "taken"
      BY <1>1, <1>3 DEF MasterWrite
    <2>3. waddr \in Writable => regs'[waddr] = Latch(waddr, wdata)
      BY <2>1, WrittenLatches
    <2>4. (Latch(waddr, wdata))' = Latch(waddr, wdata)
      BY <1>2 DEF Latch
    <2>5. QED BY <1>2, <2>1, <2>2, <2>3, <2>4 DEF WriteInv
  <1>4. CASE ~(w = "on" /\ wready)
    <2>1. w_state' = "W_DATA" /\ bvalid' = FALSE /\ w_addr' = w_addr
      BY <1>1, <1>4 DEF WriteData
    <2>2. QED BY <1>1, <1>2, <2>1 DEF WriteInv
  <1>5. QED BY <1>3, <1>4

\* The response stays until the master takes it; the register does too.
LEMMA RespStep ==
  ASSUME WriteInv, NEW bready \in BOOLEAN, WriteResp(bready), MasterWrite(bready)
  PROVE  WriteInv'
  <1>1. bvalid = TRUE /\ aw = "taken" /\ w = "taken" /\ w_state = "W_RESP"
    BY DEF WriteInv, WriteResp
  <1>2. CASE bready
    <2>1. w_state' = "W_IDLE" /\ bvalid' = FALSE
      BY <1>1, <1>2 DEF WriteResp
    <2>2. aw' = "off"
      BY <1>1, <1>2 DEF MasterWrite
    <2>3. QED BY <2>1, <2>2 DEF WriteInv
  <1>3. CASE ~bready
    <2>1. w_state' = "W_RESP" /\ bvalid' = TRUE /\ regs' = regs
      BY <1>1, <1>3 DEF WriteResp
    <2>2. aw' = "taken" /\ w' = "taken" /\ waddr' = waddr /\ wdata' = wdata
      BY <1>1, <1>3 DEF MasterWrite
    <2>3. (Latch(waddr, wdata))' = Latch(waddr, wdata)
      BY <2>2 DEF Latch
    <2>4. QED BY <1>1, <2>1, <2>2, <2>3 DEF WriteInv
  <1>4. QED BY <1>2, <1>3

\* The three states together; the read channel and the inputs do not matter.
LEMMA WriteNext == WriteInv /\ [Next]_vars => WriteInv'
  <1> SUFFICES ASSUME WriteInv, [Next]_vars PROVE WriteInv'
    OBVIOUS
  <1>1. CASE Next
    <2>1. PICK bready \in BOOLEAN, rready \in BOOLEAN, status \in {0, 1} :
              Clock(bready, rready, status)
      BY <1>1 DEF Next
    <2>2. WriteChannel(bready) /\ MasterWrite(bready)
      BY <2>1 DEF Clock
    <2>3. QED BY <2>2, IdleStep, DataStep, RespStep DEF WriteChannel
  <1>2. CASE UNCHANGED vars
    <2>1. (Latch(waddr, wdata))' = Latch(waddr, wdata)
      BY <1>2 DEF vars, wmaster, Latch
    <2>2. QED BY <1>2, <2>1 DEF WriteInv, vars, slave, wmaster
  <1>3. QED BY <1>1, <1>2

\* For every set of addresses and words: a response means that the register
\* holds the word of the write it answers.
THEOREM ResponsesAreTrue == Spec => []ResponseMeansWritten
  <1>1. WriteInv => ResponseMeansWritten
    BY DEF WriteInv, ResponseMeansWritten
  <1>2. QED BY <1>1, WriteInit, WriteNext, PTL DEF Spec

-----------------------------------------------------------------------------
(* The read channel *)

\* The master waits exactly while the slave reads its address, and the word it
\* is offered is one the register has held since.
ReadInv ==
    /\ r_state \in {"R_IDLE", "R_DATA"}
    /\ rvalid \in BOOLEAN
    /\ r_state = "R_IDLE" => rvalid = FALSE /\ ar \in {"off", "on"}
    /\ r_state = "R_DATA" => ar = "taken" /\ r_addr = araddr
    /\ rvalid => rdata \in seen

\* Nothing is being read at reset.
LEMMA ReadInit == Init => ReadInv
  BY DEF Init, ReadInv

\* The state and the master move together, and the word is read in one cycle.
LEMMA ReadNext == ReadInv /\ [Next]_vars => ReadInv'
  <1> SUFFICES ASSUME ReadInv, [Next]_vars PROVE ReadInv'
    OBVIOUS
  <1>1. CASE Next
    <2>1. PICK bready \in BOOLEAN, rready \in BOOLEAN, status \in {0, 1} :
              Clock(bready, rready, status)
      BY <1>1 DEF Next
    <2>2. ReadChannel(rready) /\ MasterRead(rready)
      BY <2>1 DEF Clock
    <2>3. CASE ReadIdle /\ ar = "on" /\ arready
      <3>1. r_state' = "R_DATA" /\ r_addr' = araddr /\ rvalid' = FALSE
        BY <2>3 DEF ReadIdle
      <3>2. ar' = "taken" /\ araddr' = araddr
        BY <2>2, <2>3 DEF MasterRead
      <3>3. QED BY <3>1, <3>2 DEF ReadInv
    <2>4. CASE ReadIdle /\ ~(ar = "on" /\ arready)
      <3>1. r_state' = "R_IDLE" /\ rvalid' = FALSE /\ ar \in {"off", "on"}
        BY <2>4 DEF ReadIdle, ReadInv
      <3>2. ar' \in {"off", "on"}
        BY <2>2, <2>4, <3>1 DEF MasterRead
      <3>3. QED BY <3>1, <3>2 DEF ReadInv
    <2>5. CASE ReadData(rready)
      <3>1. ar = "taken" /\ r_addr = araddr
        BY <2>5 DEF ReadData, ReadInv
      <3>2. rdata' = ReadMux(araddr) /\ r_addr' = r_addr
        BY <2>5, <3>1 DEF ReadData
      <3>3. seen' = seen \cup {ReadMux(araddr)} /\ araddr' = araddr
        BY <2>2, <3>1 DEF MasterRead
      <3>4. rdata' \in seen'
        BY <3>2, <3>3
      <3>5. CASE rready /\ rvalid
        <4>1. r_state' = "R_IDLE" /\ rvalid' = FALSE /\ ar' = "off"
          BY <2>2, <2>5, <3>1, <3>5 DEF ReadData, MasterRead
        <4>2. QED BY <4>1 DEF ReadInv
      <3>6. CASE ~(rready /\ rvalid)
        <4>1. r_state' = "R_DATA" /\ rvalid' = TRUE /\ ar' = "taken"
          BY <2>2, <2>5, <3>1, <3>6 DEF ReadData, MasterRead
        <4>2. QED BY <3>1, <3>2, <3>3, <3>4, <4>1 DEF ReadInv
      <3>7. QED BY <3>5, <3>6
    <2>6. QED BY <2>2, <2>3, <2>4, <2>5 DEF ReadChannel
  <1>2. CASE UNCHANGED vars
    BY <1>2 DEF ReadInv, vars, read, rmaster
  <1>3. QED BY <1>1, <1>2

\* For every set of addresses and words, whatever writes overlap a read: the
\* word it returns was in the register while the read lasted.
THEOREM ReadsAreAtomic == Spec => []ReadIsAtomic
  <1>1. ReadInv => ReadIsAtomic
    BY DEF ReadInv, ReadIsAtomic
  <1>2. QED BY <1>1, ReadInit, ReadNext, PTL DEF Spec

-----------------------------------------------------------------------------
(* The pulse generator *)

Bit(b) == IF b THEN 1 ELSE 0
Rising == Bit2(regs'[ADDR_CTRL]) /\ ~Bit2(regs[ADDR_CTRL])

PulseInv == raises \in Nat /\ pulses \in Nat /\ raises = pulses + Bit(param_update)

\* No pulse is owed at reset.
LEMMA PulseInit == Init => PulseInv
  <1> SUFFICES ASSUME Init PROVE PulseInv
    OBVIOUS
  <1>1. regs[ADDR_CTRL] = 0 /\ ~Bit2(0)
    BY DEF Init, Writable, ADDR_CTRL, Bit2
  <1>2. Bit(param_update) = 0
    BY <1>1 DEF param_update, Bit
  <1>3. QED BY <1>2 DEF Init, PulseInv

\* A raise owes a pulse, and the pulse pays it one cycle later.
LEMMA PulseNext == PulseInv /\ [Next]_vars => PulseInv'
  <1> SUFFICES ASSUME PulseInv, [Next]_vars PROVE PulseInv'
    OBVIOUS
  <1>1. CASE Next
    <2>1. PulseGenerator
      BY <1>1 DEF Next, Clock
    <2> DEFINE now == Bit(param_update)
               next == Bit(Rising)
    <2>2. pulses' = pulses + now /\ raises' = raises + next
      BY <2>1 DEF PulseGenerator, Bit, Rising
    <2>3. param_update' = Rising
      BY <2>1 DEF PulseGenerator, param_update, Rising
    <2>4. (Bit(param_update))' = next
      BY <2>3 DEF Bit
    <2>5. now \in {0, 1} /\ next \in {0, 1}
      BY DEF Bit
    <2>6. raises \in Nat /\ pulses \in Nat /\ raises = pulses + now
      BY DEF PulseInv
    <2> HIDE DEF now, next
    <2>7. raises' \in Nat /\ pulses' \in Nat /\ raises' = pulses' + next
      BY <2>2, <2>5, <2>6
    <2>8. QED BY <2>4, <2>7 DEF PulseInv
  <1>2. CASE UNCHANGED vars
    <2>1. (Bit(param_update))' = Bit(param_update)
      BY <1>2 DEF vars, param_update, Bit
    <2>2. QED BY <1>2, <2>1 DEF PulseInv, vars
  <1>3. QED BY <1>1, <1>2

\* For every set of addresses and words: updates are neither lost nor repeated.
THEOREM PulsesMatchRaises == Spec => []OnePulsePerRaise
  <1>1. PulseInv => OnePulsePerRaise
    BY DEF PulseInv, OnePulsePerRaise, Bit
  <1>2. QED BY <1>1, PulseInit, PulseNext, PTL DEF Spec

-----------------------------------------------------------------------------
(* The capture stream *)

\* Sample n has its place at p, whichever lap of the ring it is in.
Place(p, n) == \E lap \in Int : n = BufferDepth * lap + p

\* A pointer that moves on by one is at the place of the next sample.
LEMMA NextPlace ==
  ASSUME NEW p \in Slots, NEW n \in Int, Place(p, n)
  PROVE  NextPtr(p) \in Slots /\ Place(NextPtr(p), n + 1)
<1>1. PICK lap \in Int : n = BufferDepth * lap + p
  BY DEF Place
<1>2. CASE p >= BufferDepth - 1
  <2>1. p = BufferDepth - 1
    BY <1>2, DepthAssumption DEF Slots
  <2>2. n + 1 = BufferDepth * (lap + 1) + 0
    BY <1>1, <2>1, DepthAssumption
  <2>3. QED
    BY <1>2, <2>2, DepthAssumption DEF NextPtr, Place, Slots
<1>3. CASE p < BufferDepth - 1
  <2>1. n + 1 = BufferDepth * lap + (p + 1)
    BY <1>1, DepthAssumption DEF Slots
  <2>2. QED
    BY <1>3, <2>1, DepthAssumption DEF NextPtr, Place, Slots
<1>4. QED
  BY <1>2, <1>3, DepthAssumption DEF Slots

\* Subtracting the pre-trigger from a pointer goes back as many samples.
LEMMA PreTriggerPlace ==
  ASSUME NEW p \in Slots, NEW n \in Int, Place(p, n)
  PROVE  StartAddress(p) \in Slots /\ Place(StartAddress(p), n - PreTrigger)
<1>1. PICK lap \in Int : n = BufferDepth * lap + p
  BY DEF Place
<1>2. CASE p >= PreTrigger
  <2>1. n - PreTrigger = BufferDepth * lap + (p - PreTrigger)
    BY <1>1, DepthAssumption DEF Slots
  <2>2. QED
    BY <1>2, <2>1, DepthAssumption DEF StartAddress, Place, Slots
<1>3. CASE p < PreTrigger
  <2>1. n - PreTrigger = BufferDepth * (lap - 1) + (BufferDepth - (PreTrigger - p))
    BY <1>1, DepthAssumption DEF Slots
  <2>2. QED
    BY <1>3, <2>1, DepthAssumption DEF StartAddress, Place, Slots
<1>4. QED
  BY <1>2, <1>3, DepthAssumption DEF Slots

\* Samples less than a lap apart share no place, and a sample has but one.
LEMMA PlacesApart ==
  ASSUME NEW p \in Slots, NEW q \in Slots, NEW n \in Int, NEW m \in Int,
         Place(p, n), Place(q, m), n <= m, m - n < BufferDepth
  PROVE  p = q <=> n = m
<1>1. PICK lap \in Int : n = BufferDepth * lap + p
  BY DEF Place
<1>2. PICK lap2 \in Int : m = BufferDepth * lap2 + q
  BY DEF Place
<1>3. m - n = BufferDepth * (lap2 - lap) + (q - p)
  BY <1>1, <1>2, DepthAssumption DEF Slots
<1> DEFINE d == lap2 - lap
<1>4. d \in Int /\ m - n = BufferDepth * d + (q - p)
  BY <1>3
<1> HIDE DEF d
<1>5. d >= 2 => BufferDepth * d >= 2 * BufferDepth
  BY <1>4, DepthAssumption
<1>6. d <= -1 => BufferDepth * d <= -BufferDepth
  BY <1>4, DepthAssumption
<1>7. d = 0 => BufferDepth * d = 0
  BY DepthAssumption
<1>8. d = 1 => BufferDepth * d = BufferDepth
  BY DepthAssumption
<1>9. d = 0 \/ d = 1
  BY <1>4, <1>5, <1>6, DepthAssumption DEF Slots
<1>10. QED
  BY <1>4, <1>7, <1>8, <1>9, DepthAssumption DEF Slots

-----------------------------------------------------------------------------
\* The newest samples are where their places are, and the pointers at theirs.
RingInv ==
    /\ written \in Nat /\ write_ptr \in Slots /\ Place(write_ptr, written)
    /\ DOMAIN buffer = Slots
    /\ \A n \in Nat, p \in Slots :
          n < written /\ n >= written - BufferDepth /\ Place(p, n) => buffer[p] = n

TriggerInv ==
    /\ trig_state \in {"T_IDLE", "T_ARMED", "T_CAPTURING", "T_DONE"}
    /\ cap_count \in Nat
    /\ trig_state = "T_CAPTURING" =>
          trig_at \in Nat /\ trig_write_ptr \in Slots /\ Place(trig_write_ptr, trig_at)

StreamInv ==
    /\ stream_state = "S_SEND" =>
          /\ origin \in Nat /\ send_count \in 0 .. CaptureSize
          /\ read_ptr \in Slots /\ Place(read_ptr, Wanted)
          /\ beats = send_count
          /\ send_count = CaptureSize => m_axis_tlast
          /\ m_axis_tlast => send_count >= CaptureSize - 1
    /\ TransferLength /\ IdleMissesNothing

CaptureInv == RingInv /\ TriggerInv /\ StreamInv


\* Reset: the ring and the stream are empty.
LEMMA CaptureInitInv == CaptureInit => CaptureInv
<1> SUFFICES ASSUME CaptureInit PROVE CaptureInv
  OBVIOUS
<1>1. RingInv
  <2>1. Place(0, 0)
    BY DepthAssumption DEF Place
  <2>2. QED
    BY <2>1, DepthAssumption DEF CaptureInit, RingInv, Slots
<1>2. TriggerInv
  BY DEF CaptureInit, TriggerInv
<1>3. StreamInv
  BY DEF CaptureInit, StreamInv, TransferLength, IdleMissesNothing
<1>4. QED
  BY <1>1, <1>2, <1>3 DEF CaptureInv

\* A new sample overwrites only the one a whole lap older.
LEMMA RingStep ==
  ASSUME RingInv, NEW step_valid \in BOOLEAN, RingBlock(step_valid)
  PROVE  RingInv'
<1>1. CASE step_valid
  <2>1. /\ buffer' = [buffer EXCEPT ![write_ptr] = written]
        /\ write_ptr' = NextPtr(write_ptr) /\ written' = written + 1
    BY <1>1 DEF RingBlock
  <2>2. written' \in Nat /\ write_ptr' \in Slots /\ Place(write_ptr', written')
    BY <2>1, NextPlace DEF RingInv
  <2>3. DOMAIN buffer' = Slots
    BY <2>1 DEF RingInv
  <2>4. ASSUME NEW n \in Nat, NEW p \in Slots,
               n < written', n >= written' - BufferDepth, Place(p, n)
        PROVE  buffer'[p] = n
    <3> n < written + 1 /\ n >= written + 1 - BufferDepth
      BY <2>1, <2>4, DepthAssumption DEF RingInv
    <3>1. p = write_ptr <=> n = written
      BY <2>4, PlacesApart, DepthAssumption DEF RingInv
    <3>2. CASE n = written
      BY <2>1, <3>1, <3>2 DEF RingInv
    <3>3. CASE n # written
      <4>1. buffer[p] = n
        BY <2>4, <3>3, DepthAssumption DEF RingInv
      <4>2. QED
        BY <2>1, <3>1, <3>3, <4>1 DEF RingInv
    <3>4. QED
      BY <3>2, <3>3
  <2>5. \A n \in Nat, p \in Slots :
            n < written' /\ n >= written' - BufferDepth /\ Place(p, n) => buffer'[p] = n
    BY <2>4
  <2>6. Slots' = Slots /\ \A n, p : Place(p, n)' = Place(p, n)
    BY DEF Slots, Place
  <2>7. QED
    BY <2>2, <2>3, <2>5, <2>6 DEF RingInv
<1>2. CASE ~step_valid
  <2>1. UNCHANGED ring
    BY <1>2 DEF RingBlock
  <2>2. QED
    BY <2>1 DEF ring, RingInv
<1>3. QED
  BY <1>1, <1>2

\* What the trigger remembers of the ring it reads in the cycle of the hit.
LEMMA TriggerStep ==
  ASSUME RingInv, TriggerInv, NEW step_valid \in BOOLEAN, NEW msb, NEW above,
         NEW arm \in BOOLEAN, TriggerBlock(step_valid, msb, above, arm)
  PROVE  /\ TriggerInv'
         /\ trig_state' = "T_CAPTURING" =>
               trig_state = "T_CAPTURING" \/ (trig_state = "T_ARMED" /\ cap_count' = 0)
<1> DEFINE hit == TrigHit(step_valid, msb, above)
<1>1. CASE TriggerIdle(arm)
  BY <1>1 DEF TriggerIdle, TriggerInv
<1>2. CASE TriggerArmed(arm, hit)
  <2> HIDE DEF hit
  <2>1. QED
    BY <1>2 DEF TriggerArmed, TriggerInv, RingInv
<1>3. CASE TriggerCapturing(step_valid)
  <2>1. trig_state = "T_CAPTURING" /\ UNCHANGED <<trig_write_ptr, trig_at>>
    BY <1>3 DEF TriggerCapturing
  <2>2. trig_state' \in {"T_CAPTURING", "T_DONE"} /\ cap_count' \in {cap_count, cap_count + 1}
    BY <1>3 DEF TriggerCapturing
  <2>3. QED
    BY <2>1, <2>2 DEF TriggerInv
<1>4. CASE TriggerDone(arm)
  BY <1>4 DEF TriggerDone, TriggerInv
<1>5. QED
  BY <1>1, <1>2, <1>3, <1>4 DEF TriggerBlock

\* The sender starts at the place of the first sample before the trigger.
LEMMA StartStep ==
  ASSUME TriggerInv, StreamInv, StreamIdle, trig_state = "T_CAPTURING", cap_count = 0
  PROVE  StreamInv'
<1>1. /\ read_ptr' = StartAddress(trig_write_ptr) /\ send_count' = 0 /\ beats' = 0
      /\ stream_state' = "S_SEND" /\ origin' = trig_at /\ m_axis_tlast' = FALSE
  BY DEF StreamIdle
<1>2. trig_at \in Nat /\ trig_write_ptr \in Slots /\ Place(trig_write_ptr, trig_at)
  BY DEF TriggerInv
<1>3. read_ptr' \in Slots /\ Place(read_ptr', trig_at - PreTrigger)
  BY <1>1, <1>2, PreTriggerPlace
<1>4. Wanted' = trig_at - PreTrigger
  BY <1>1, <1>2, DepthAssumption DEF Wanted
<1>5. QED
  BY <1>1, <1>2, <1>3, <1>4, DepthAssumption DEF StreamInv, TransferLength, IdleMissesNothing

\* A beat is accepted: the place moves with the sample.
LEMMA SendStep ==
  ASSUME StreamInv, NEW tready \in BOOLEAN, StreamSend(tready)
  PROVE  StreamInv'
<1>1. /\ stream_state = "S_SEND" /\ origin' = origin /\ origin \in Nat
      /\ send_count \in 0 .. CaptureSize /\ beats = send_count
      /\ send_count = CaptureSize => m_axis_tlast
      /\ m_axis_tlast => send_count >= CaptureSize - 1
      /\ read_ptr \in Slots /\ Place(read_ptr, Wanted)
      /\ m_axis_tlast' <=> send_count >= CaptureSize - 1
  BY DEF StreamSend, StreamInv
<1>2. Wanted = origin - PreTrigger + send_count /\ Wanted \in Int
  BY <1>1, DepthAssumption DEF Wanted
<1>3. CASE tready /\ m_axis_tvalid /\ m_axis_tlast
  <2>1. beats' = beats + 1 /\ stream_state' = "S_WAIT"
    BY <1>3 DEF StreamSend
  <2>2. QED
    BY <1>1, <1>3, <2>1, DepthAssumption DEF StreamInv, TransferLength, IdleMissesNothing
<1>4. CASE tready /\ m_axis_tvalid /\ ~m_axis_tlast
  <2>1. /\ beats' = beats + 1 /\ stream_state' = "S_SEND" /\ send_count' = send_count + 1
        /\ read_ptr' = NextPtr(read_ptr)
    BY <1>4 DEF StreamSend
  <2>2. Wanted' = Wanted + 1
    BY <1>1, <2>1, DepthAssumption DEF Wanted
  <2>3. read_ptr' \in Slots /\ Place(read_ptr', Wanted')
    BY <1>1, <1>2, <2>1, <2>2, NextPlace
  <2>4. send_count' \in 0 .. CaptureSize
    BY <1>1, <1>4, <2>1, DepthAssumption
  <2>5. /\ send_count' = CaptureSize => m_axis_tlast'
        /\ m_axis_tlast' => send_count' >= CaptureSize - 1
    BY <1>1, <2>1, DepthAssumption
  <2>6. QED
    BY <1>1, <2>1, <2>3, <2>4, <2>5, DepthAssumption DEF StreamInv, TransferLength, IdleMissesNothing
<1>5. CASE ~(tready /\ m_axis_tvalid)
  <2>1. UNCHANGED <<stream_state, read_ptr, send_count, beats>>
    BY <1>5 DEF StreamSend
  <2>2. Wanted' = Wanted
    BY <1>1, <2>1 DEF Wanted
  <2>3. send_count' = CaptureSize => m_axis_tlast'
    BY <1>1, <2>1, DepthAssumption
  <2>4. QED
    BY <1>1, <2>1, <2>2, <2>3, DepthAssumption DEF StreamInv, TransferLength, IdleMissesNothing
<1>6. QED
  BY <1>3, <1>4, <1>5

\* The three blocks of a clock edge together, and no edge at all.
LEMMA CaptureStep == ASSUME CaptureInv, [CaptureNext]_captureVars PROVE CaptureInv'
<1>1. CASE CaptureNext
  <2>1. PICK step_valid, msb, above, arm, tready \in BOOLEAN :
            CaptureClock(step_valid, msb, above, arm, tready)
    BY <1>1 DEF CaptureNext
  <2>2. RingInv'
    BY <2>1, RingStep DEF CaptureClock, CaptureInv
  <2>3. TriggerInv' /\ (trig_state' = "T_CAPTURING" =>
            trig_state = "T_CAPTURING" \/ (trig_state = "T_ARMED" /\ cap_count' = 0))
    BY <2>1, TriggerStep DEF CaptureClock, CaptureInv
  <2>4. CASE StreamIdle /\ trig_state = "T_CAPTURING"
    <3>1. cap_count = 0
      BY <2>4 DEF StreamIdle, CaptureInv, StreamInv, TriggerInv, IdleMissesNothing
    <3>2. StreamInv'
      BY <2>4, <3>1, StartStep DEF CaptureInv
    <3>3. QED
      BY <2>2, <2>3, <3>2 DEF CaptureInv
  <2>5. CASE StreamIdle /\ trig_state # "T_CAPTURING"
    <3>1. stream_state' = "S_IDLE"
      BY <2>5 DEF StreamIdle
    <3>2. StreamInv'
      BY <2>3, <2>5, <3>1 DEF StreamInv, TransferLength, IdleMissesNothing
    <3>3. QED
      BY <2>2, <2>3, <3>2 DEF CaptureInv
  <2>6. CASE StreamSend(tready)
    BY <2>2, <2>3, <2>6, SendStep DEF CaptureInv
  <2>7. CASE StreamWait
    <3>1. beats' = beats /\ stream_state = "S_WAIT"
          /\ stream_state' = IF trig_state = "T_IDLE" THEN "S_IDLE" ELSE "S_WAIT"
      BY <2>7 DEF StreamWait
    <3>2. StreamInv'
      BY <2>3, <3>1 DEF CaptureInv, StreamInv, TransferLength, IdleMissesNothing
    <3>3. QED
      BY <2>2, <2>3, <3>2 DEF CaptureInv
  <2>8. QED
    BY <2>1, <2>4, <2>5, <2>6, <2>7 DEF CaptureClock, StreamBlock
<1>2. CASE UNCHANGED captureVars
  <2>1. RingInv'
    BY <1>2 DEF captureVars, ring, CaptureInv, RingInv
  <2>2. TriggerInv'
    BY <1>2 DEF captureVars, trigger, CaptureInv, TriggerInv
  <2>3. StreamInv'
    BY <1>2 DEF captureVars, stream, trigger, CaptureInv, StreamInv, Wanted, TransferLength, IdleMissesNothing
  <2>4. QED
    BY <2>1, <2>2, <2>3 DEF CaptureInv
<1>3. QED
  BY <1>1, <1>2

\* The inductive invariant of the capture manager.
LEMMA CaptureInvHolds == CaptureSpec => []CaptureInv
<1>1. CaptureInit => CaptureInv
  BY CaptureInitInv
<1>2. CaptureInv /\ [CaptureNext]_captureVars => CaptureInv'
  BY CaptureStep
<1>3. QED
  BY <1>1, <1>2, PTL DEF CaptureSpec

\* In S_SEND read_ptr is the place of the sample wanted, wherever in the ring
\* the trigger fell: the wrap of the write pointer, of the pre-trigger start
\* address and of the read pointer agree (capture_manager.sv:61-75, 190-198 and
\* 212-216).
THEOREM SenderReadsTheCapture == CaptureSpec => []ReadsTheCapture
<1>1. CaptureInv => ReadsTheCapture
  <2> SUFFICES ASSUME CaptureInv, stream_state = "S_SEND",
                      Wanted \in 0 .. written - 1, Wanted >= written - BufferDepth
               PROVE  buffer[read_ptr] = Wanted
    BY DEF ReadsTheCapture
  <2>1. read_ptr \in Slots /\ Place(read_ptr, Wanted)
    BY DEF CaptureInv, StreamInv
  <2>2. Wanted \in Nat /\ Wanted < written
    BY DEF CaptureInv, RingInv
  <2>3. QED
    BY <2>1, <2>2 DEF CaptureInv, RingInv
<1>2. QED
  BY <1>1, CaptureInvHolds, PTL

\* No transfer is short: tlast is raised at the last of CAPTURE_SIZE beats, and
\* is registered, so that at most one beat follows (capture_manager.sv:202-225).
THEOREM TransfersAreWhole == CaptureSpec => []TransferLength
<1>1. CaptureInv => TransferLength
  BY DEF CaptureInv, StreamInv
<1>2. QED
  BY <1>1, CaptureInvHolds, PTL

\* The sender leaves S_IDLE in the first cycle of a capture, before a sample is
\* counted: a trigger that finds it idle is sent (capture_manager.sv:128-133
\* and 186-200).
THEOREM TriggersAreSent == CaptureSpec => []IdleMissesNothing
<1>1. CaptureInv => IdleMissesNothing
  BY DEF CaptureInv, StreamInv
<1>2. QED
  BY <1>1, CaptureInvHolds, PTL
====
