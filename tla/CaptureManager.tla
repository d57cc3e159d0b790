---- MODULE CaptureManager ----
(***************************************************************************)
(* The trigger capture of the FPGA (fpga/rtl/capture_manager.sv): a ring   *)
(* of samples written at every solver step, a trigger state machine and an *)
(* AXI-Stream sender that reads the ring.  One step of the model is one    *)
(* rising edge of clk: the always_ff blocks all read the old values, and   *)
(* the inputs of the cycle are chosen freely.  A 64-bit sample is the      *)
(* number of the step that produced it; NoSample is BRAM never written.    *)
(***************************************************************************)
EXTENDS Integers

CONSTANTS
    BufferDepth,    \* BUFFER_DEPTH
    PreTrigger,     \* PRE_TRIGGER
    CaptureSize,    \* CAPTURE_SIZE
    MaxSamples      \* bound: solver steps in a behaviour

ASSUME DepthAssumption ==
    /\ BufferDepth \in Nat /\ PreTrigger \in Nat /\ CaptureSize \in Nat
    /\ CaptureSize > 1 /\ PreTrigger < BufferDepth /\ CaptureSize <= BufferDepth
    /\ MaxSamples \in Nat

VARIABLES
    buffer, write_ptr,
    trig_src,                       \* the register; fixed in a behaviour
    trig_state, trig_occurred, trig_write_ptr, cap_count, prev_vout_msb,
    stream_state, read_ptr, send_count,
    m_axis_tvalid, m_axis_tlast, m_axis_tdata,
    written,    \* history: samples written
    trig_at,    \* history: the sample of the last trigger
    origin,     \* history: the trigger sample of the current transfer
    beats       \* history: beats accepted in the current transfer

ring == <<buffer, write_ptr, written>>
trigger == <<trig_src, trig_state, trig_occurred, trig_write_ptr, cap_count,
             prev_vout_msb, trig_at>>
stream == <<stream_state, read_ptr, send_count, m_axis_tvalid, m_axis_tlast,
            m_axis_tdata, origin, beats>>
captureVars == <<ring, trigger, stream>>

NoSample == -1
Slots == 0 .. BufferDepth - 1

\* The ring index after i.
NextPtr(i) == IF i >= BufferDepth - 1 THEN 0 ELSE i + 1

CaptureInit ==
    /\ buffer = [i \in Slots |-> NoSample] /\ write_ptr = 0 /\ written = 0
    /\ trig_src \in 0 .. 3
    /\ trig_state = "T_IDLE" /\ trig_occurred = FALSE
    /\ trig_write_ptr = 0 /\ cap_count = 0 /\ prev_vout_msb = FALSE /\ trig_at = NoSample
    /\ stream_state = "S_IDLE" /\ read_ptr = 0 /\ send_count = 0
    /\ m_axis_tvalid = FALSE /\ m_axis_tlast = FALSE /\ m_axis_tdata = NoSample
    /\ origin = NoSample /\ beats = 0

-----------------------------------------------------------------------------
\* The sample ring: one write per step_valid.
RingBlock(step_valid) ==
    IF step_valid
    THEN /\ buffer' = [buffer EXCEPT ![write_ptr] = written]
         /\ write_ptr' = NextPtr(write_ptr)
         /\ written' = written + 1
    ELSE UNCHANGED ring

\* Whether the sample of this cycle meets the trigger condition.  A software
\* trigger (source 0) never does.
TrigHit(step_valid, msb, above) ==
    /\ step_valid
    /\ \/ trig_src = 1 /\ msb /\ ~prev_vout_msb
       \/ trig_src = 2 /\ ~msb /\ prev_vout_msb
       \/ trig_src = 3 /\ above

TriggerIdle(arm) ==
    /\ trig_state = "T_IDLE"
    /\ trig_state' = IF arm THEN "T_ARMED" ELSE "T_IDLE"
    /\ trig_occurred' = FALSE
    /\ UNCHANGED <<trig_write_ptr, cap_count, trig_at>>

\* Mutant: a new trigger does not restart the count of captured samples.
TriggerArmedKeepsCount(arm, hit) ==
    /\ trig_state = "T_ARMED"
    /\ IF arm /\ hit
       THEN /\ trig_state' = "T_CAPTURING" /\ trig_occurred' = TRUE
            /\ trig_write_ptr' = write_ptr /\ trig_at' = written
       ELSE /\ trig_state' = IF arm THEN "T_ARMED" ELSE "T_IDLE"
            /\ UNCHANGED <<trig_occurred, trig_write_ptr, trig_at>>
    /\ UNCHANGED cap_count

TriggerArmed(arm, hit) ==
    /\ trig_state = "T_ARMED"
    /\ IF arm /\ hit
       THEN /\ trig_state' = "T_CAPTURING" /\ trig_occurred' = TRUE
            /\ trig_write_ptr' = write_ptr /\ trig_at' = written
            /\ cap_count' = 0
       ELSE /\ trig_state' = IF arm THEN "T_ARMED" ELSE "T_IDLE"
            /\ UNCHANGED <<trig_occurred, trig_write_ptr, cap_count, trig_at>>

TriggerCapturing(step_valid) ==
    /\ trig_state = "T_CAPTURING"
    /\ IF step_valid /\ cap_count >= CaptureSize - 1
       THEN trig_state' = "T_DONE" /\ trig_occurred' = FALSE /\ UNCHANGED cap_count
       ELSE /\ cap_count' = IF step_valid THEN cap_count + 1 ELSE cap_count
            /\ UNCHANGED <<trig_state, trig_occurred>>
    /\ UNCHANGED <<trig_write_ptr, trig_at>>

\* A capture that ends while arm is still set re-arms without passing T_IDLE.
TriggerDone(arm) ==
    /\ trig_state = "T_DONE"
    /\ trig_state' = IF arm THEN "T_ARMED" ELSE "T_IDLE"
    /\ trig_occurred' = FALSE
    /\ UNCHANGED <<trig_write_ptr, cap_count, trig_at>>

TriggerBlock(step_valid, msb, above, arm) ==
    /\ prev_vout_msb' = IF step_valid THEN msb ELSE prev_vout_msb
    /\ UNCHANGED trig_src
    /\ \/ TriggerIdle(arm)
       \/ TriggerArmed(arm, TrigHit(step_valid, msb, above))
       \/ TriggerCapturing(step_valid)
       \/ TriggerDone(arm)

-----------------------------------------------------------------------------
\* Mutant: the pre-trigger address is not wrapped round the ring correctly.
StartAddressShort(ptr) ==
    IF ptr >= PreTrigger THEN ptr - PreTrigger
    ELSE BufferDepth - 1 - (PreTrigger - ptr)

\* trig_write_ptr - PRE_TRIGGER, round the ring.
StartAddress(ptr) ==
    IF ptr >= PreTrigger THEN ptr - PreTrigger
    ELSE BufferDepth - (PreTrigger - ptr)

StreamIdle ==
    /\ stream_state = "S_IDLE"
    /\ m_axis_tvalid' = FALSE /\ m_axis_tlast' = FALSE
    /\ UNCHANGED m_axis_tdata
    /\ IF trig_state = "T_CAPTURING" /\ cap_count = 0
       THEN /\ read_ptr' = StartAddress(trig_write_ptr)
            /\ send_count' = 0 /\ stream_state' = "S_SEND"
            /\ origin' = trig_at /\ beats' = 0
       ELSE UNCHANGED <<stream_state, read_ptr, send_count, origin, beats>>

\* Mutant: the beat counter wraps at CAPTURE_SIZE and tlast waits beyond it.
StreamSendWraps(tready) ==
    /\ stream_state = "S_SEND"
    /\ m_axis_tdata' = buffer[read_ptr]
    /\ m_axis_tlast' = (send_count >= CaptureSize)
    /\ UNCHANGED origin
    /\ IF tready /\ m_axis_tvalid
       THEN /\ read_ptr' = NextPtr(read_ptr) /\ beats' = beats + 1
            /\ m_axis_tvalid' = ~m_axis_tlast
            /\ stream_state' = IF m_axis_tlast THEN "S_WAIT" ELSE "S_SEND"
            /\ send_count' = (send_count + 1) % CaptureSize
       ELSE /\ m_axis_tvalid' = TRUE
            /\ UNCHANGED <<stream_state, read_ptr, send_count, beats>>

\* Mutant: the sender offers beats only while samples are being captured.
StreamSendTied(tready) ==
    /\ stream_state = "S_SEND"
    /\ m_axis_tdata' = buffer[read_ptr]
    /\ m_axis_tlast' = (send_count >= CaptureSize - 1)
    /\ UNCHANGED origin
    /\ IF tready /\ m_axis_tvalid
       THEN /\ read_ptr' = NextPtr(read_ptr) /\ beats' = beats + 1
            /\ m_axis_tvalid' = ~m_axis_tlast
            /\ stream_state' = IF m_axis_tlast THEN "S_WAIT" ELSE "S_SEND"
            /\ send_count' = IF m_axis_tlast THEN send_count ELSE send_count + 1
       ELSE /\ m_axis_tvalid' = (trig_state = "T_CAPTURING")
            /\ UNCHANGED <<stream_state, read_ptr, send_count, beats>>

\* The beat on the bus is reloaded from read_ptr in EVERY cycle, and its last
\* flag from send_count, while an accepted beat advances both.
StreamSend(tready) ==
    /\ stream_state = "S_SEND"
    /\ m_axis_tdata' = buffer[read_ptr]
    /\ m_axis_tlast' = (send_count >= CaptureSize - 1)
    /\ UNCHANGED origin
    /\ IF tready /\ m_axis_tvalid
       THEN /\ read_ptr' = NextPtr(read_ptr) /\ beats' = beats + 1
            /\ m_axis_tvalid' = ~m_axis_tlast
            /\ stream_state' = IF m_axis_tlast THEN "S_WAIT" ELSE "S_SEND"
            /\ send_count' = IF m_axis_tlast THEN send_count ELSE send_count + 1
       ELSE /\ m_axis_tvalid' = TRUE
            /\ UNCHANGED <<stream_state, read_ptr, send_count, beats>>

StreamWait ==
    /\ stream_state = "S_WAIT"
    /\ m_axis_tvalid' = FALSE /\ m_axis_tlast' = FALSE
    /\ stream_state' = IF trig_state = "T_IDLE" THEN "S_IDLE" ELSE "S_WAIT"
    /\ UNCHANGED <<read_ptr, send_count, m_axis_tdata, origin, beats>>

StreamBlock(tready) == StreamIdle \/ StreamSend(tready) \/ StreamWait

-----------------------------------------------------------------------------
CaptureClock(step_valid, msb, above, arm, tready) ==
    /\ step_valid => written < MaxSamples
    /\ RingBlock(step_valid)
    /\ TriggerBlock(step_valid, msb, above, arm)
    /\ StreamBlock(tready)

CaptureNext ==
    \E step_valid, msb, above, arm, tready \in BOOLEAN :
        CaptureClock(step_valid, msb, above, arm, tready)

\* The DMA engine does not refuse data for ever.
CaptureFairness ==
    WF_captureVars(\E step_valid, msb, above, arm \in BOOLEAN :
                CaptureClock(step_valid, msb, above, arm, TRUE))

CaptureSpec == CaptureInit /\ [][CaptureNext]_captureVars /\ CaptureFairness

-----------------------------------------------------------------------------
(* Properties *)

\* The sample the sender is to read next, as a number.
Wanted == origin - PreTrigger + send_count

\* While the sample the sender wants has been written and not yet overwritten,
\* read_ptr is where it is, wherever the trigger fell in the ring: the
\* pre-trigger subtraction and the three pointers wrap consistently.
ReadsTheCapture ==
    stream_state = "S_SEND" /\ Wanted \in 0 .. written - 1 /\ Wanted >= written - BufferDepth
        => buffer[read_ptr] = Wanted

\* A transfer ends with tlast after CAPTURE_SIZE beats or, when its last beats
\* are accepted back to back, one more; never fewer, never without tlast.
TransferLength ==
    /\ stream_state = "S_SEND" => beats <= CaptureSize
    /\ stream_state = "S_WAIT" => beats \in {CaptureSize, CaptureSize + 1}

\* A trigger that finds the sender idle is always sent.
IdleMissesNothing ==
    ~(stream_state = "S_IDLE" /\ trig_state = "T_CAPTURING" /\ cap_count > 0)

\* A transfer that was started is finished.
TransferEnds == stream_state = "S_SEND" ~> stream_state = "S_WAIT"
====
