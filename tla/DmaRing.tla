---- MODULE DmaRing ----
(***************************************************************************)
(* The ring of capture buffers (ps/src/dma_ctrl.c): the DMA engine fills   *)
(* the buffer of the descriptor at the head of its queue and raises an     *)
(* interrupt, the handler sets a flag, the main loop collects one          *)
(* descriptor a flag and gives it back.  Engine and driver are external:   *)
(* two queues, of the descriptors the engine still has to fill and of      *)
(* those it has, each descriptor standing for the buffer it points to.     *)
(***************************************************************************)
EXTENDS Integers, Sequences

CONSTANT DMA_BD_COUNT

ASSUME CountAssumption == DMA_BD_COUNT \in Nat /\ DMA_BD_COUNT > 1

NoBuffer == DMA_BD_COUNT
Buffers == 0 .. DMA_BD_COUNT - 1

VARIABLES
    phase,              \* where the main loop is
    hw, done,           \* engine: descriptors to fill, the first being filled, and filled ones
    irq,                \* engine: completion interrupt raised and not acknowledged
    irq_enabled,        \* whether the interrupt controller passes it on
    isr,                \* dma_done_isr: not running, or between its two statements
    g_dma_done_flag, g_bd_idx,
    buf,                \* the buffer trigger_check is copying from
    merged              \* history: captures that wait, their interrupt or flag being another's

engine == <<hw, done, irq>>
ring == <<engine, irq_enabled, isr, g_dma_done_flag, g_bd_idx, buf, merged>>

\* dma_init.  It connects the handler by way of an interrupt controller object
\* that nothing has initialised; what comes of that is the build's affair.
RingInit ==
    /\ hw = [k \in 1 .. DMA_BD_COUNT |-> k - 1] /\ done = <<>>
    /\ irq = FALSE /\ irq_enabled \in BOOLEAN /\ isr = "idle"
    /\ g_dma_done_flag = FALSE /\ g_bd_idx = 0
    /\ buf = NoBuffer /\ merged = 0

Bit(b) == IF b THEN 1 ELSE 0

-----------------------------------------------------------------------------
\* The engine has filled a buffer.  Without a descriptor it stands still.
Complete ==
    /\ hw # <<>>
    /\ done' = Append(done, Head(hw)) /\ hw' = Tail(hw)
    /\ irq' = TRUE /\ merged' = merged + Bit(irq)
    /\ UNCHANGED <<phase, irq_enabled, isr, g_dma_done_flag, g_bd_idx, buf>>

\* History: the flag is up for a capture still in the ring, and now for this one.
SharesTheFlag == g_dma_done_flag /\ Len(done) >= merged + 2

\* dma_done_isr, first statement: the flag.
IsrFlag ==
    /\ irq_enabled /\ irq /\ isr = "idle"
    /\ isr' = "ack"
    /\ g_dma_done_flag' = TRUE /\ merged' = merged + Bit(SharesTheFlag)
    /\ UNCHANGED <<phase, engine, irq_enabled, g_bd_idx, buf>>

\* Second statement: the acknowledgement, which also takes back the interrupt
\* of a buffer completed since.
IsrAck ==
    /\ isr = "ack" /\ isr' = "idle"
    /\ irq' = FALSE
    /\ UNCHANGED <<phase, hw, done, irq_enabled, g_dma_done_flag, g_bd_idx, buf, merged>>

-----------------------------------------------------------------------------
\* The main loop moves on; it stands while a handler runs.
Go(from, to) == phase = from /\ phase' = to /\ isr = "idle"

\* dma_process: the flag is looked at ...
DmaTest ==
    /\ Go("dma", IF g_dma_done_flag THEN "clear" ELSE "trigger")
    /\ UNCHANGED ring

\* ... and cleared ...
DmaClear ==
    /\ Go("clear", "collect")
    /\ g_dma_done_flag' = FALSE
    /\ UNCHANGED <<engine, irq_enabled, isr, g_bd_idx, buf, merged>>

\* ... before one descriptor is collected and given back, pointing to what
\* g_bd_idx says was its buffer.
Collect ==
    IF done # <<>>
    THEN /\ done' = Tail(done) /\ hw' = Append(hw, g_bd_idx)
         /\ g_bd_idx' = (g_bd_idx + 1) % DMA_BD_COUNT
    ELSE UNCHANGED <<hw, done, g_bd_idx>>

DmaCollect ==
    /\ Go("collect", "trigger")
    /\ Collect
    /\ UNCHANGED <<irq, irq_enabled, isr, g_dma_done_flag, buf, merged>>

\* Mutant: the flag is cleared when the descriptor has been collected.
DmaProcessClearsLate ==
    \/ DmaTest
    \/ /\ Go("clear", "collect") /\ Collect
       /\ UNCHANGED <<irq, irq_enabled, isr, g_dma_done_flag, buf, merged>>
    \/ /\ Go("collect", "trigger") /\ g_dma_done_flag' = FALSE
       /\ UNCHANGED <<engine, irq_enabled, isr, g_bd_idx, buf, merged>>

DmaProcess == DmaTest \/ DmaClear \/ DmaCollect

-----------------------------------------------------------------------------
\* Mutant: the buffer to be collected next.
LastBufferNext == g_bd_idx

\* dma_get_last_buffer.
LastBuffer == (g_bd_idx - 1 + DMA_BD_COUNT) % DMA_BD_COUNT

\* trigger_check (main.c): either it finds no trigger, or nobody to tell, or it
\* copies from the buffer and sends, which TcpServer models.
TriggerCheck ==
    \/ Go("trigger", "heartbeat") /\ UNCHANGED ring
    \/ /\ Go("trigger", "copy") /\ buf' = LastBuffer
       /\ UNCHANGED <<engine, irq_enabled, isr, g_dma_done_flag, g_bd_idx, merged>>

CopyDone ==
    /\ Go("copy", "heartbeat") /\ buf' = NoBuffer
    /\ UNCHANGED <<engine, irq_enabled, isr, g_dma_done_flag, g_bd_idx, merged>>

-----------------------------------------------------------------------------
\* Between two calls of dma_process the captures left in the ring are exactly
\* those whose interrupt or flag is still pending and those that were merged
\* with another's: clearing the flag first loses none, but a merged one stays
\* in the ring for good, one descriptor fewer for the engine.
BacklogExact ==
    phase \notin {"clear", "collect"} =>
        Len(done) = merged + Bit(irq /\ isr = "idle") + Bit(g_dma_done_flag)

\* The engine fills the buffer being copied only when it has no other: however
\* many captures complete meanwhile, up to the last descriptor.
CopyIsUndisturbed ==
    hw # <<>> /\ Head(hw) = buf => Len(hw) = 1
====
