---- MODULE MainLoop_proofs ----
(***************************************************************************)
(* Proofs about MainLoop.  The ring: the queues of the engine, the one     *)
(* after the other, are the buffers in cyclic order from g_bd_idx on, and  *)
(* every capture in the ring is accounted for by an interrupt, a flag, the *)
(* step of dma_process that takes it, or the history of merged ones.  The  *)
(* timers: the age of every time stamp is the difference of the readings.  *)
(***************************************************************************)
EXTENDS MainLoop, TLAPS

-----------------------------------------------------------------------------
(* Arithmetic *)

\* One turn of a modulus.
LEMMA ModTurn ==
    ASSUME NEW n \in Nat, n > 0, NEW x \in Nat, x < 2 * n
    PROVE  x % n = IF x < n THEN x ELSE x - n
OBVIOUS

\* The difference of two readings of a counter.
LEMMA ModGap ==
    ASSUME NEW n \in Nat, n > 0, NEW a \in 0 .. n - 1, NEW b \in 0 .. n - 1
    PROVE  (a - b) % n = IF a >= b THEN a - b ELSE a - b + n
OBVIOUS

\* Counting from the next place on instead of one more from this one.
LEMMA CyclicStep ==
    ASSUME NEW n \in Nat, n > 0, NEW i \in 0 .. n - 1, NEW k \in 0 .. n - 1
    PROVE  /\ (((i + 1) % n) + k) % n = (i + (k + 1)) % n
           /\ k + 1 = n => (i + (k + 1)) % n = i
<1> DEFINE j == (i + 1) % n
<1>1. j = IF i + 1 < n THEN i + 1 ELSE 0
    BY ModTurn
<1>2. j \in Nat /\ j + k < 2 * n
    BY <1>1
<1> HIDE DEF j
<1>3. (j + k) % n = IF j + k < n THEN j + k ELSE j + k - n
    BY <1>2, ModTurn
<1>4. (i + (k + 1)) % n = IF i + (k + 1) < n THEN i + (k + 1) ELSE i + (k + 1) - n
    BY ModTurn
<1>5. (j + k) % n = (i + (k + 1)) % n
    BY <1>1, <1>3, <1>4
<1> QED
    BY <1>4, <1>5 DEF j

-----------------------------------------------------------------------------
(* The ring *)

RingTypes ==
    /\ irq \in BOOLEAN /\ g_dma_done_flag \in BOOLEAN
    /\ isr \in {"idle", "ack"} /\ (isr = "ack" => irq)
    /\ merged \in Nat /\ g_bd_idx \in Buffers

\* The buffers, from the one to be collected next.
Cyclic(k) == (g_bd_idx + k) % DMA_BD_COUNT

InOrder ==
    /\ hw \in Seq(Buffers) /\ done \in Seq(Buffers)
    /\ Len(hw) + Len(done) = DMA_BD_COUNT
    /\ \A k \in 1 .. Len(done) : done[k] = Cyclic(k - 1)
    /\ \A k \in 1 .. Len(hw) : hw[k] = Cyclic(Len(done) + k - 1)

Backlog ==
    /\ Len(done) = merged + Bit(irq /\ isr = "idle") + Bit(g_dma_done_flag)
                          + Bit(phase = "collect")
    /\ phase = "clear" => g_dma_done_flag

Copying == buf = IF phase = "copy" THEN LastBuffer ELSE NoBuffer

RingInv == RingTypes /\ InOrder /\ Backlog /\ Copying

\* At the start every descriptor is with the engine, in the order of the buffers.
LEMMA RingStart == Init => RingInv
<1> SUFFICES ASSUME Init PROVE RingInv
    OBVIOUS
<1> USE CountAssumption
<1>1. RingTypes
    <2>1. g_bd_idx \in Buffers /\ merged \in Nat
        BY DEF Init, RingInit, Buffers
    <2>2. irq \in BOOLEAN /\ g_dma_done_flag \in BOOLEAN /\ isr \in {"idle", "ack"} /\ isr # "ack"
        BY DEF Init, RingInit
    <2> QED
        BY <2>1, <2>2 DEF RingTypes
<1>2. InOrder
    <2>1. hw \in Seq(Buffers) /\ Len(hw) = DMA_BD_COUNT /\ done = <<>>
        BY DEF Init, RingInit, Buffers
    <2>2. ASSUME NEW k \in 1 .. DMA_BD_COUNT PROVE hw[k] = Cyclic(k - 1)
        <3>1. hw[k] = k - 1 /\ g_bd_idx = 0
            BY DEF Init, RingInit
        <3> QED
            BY <3>1, ModTurn DEF Cyclic
    <2> QED
        BY <2>1, <2>2 DEF InOrder
<1>3. Backlog /\ Copying
    BY DEF Init, RingInit, Backlog, Copying, Bit
<1> QED
    BY <1>1, <1>2, <1>3 DEF RingInv

\* The engine takes the head of one queue to the end of the other.
LEMMA CompleteKeepsOrder == RingInv /\ Complete => InOrder'
<1> SUFFICES ASSUME RingInv, Complete PROVE InOrder'
    OBVIOUS
<1> USE DEF RingInv, InOrder
<1>1. /\ hw \in Seq(Buffers) /\ hw # <<>> /\ done \in Seq(Buffers)
      /\ done' = Append(done, Head(hw)) /\ hw' = Tail(hw) /\ g_bd_idx' = g_bd_idx
    BY DEF Complete
<1>2. /\ hw' \in Seq(Buffers) /\ Len(hw') = Len(hw) - 1 /\ Len(hw) > 0
      /\ done' \in Seq(Buffers) /\ Len(done') = Len(done) + 1
      /\ Len(hw) \in Nat /\ Len(done) \in Nat
    BY <1>1
<1>3. ASSUME NEW k \in 1 .. Len(done') PROVE done'[k] = Cyclic(k - 1)
    <2>1. CASE k <= Len(done)
        BY <1>1, <1>2, <2>1
    <2>2. CASE k = Len(done) + 1
        <3>1. done'[k] = hw[1] /\ hw[1] = Cyclic(Len(done) + 1 - 1)
            BY <1>1, <1>2, <2>2
        <3>2. Len(done) + 1 - 1 = k - 1
            BY <1>2, <2>2
        <3> QED
            BY <3>1, <3>2
    <2> QED
        BY <1>2, <2>1, <2>2
<1>4. ASSUME NEW k \in 1 .. Len(hw') PROVE hw'[k] = Cyclic(Len(done') + k - 1)
    <2>1. hw'[k] = hw[k + 1] /\ k + 1 \in 1 .. Len(hw)
        BY <1>1, <1>2
    <2>2. /\ hw[k + 1] = Cyclic(Len(done) + (k + 1) - 1)
          /\ Len(done) + (k + 1) - 1 = Len(done') + k - 1
        BY <1>2, <2>1
    <2> QED
        BY <2>1, <2>2
<1>5. ASSUME NEW k PROVE Cyclic(k) = (g_bd_idx' + k) % DMA_BD_COUNT
    BY <1>1 DEF Cyclic
<1> QED
    BY <1>1, <1>2, <1>3, <1>4, <1>5 DEF Cyclic

\* The descriptor that is collected goes behind the last one the engine has.
LEMMA CollectKeepsOrder == RingInv /\ Collect => InOrder' /\ g_bd_idx' \in Buffers
<1> SUFFICES ASSUME RingInv, Collect PROVE InOrder' /\ g_bd_idx' \in Buffers
    OBVIOUS
<1> USE CountAssumption
<1>0. g_bd_idx \in 0 .. DMA_BD_COUNT - 1 /\ InOrder
    BY DEF RingInv, RingTypes, Buffers
<1>1. CASE done = <<>>
    BY <1>0, <1>1 DEF Collect, InOrder, Cyclic, Buffers
<1>2. CASE done # <<>>
    <2>1. /\ done' = Tail(done) /\ hw' = Append(hw, g_bd_idx)
          /\ g_bd_idx' = (g_bd_idx + 1) % DMA_BD_COUNT
        BY <1>2 DEF Collect
    <2>2. g_bd_idx' = IF g_bd_idx + 1 < DMA_BD_COUNT THEN g_bd_idx + 1 ELSE 0
        BY <1>0, <2>1, ModTurn
    <2>3. g_bd_idx' \in Buffers /\ g_bd_idx \in Buffers
        BY <1>0, <2>2 DEF Buffers
    <2>4. /\ hw \in Seq(Buffers) /\ done \in Seq(Buffers) /\ Len(done) > 0
          /\ Len(hw) + Len(done) = DMA_BD_COUNT /\ Len(hw) \in Nat /\ Len(done) \in Nat
        BY <1>0, <1>2 DEF InOrder
    <2>5. /\ hw' \in Seq(Buffers) /\ Len(hw') = Len(hw) + 1
          /\ done' \in Seq(Buffers) /\ Len(done') = Len(done) - 1
        BY <2>1, <2>3, <2>4
    <2> DEFINE Later(k) == (g_bd_idx' + k) % DMA_BD_COUNT
    <2>6. ASSUME NEW k \in 0 .. DMA_BD_COUNT - 1
          PROVE  /\ k + 1 < DMA_BD_COUNT => Later(k) = Cyclic(k + 1)
                 /\ k + 1 = DMA_BD_COUNT => Later(k) = g_bd_idx
        BY <1>0, <2>1, CyclicStep, SMTT(60) DEF Cyclic
    <2> HIDE DEF Later
    <2>7. ASSUME NEW k \in 1 .. Len(done') PROVE done'[k] = Later(k - 1)
        <3>1. done'[k] = done[k + 1] /\ k + 1 \in 1 .. Len(done)
            BY <2>1, <2>4, <2>5
        <3>2. done[k + 1] = Cyclic((k + 1) - 1) /\ (k + 1) - 1 = (k - 1) + 1
            BY <1>0, <3>1 DEF InOrder
        <3>3. k - 1 \in 0 .. DMA_BD_COUNT - 1 /\ (k - 1) + 1 < DMA_BD_COUNT
            BY <2>4, <2>5
        <3> QED
            BY <3>1, <3>2, <3>3, <2>6
    <2>8. ASSUME NEW k \in 1 .. Len(hw') PROVE hw'[k] = Later(Len(done') + k - 1)
        <3> DEFINE j == Len(done') + k - 1
        <3>1. j \in 0 .. DMA_BD_COUNT - 1 /\ j = Len(done) - 1 + k - 1
            BY <2>4, <2>5
        <3>2. CASE k <= Len(hw)
            <4>1. hw'[k] = hw[k] /\ hw[k] = Cyclic(Len(done) + k - 1)
                BY <1>0, <2>1, <2>4, <3>2 DEF InOrder
            <4>2. Len(done) + k - 1 = j + 1 /\ j + 1 < DMA_BD_COUNT
                BY <2>4, <3>1, <3>2
            <4> HIDE DEF j
            <4>3. Later(j) = Cyclic(j + 1)
                BY <3>1, <4>2, <2>6
            <4> QED
                BY <4>1, <4>2, <4>3 DEF j
        <3>3. CASE k = Len(hw) + 1
            <4>1. hw'[k] = g_bd_idx /\ j + 1 = DMA_BD_COUNT
                BY <2>1, <2>4, <3>1, <3>3
            <4> HIDE DEF j
            <4>2. Later(j) = g_bd_idx
                BY <3>1, <4>1, <2>6
            <4> QED
                BY <4>1, <4>2 DEF j
        <3> QED
            BY <2>4, <2>5, <3>2, <3>3
    <2> QED
        BY <2>3, <2>4, <2>5, <2>7, <2>8 DEF InOrder, Cyclic, Later
<1> QED
    BY <1>1, <1>2

\* Steps that leave the queues alone.
LEMMA OrderUntouched ==
    RingInv /\ UNCHANGED <<hw, done, g_bd_idx>> => InOrder' /\ g_bd_idx' \in Buffers
BY DEF RingInv, RingTypes, InOrder, Cyclic

\* A completion moves the first descriptor of the engine behind the completed ones
\* and raises an interrupt, or finds one raised (merged).
LEMMA CompleteKeepsRing == RingInv /\ Complete => RingInv'
<1> SUFFICES ASSUME RingInv, Complete PROVE RingInv'
    OBVIOUS
<1>1. InOrder'
    BY CompleteKeepsOrder
<1>2. /\ phase' = phase /\ isr' = isr /\ g_dma_done_flag' = g_dma_done_flag /\ g_bd_idx' = g_bd_idx
      /\ buf' = buf /\ irq' = TRUE /\ merged' = merged + Bit(irq)
    BY DEF Complete
<1>3. merged' \in Nat
    BY <1>2 DEF RingInv, RingTypes, Bit
<1>4. RingTypes'
    BY <1>2, <1>3 DEF RingInv, RingTypes, Buffers
<1>5. Len(done') = Len(done) + 1 /\ Len(done) \in Nat
    BY DEF RingInv, InOrder, Complete
<1>6. Bit(irq') = 1 /\ (isr = "ack" => irq)
    BY <1>2 DEF RingInv, RingTypes, Bit
<1>7. Backlog'
    <2>1. CASE isr = "idle"
        <3>1. Bit(irq /\ isr = "idle") = Bit(irq) /\ Bit(irq' /\ isr' = "idle") = 1
            BY <1>2, <2>1 DEF Bit
        <3>2. Len(done') = merged' + 1 + Bit(g_dma_done_flag) + Bit(phase = "collect")
            BY <1>2, <1>5, <3>1 DEF RingInv, RingTypes, Backlog, Bit
        <3> QED
            BY <1>2, <3>1, <3>2 DEF RingInv, Backlog
    <2>2. CASE isr = "ack"
        <3>1. Bit(irq /\ isr = "idle") = 0 /\ Bit(irq' /\ isr' = "idle") = 0 /\ Bit(irq) = 1
            BY <1>2, <1>6, <2>2 DEF Bit
        <3>2. Len(done') = merged' + 0 + Bit(g_dma_done_flag) + Bit(phase = "collect")
            BY <1>2, <1>5, <3>1 DEF RingInv, RingTypes, Backlog, Bit
        <3> QED
            BY <1>2, <3>1, <3>2 DEF RingInv, Backlog
    <2> QED
        BY <2>1, <2>2 DEF RingInv, RingTypes
<1>8. Copying'
    BY <1>2 DEF RingInv, Copying, LastBuffer
<1> QED
    BY <1>1, <1>4, <1>7, <1>8 DEF RingInv

\* The handler turns an interrupt into the flag, or finds the flag set (merged).
LEMMA IsrKeepsRing == RingInv /\ (IsrFlag \/ IsrAck) => RingInv'
<1> SUFFICES ASSUME RingInv, IsrFlag \/ IsrAck PROVE RingInv'
    OBVIOUS
<1>0. UNCHANGED <<phase, hw, done, g_bd_idx, buf>>
    BY DEF IsrFlag, IsrAck, engine
<1>1. InOrder' /\ g_bd_idx' \in Buffers
    BY <1>0, OrderUntouched
<1>2. Copying'
    BY <1>0 DEF RingInv, Copying, LastBuffer
<1>3. CASE IsrFlag
    <2>1. /\ irq /\ irq' = irq /\ isr = "idle" /\ isr' = "ack" /\ g_dma_done_flag' = TRUE
          /\ merged' = merged + Bit(SharesTheFlag)
        BY <1>3 DEF IsrFlag, engine
    <2>2. Bit(irq /\ isr = "idle") = 1 /\ Bit(irq' /\ isr' = "idle") = 0 /\ Bit(g_dma_done_flag') = 1
        BY <2>1 DEF Bit
    <2>3. Len(done) = merged + 1 + Bit(g_dma_done_flag) + Bit(phase = "collect")
        BY <2>2 DEF RingInv, Backlog
    <2>4. Bit(SharesTheFlag) = Bit(g_dma_done_flag)
        BY <2>3 DEF SharesTheFlag, Bit, RingInv, RingTypes
    <2>5. merged' \in Nat /\ Len(done') = merged' + 0 + 1 + Bit(phase = "collect")
        BY <1>0, <2>1, <2>3, <2>4 DEF Bit, RingInv, RingTypes
    <2>6. RingTypes'
        BY <1>1, <2>1, <2>5 DEF RingInv, RingTypes
    <2>7. Backlog'
        BY <1>0, <2>1, <2>2, <2>5 DEF Backlog
    <2> QED
        BY <1>1, <1>2, <2>6, <2>7 DEF RingInv
<1>4. CASE IsrAck
    <2>1. /\ isr = "ack" /\ isr' = "idle" /\ irq' = FALSE
          /\ UNCHANGED <<g_dma_done_flag, merged>>
        BY <1>4 DEF IsrAck
    <2>2. Bit(irq /\ isr = "idle") = 0 /\ Bit(irq' /\ isr' = "idle") = 0
        BY <2>1 DEF Bit
    <2>3. Backlog'
        BY <1>0, <2>1, <2>2 DEF RingInv, Backlog
    <2>4. RingTypes'
        BY <1>1, <2>1 DEF RingInv, RingTypes
    <2> QED
        BY <1>1, <1>2, <2>3, <2>4 DEF RingInv
<1> QED
    BY <1>3, <1>4

\* The flag is spent, and g_bd_idx moves on, with the descriptor collected.
LEMMA DmaProcessKeepsRing == RingInv /\ DmaProcess => RingInv'
<1> SUFFICES ASSUME RingInv, DmaProcess PROVE RingInv'
    OBVIOUS
<1>0. UNCHANGED <<irq, isr, buf, merged>> /\ phase # "copy" /\ phase' # "copy"
    BY DEF DmaProcess, DmaTest, DmaClear, DmaCollect, Go, ring, engine
<1>1. Copying'
    BY <1>0 DEF RingInv, Copying
<1>2. CASE DmaTest
    <2>1. /\ UNCHANGED <<hw, done, g_bd_idx, g_dma_done_flag>> /\ phase = "dma"
          /\ phase' = IF g_dma_done_flag THEN "clear" ELSE "trigger"
        BY <1>2 DEF DmaTest, Go, ring, engine
    <2>2. InOrder' /\ RingTypes'
        BY <1>0, <2>1, OrderUntouched DEF RingInv, RingTypes
    <2>3. Bit(phase = "collect") = 0 /\ Bit(phase' = "collect") = 0 /\ (phase' = "clear" => g_dma_done_flag)
        BY <2>1 DEF Bit
    <2>4. Backlog'
        BY <1>0, <2>1, <2>3 DEF RingInv, Backlog
    <2> QED
        BY <1>1, <2>2, <2>4 DEF RingInv
<1>3. CASE DmaClear
    <2>1. /\ UNCHANGED <<hw, done, g_bd_idx>> /\ phase = "clear" /\ phase' = "collect"
          /\ g_dma_done_flag' = FALSE
        BY <1>3 DEF DmaClear, Go, engine
    <2>2. InOrder' /\ RingTypes'
        BY <1>0, <2>1, OrderUntouched DEF RingInv, RingTypes
    <2>3. g_dma_done_flag
        BY <2>1 DEF RingInv, Backlog
    <2>4. /\ Bit(phase = "collect") = 0 /\ Bit(phase' = "collect") = 1
          /\ Bit(g_dma_done_flag) = 1 /\ Bit(g_dma_done_flag') = 0
        BY <2>1, <2>3 DEF Bit
    <2>5. Backlog'
        <3>1. Len(done) = merged + Bit(irq /\ isr = "idle") + 1 + 0
            BY <2>4 DEF RingInv, Backlog
        <3>2. Len(done') = merged' + Bit(irq' /\ isr' = "idle") + 0 + 1
            BY <1>0, <2>1, <3>1 DEF RingInv, RingTypes, Bit
        <3> QED
            BY <2>1, <2>4, <3>2 DEF Backlog
    <2> QED
        BY <1>1, <2>2, <2>5 DEF RingInv
<1>4. CASE DmaCollect
    <2>1. /\ Collect /\ phase = "collect" /\ phase' = "trigger"
          /\ g_dma_done_flag' = g_dma_done_flag
        BY <1>4 DEF DmaCollect, Go
    <2>2. InOrder' /\ RingTypes'
        BY <1>0, <2>1, CollectKeepsOrder DEF RingInv, RingTypes
    <2>3. Bit(phase = "collect") = 1 /\ Bit(phase' = "collect") = 0
        BY <2>1 DEF Bit
    <2>4. Len(done) = merged + Bit(irq /\ isr = "idle") + Bit(g_dma_done_flag) + 1
        BY <2>3 DEF RingInv, Backlog
    <2>5. done # <<>> /\ Len(done) \in Nat
        BY <2>4 DEF RingInv, RingTypes, InOrder, Bit
    <2>6. Len(done') = Len(done) - 1
        BY <2>1, <2>5 DEF Collect, RingInv, InOrder
    <2>7. Len(done') = merged' + Bit(irq' /\ isr' = "idle") + Bit(g_dma_done_flag') + 0
        BY <1>0, <2>1, <2>4, <2>6 DEF RingInv, RingTypes, Bit
    <2>8. Backlog'
        BY <2>1, <2>3, <2>7 DEF Backlog
    <2> QED
        BY <1>1, <2>2, <2>8 DEF RingInv
<1> QED
    BY <1>2, <1>3, <1>4 DEF DmaProcess

\* The rest of the main loop moves from phase to phase and looks at most at
\* what buffer to copy.
LEMMA ElsewhereKeepsRing ==
    ASSUME RingInv, UNCHANGED <<engine, isr, g_dma_done_flag, g_bd_idx, merged>>,
           phase' = phase \/ (phase # "collect" /\ phase' \notin {"clear", "collect"}),
           Copying'
    PROVE  RingInv'
<1>1. InOrder' /\ RingTypes'
    BY OrderUntouched DEF RingInv, RingTypes, engine
<1>2. Bit(phase' = "collect") = Bit(phase = "collect") /\ (phase' = "clear" => phase = "clear")
    BY DEF Bit
<1>3. Backlog'
    BY <1>2 DEF RingInv, Backlog, engine
<1> QED
    BY <1>1, <1>3 DEF RingInv

\* The inductive step, action by action; what is not of the ring leaves it alone.
LEMMA LoopKeepsRing == RingInv /\ [Next]_vars => RingInv'
<1> SUFFICES ASSUME RingInv, [Next]_vars PROVE RingInv'
    OBVIOUS
<1>1. CASE Complete
    BY <1>1, CompleteKeepsRing
<1>2. CASE IsrFlag \/ IsrAck
    BY <1>2, IsrKeepsRing
<1>3. CASE DmaProcess
    BY <1>3, DmaProcessKeepsRing
<1>4. CASE TriggerCheck \/ CopyDone
    <2>1. /\ UNCHANGED <<engine, isr, g_dma_done_flag, g_bd_idx, merged>>
          /\ phase # "collect" /\ phase' \notin {"clear", "collect"}
        BY <1>4 DEF TriggerCheck, CopyDone, Go, ring
    <2>2. Copying'
        BY <1>4 DEF TriggerCheck, CopyDone, Go, ring, RingInv, Copying, LastBuffer
    <2> QED
        BY <2>1, <2>2, ElsewhereKeepsRing
<1>5. CASE \/ TtcIsr \/ ReadClock \/ TcpServerProcess \/ ServeCommand \/ CommandsDone
           \/ HeartbeatSend \/ SwWdtCheck \/ UNCHANGED vars
    <2>1. /\ UNCHANGED ring
          /\ phase' = phase \/ (/\ phase \notin {"collect", "copy"}
                               /\ phase' \notin {"clear", "collect", "copy"})
        BY <1>5 DEF TtcIsr, ReadClock, TcpServerProcess, ServeCommand, CommandsDone,
                    HeartbeatSend, SwWdtCheck, Go, vars
    <2>2. Copying'
        BY <2>1 DEF ring, RingInv, Copying, LastBuffer
    <2> QED
        BY <2>1, <2>2, ElsewhereKeepsRing DEF ring
<1> QED
    BY <1>1, <1>2, <1>3, <1>4, <1>5 DEF Next, RingStep

\* The inductive invariant of the DMA ring.
LEMMA RingHolds == Spec => []RingInv
BY RingStart, LoopKeepsRing, PTL DEF Spec

\* Every capture in the ring has an interrupt or the flag to itself or was
\* merged with one that has (dma_ctrl.c, "clear before consuming").
THEOREM CapturesAccountedFor == Spec => []BacklogExact
<1>1. RingInv => BacklogExact
    BY DEF RingInv, RingTypes, Backlog, BacklogExact, Bit
<1> QED
    BY <1>1, RingHolds, PTL

\* trigger_check copies from a buffer that the engine reaches only when every
\* other one waits to be collected.
THEOREM CopiesAreUndisturbed == Spec => []CopyIsUndisturbed
<1>1. ASSUME RingInv, hw # <<>>, Head(hw) = buf PROVE Len(hw) = 1
    <2> USE CountAssumption
    <2>1. /\ hw \in Seq(Buffers) /\ Len(hw) \in Nat /\ Len(hw) > 0 /\ Len(done) \in Nat
          /\ Len(hw) + Len(done) = DMA_BD_COUNT /\ g_bd_idx \in 0 .. DMA_BD_COUNT - 1
        BY <1>1 DEF RingInv, RingTypes, InOrder, Buffers
    <2>2. hw[1] = Cyclic(Len(done) + 1 - 1) /\ Len(done) + 1 - 1 = Len(done) /\ Head(hw) = hw[1]
        BY <1>1, <2>1 DEF RingInv, InOrder
    <2>3. hw[1] \in 0 .. DMA_BD_COUNT - 1
        BY <2>1 DEF Buffers
    <2>4. buf = LastBuffer
        BY <1>1, <2>2, <2>3 DEF RingInv, Copying, NoBuffer
    <2>5. (g_bd_idx + Len(done)) % DMA_BD_COUNT
            = IF g_bd_idx + Len(done) < DMA_BD_COUNT THEN g_bd_idx + Len(done)
              ELSE g_bd_idx + Len(done) - DMA_BD_COUNT
        BY <2>1, ModTurn
    <2>6. (g_bd_idx - 1 + DMA_BD_COUNT) % DMA_BD_COUNT
            = IF g_bd_idx = 0 THEN DMA_BD_COUNT - 1 ELSE g_bd_idx - 1
        <3> DEFINE x == g_bd_idx - 1 + DMA_BD_COUNT
        <3>1. /\ x \in Nat /\ x < 2 * DMA_BD_COUNT
              /\ IF g_bd_idx = 0 THEN x = DMA_BD_COUNT - 1 /\ x < DMA_BD_COUNT
                 ELSE x - DMA_BD_COUNT = g_bd_idx - 1 /\ x >= DMA_BD_COUNT
            BY <2>1
        <3> HIDE DEF x
        <3>2. x % DMA_BD_COUNT = IF x < DMA_BD_COUNT THEN x ELSE x - DMA_BD_COUNT
            BY <3>1, ModTurn
        <3>3. x % DMA_BD_COUNT = IF g_bd_idx = 0 THEN DMA_BD_COUNT - 1 ELSE g_bd_idx - 1
            BY <2>1, <3>1, <3>2
        <3> QED
            BY <3>3 DEF x
    <2>7. (g_bd_idx + Len(done)) % DMA_BD_COUNT = (g_bd_idx - 1 + DMA_BD_COUNT) % DMA_BD_COUNT
        BY <1>1, <2>2, <2>4 DEF Cyclic, LastBuffer
    <2>8. (IF g_bd_idx + Len(done) < DMA_BD_COUNT THEN g_bd_idx + Len(done)
           ELSE g_bd_idx + Len(done) - DMA_BD_COUNT)
            = IF g_bd_idx = 0 THEN DMA_BD_COUNT - 1 ELSE g_bd_idx - 1
        BY ONLY <2>5, <2>6, <2>7
    <2>9. Len(done) + 1 = DMA_BD_COUNT
        <3>1. CASE g_bd_idx + Len(done) < DMA_BD_COUNT
            BY <2>1, <2>8, <3>1
        <3>2. CASE g_bd_idx + Len(done) >= DMA_BD_COUNT
            BY <2>1, <2>8, <3>2
        <3> QED
            BY <2>1, <3>1, <3>2
    <2> DEFINE l == Len(hw)
    <2>10. l \in Nat /\ l + Len(done) = DMA_BD_COUNT
        BY <2>1
    <2> HIDE DEF l
    <2>11. l = 1
        BY <2>9, <2>10
    <2> QED
        BY <2>11, Zenon DEF l
<1>2. RingInv => CopyIsUndisturbed
    BY <1>1 DEF CopyIsUndisturbed
<1> QED
    BY <1>2, RingHolds, PTL

-----------------------------------------------------------------------------
(* The timers *)

Gap(a, b) == IF a >= b THEN a - b ELSE a - b + Word
Readings == 0 .. Word - 1

TimerTypes ==
    /\ g_tick_ms \in Readings /\ now \in Readings
    /\ last_tcp_tmr \in Readings /\ last_heartbeat \in Readings
    /\ last_proto_activity \in Readings
    /\ lag \in 0 .. MaxPass /\ tmr_age \in Nat /\ beat_age \in Nat
    /\ quiet \in 0 .. Word + MaxPass
    /\ served \in BOOLEAN /\ warned \in BOOLEAN

AgesAreGaps ==
    /\ Gap(g_tick_ms, now) = lag
    /\ Gap(g_tick_ms, last_tcp_tmr) = tmr_age
    /\ Gap(g_tick_ms, last_heartbeat) = beat_age
    /\ quiet < Word => Gap(g_tick_ms, last_proto_activity) = quiet

AgesAreBounded ==
    /\ lag <= tmr_age /\ tmr_age - lag < TCP_TMR_INTERVAL_MS
    /\ lag <= beat_age /\ beat_age - lag < HEARTBEAT_INTERVAL_MS + MaxPass
    /\ phase \in {"watchdog", "top"} => beat_age - lag < HEARTBEAT_INTERVAL_MS
    /\ served \/ lag <= quiet

TimerInv == TimerTypes /\ AgesAreGaps /\ AgesAreBounded /\ TimeoutMeansSilence

\* The unsigned difference of two readings is the distance from one to the other.
LEMMA ElapsedIsGap ==
    ASSUME NEW a \in Readings, NEW b \in Readings
    PROVE  Elapsed(a, b) = Gap(a, b)
BY TimerAssumption, ModGap DEF Elapsed, Gap, Readings

\* What a pass computes from its reading is how old the time stamp was then.
LEMMA GapAtReading ==
    ASSUME NEW t \in Readings, NEW n \in Readings, NEW b \in Readings, NEW age \in Nat,
           NEW l \in Nat, l <= age, Gap(t, n) = l, Gap(t, b) = age
    PROVE  Elapsed(n, b) = age - l
<1>1. Gap(n, b) = age - l
    BY TimerAssumption DEF Gap, Readings
<1> QED
    BY <1>1, ElapsedIsGap

\* No stamp is older than a pass when the loop is entered.
LEMMA TimersStart == Init => TimerInv
<1> SUFFICES ASSUME Init PROVE TimerInv
    OBVIOUS
<1> USE TimerAssumption
<1>1. /\ g_tick_ms \in 0 .. MaxPass /\ now = g_tick_ms /\ last_tcp_tmr = g_tick_ms
      /\ last_heartbeat = 0 /\ last_proto_activity = 0
      /\ lag = 0 /\ tmr_age = 0 /\ beat_age = g_tick_ms /\ quiet = g_tick_ms
    BY DEF Init
<1>2. phase = "top" /\ served = FALSE /\ warned = FALSE
    BY DEF Init
<1>3. TimerTypes
    <2>1. /\ g_tick_ms \in Readings /\ 0 \in Readings
          /\ lag \in 0 .. MaxPass /\ tmr_age \in Nat /\ beat_age \in Nat
          /\ quiet \in 0 .. Word + MaxPass
        BY <1>1 DEF Readings
    <2> QED
        BY <1>1, <1>2, <2>1 DEF TimerTypes
<1>4. AgesAreGaps
    BY <1>1 DEF AgesAreGaps, Gap
<1>5. AgesAreBounded
    BY <1>1, <1>2 DEF AgesAreBounded
<1>6. TimeoutMeansSilence
    <2>1. ~(quiet - lag > ProtoTimeout)
        BY <1>1
    <2> QED
        BY <1>1, <1>2, <2>1 DEF TimeoutMeansSilence
<1> QED
    BY <1>3, <1>4, <1>5, <1>6 DEF TimerInv

\* A tick makes every gap one longer, also when the counter wraps.
LEMMA GapTick ==
    ASSUME NEW t \in Readings, NEW b \in Readings, Gap(t, b) + 1 < Word
    PROVE  (t + 1) % Word \in Readings /\ Gap((t + 1) % Word, b) = Gap(t, b) + 1
<1> USE TimerAssumption
<1> DEFINE n == (t + 1) % Word
<1>1. n = IF t + 1 < Word THEN t + 1 ELSE 0
    BY ModTurn DEF Readings
<1> HIDE DEF n
<1>2. n \in Readings /\ Gap(n, b) = Gap(t, b) + 1
    BY <1>1 DEF Gap, Readings
<1> QED
    BY <1>2 DEF n

\* A tick ages every stamp and advances the counter by one, round the wrap or not.
LEMMA TickKeepsTimers == TimerInv /\ TtcIsr => TimerInv'
<1> SUFFICES ASSUME TimerInv, TtcIsr PROVE TimerInv'
    OBVIOUS
<1> USE TimerAssumption
<1>1. /\ g_tick_ms' = (g_tick_ms + 1) % Word /\ lag < MaxPass
      /\ lag' = lag + 1 /\ tmr_age' = tmr_age + 1 /\ beat_age' = beat_age + 1
      /\ quiet' = IF quiet < Word + MaxPass THEN quiet + 1 ELSE quiet
    BY DEF TtcIsr
<1>2. UNCHANGED <<phase, now, last_tcp_tmr, last_heartbeat, last_proto_activity, served, warned>>
    BY DEF TtcIsr, stamps
<1>3. /\ g_tick_ms \in Readings /\ now \in Readings
      /\ last_tcp_tmr \in Readings /\ last_heartbeat \in Readings
      /\ last_proto_activity \in Readings
      /\ lag \in 0 .. MaxPass /\ tmr_age \in Nat /\ beat_age \in Nat
      /\ quiet \in 0 .. Word + MaxPass
    BY DEF TimerInv, TimerTypes
<1>4. served \in BOOLEAN /\ warned \in BOOLEAN
    BY DEF TimerInv, TimerTypes
<1>5. /\ lag <= tmr_age /\ tmr_age - lag < TCP_TMR_INTERVAL_MS
      /\ lag <= beat_age /\ beat_age - lag < HEARTBEAT_INTERVAL_MS + MaxPass
    BY DEF TimerInv, AgesAreBounded
<1>6. /\ Gap(g_tick_ms, now) + 1 < Word /\ Gap(g_tick_ms, last_tcp_tmr) + 1 < Word
      /\ Gap(g_tick_ms, last_heartbeat) + 1 < Word
    BY <1>1, <1>3, <1>5 DEF TimerInv, AgesAreGaps
<1>7. g_tick_ms' \in Readings
    BY <1>1, <1>3, <1>6, GapTick
<1>8. AgesAreGaps'
    <2>1. /\ Gap(g_tick_ms', now) = lag + 1
          /\ Gap(g_tick_ms', last_tcp_tmr) = tmr_age + 1
          /\ Gap(g_tick_ms', last_heartbeat) = beat_age + 1
        BY <1>1, <1>3, <1>6, GapTick DEF TimerInv, AgesAreGaps
    <2>2. ASSUME quiet' < Word PROVE Gap(g_tick_ms', last_proto_activity) = quiet'
        <3>1. quiet + 1 < Word /\ quiet' = quiet + 1
            BY <1>1, <1>3, <2>2
        <3>2. Gap(g_tick_ms, last_proto_activity) = quiet
            BY <1>3, <3>1 DEF TimerInv, AgesAreGaps
        <3> QED
            BY <1>1, <1>3, <3>1, <3>2, GapTick
    <2> QED
        BY <1>1, <1>2, <2>1, <2>2 DEF AgesAreGaps, Gap
<1>9. AgesAreBounded'
    <2>1. served' \/ lag' <= quiet'
        <3>1. served \/ lag <= quiet
            BY DEF TimerInv, AgesAreBounded
        <3>2. lag <= quiet => lag' <= quiet'
            BY <1>1, <1>3
        <3> QED
            BY <1>2, <3>1, <3>2
    <2>2. phase' \in {"watchdog", "top"} => beat_age' - lag' < HEARTBEAT_INTERVAL_MS
        <3>1. phase \in {"watchdog", "top"} => beat_age - lag < HEARTBEAT_INTERVAL_MS
            BY DEF TimerInv, AgesAreBounded
        <3>2. beat_age' - lag' = beat_age - lag
            BY <1>1, <1>3
        <3> QED
            BY <1>2, <3>1, <3>2
    <2>3. /\ lag' <= tmr_age' /\ tmr_age' - lag' < TCP_TMR_INTERVAL_MS
          /\ lag' <= beat_age' /\ beat_age' - lag' < HEARTBEAT_INTERVAL_MS + MaxPass
        BY <1>1, <1>3, <1>5
    <2> QED
        BY <2>1, <2>2, <2>3 DEF AgesAreBounded
<1>10. TimeoutMeansSilence'
    <2>1. TimeoutMeansSilence
        BY DEF TimerInv
    <2>2. quiet - lag > ProtoTimeout => quiet' - lag' > ProtoTimeout
        BY <1>1, <1>3
    <2>3. quiet' - lag' > ProtoTimeout /\ quiet' < Word => quiet - lag > ProtoTimeout /\ quiet < Word
        BY <1>1, <1>3
    <2> QED
        BY <1>2, <2>1, <2>2, <2>3 DEF TimeoutMeansSilence
<1>11. TimerTypes'
    <2>1. /\ lag' \in 0 .. MaxPass /\ tmr_age' \in Nat /\ beat_age' \in Nat
          /\ quiet' \in 0 .. Word + MaxPass
        BY <1>1, <1>3
    <2> QED
        BY <1>2, <1>3, <1>4, <1>7, <2>1 DEF TimerTypes
<1> QED
    BY <1>8, <1>9, <1>10, <1>11 DEF TimerInv

\* The timer of lwIP: what it finds in a pass, and that it finds it in time.
LEMMA ReadingFindsTimer ==
    ASSUME TimerInv, ReadClock
    PROVE  /\ Elapsed(g_tick_ms, last_tcp_tmr) = tmr_age
           /\ tmr_age < TCP_TMR_INTERVAL_MS + MaxPass
<1> USE TimerAssumption
<1>1. Elapsed(g_tick_ms, last_tcp_tmr) = tmr_age
    BY ElapsedIsGap DEF TimerInv, TimerTypes, AgesAreGaps
<1>2. tmr_age < TCP_TMR_INTERVAL_MS + MaxPass
    BY DEF TimerInv, TimerTypes, AgesAreBounded
<1> QED
    BY <1>1, <1>2

\* The top of a pass reads the counter; lwIP's timer starts again if it is due.
LEMMA ReadClockKeepsTimers == TimerInv /\ ReadClock => TimerInv'
<1> SUFFICES ASSUME TimerInv, ReadClock PROVE TimerInv'
    OBVIOUS
<1> USE TimerAssumption
<1> DEFINE due == tmr_age >= TCP_TMR_INTERVAL_MS
<1>1. /\ phase = "top" /\ phase' = "process"
      /\ now' = g_tick_ms /\ lag' = 0 /\ served' = FALSE /\ warned' = FALSE
      /\ last_tcp_tmr' = IF due THEN g_tick_ms ELSE last_tcp_tmr
      /\ tmr_age' = IF due THEN 0 ELSE tmr_age
    BY ReadingFindsTimer DEF ReadClock, Go
<1>2. UNCHANGED <<g_tick_ms, last_heartbeat, last_proto_activity, beat_age, quiet>>
    BY DEF ReadClock
<1>3. /\ g_tick_ms \in Readings /\ last_tcp_tmr \in Readings
      /\ lag \in 0 .. MaxPass /\ tmr_age \in Nat /\ beat_age \in Nat
      /\ quiet \in 0 .. Word + MaxPass
    BY DEF TimerInv, TimerTypes
<1>4. beat_age - lag < HEARTBEAT_INTERVAL_MS
    BY <1>1 DEF TimerInv, AgesAreBounded
<1>5. TimerTypes'
    <2>1. /\ now' \in Readings /\ last_tcp_tmr' \in Readings
          /\ lag' \in 0 .. MaxPass /\ tmr_age' \in Nat
        BY <1>1, <1>3
    <2> QED
        BY <1>1, <1>2, <2>1 DEF TimerInv, TimerTypes
<1>6. AgesAreGaps'
    <2>1. Gap(g_tick_ms, g_tick_ms) = 0
        BY <1>3 DEF Gap, Readings
    <2> HIDE DEF due
    <2>2. Gap(g_tick_ms', last_tcp_tmr') = tmr_age'
        BY <1>1, <1>2, <2>1 DEF TimerInv, AgesAreGaps
    <2>3. Gap(g_tick_ms', now') = lag'
        BY <1>1, <1>2, <2>1
    <2>4. /\ Gap(g_tick_ms', last_heartbeat') = beat_age'
          /\ quiet' < Word => Gap(g_tick_ms', last_proto_activity') = quiet'
        BY <1>2 DEF TimerInv, AgesAreGaps
    <2> QED
        BY <2>2, <2>3, <2>4 DEF AgesAreGaps, Gap
<1>7. AgesAreBounded'
    BY <1>1, <1>2, <1>3, <1>4 DEF AgesAreBounded
<1>8. TimeoutMeansSilence'
    BY <1>1 DEF TimeoutMeansSilence
<1> QED
    BY <1>5, <1>6, <1>7, <1>8 DEF TimerInv

\* A command stamps the present reading, which may be younger than now.
LEMMA ServeKeepsTimers == TimerInv /\ ServeCommand => TimerInv'
<1> SUFFICES ASSUME TimerInv, ServeCommand PROVE TimerInv'
    OBVIOUS
<1> USE TimerAssumption
<1>1. /\ phase = "commands" /\ phase' = "commands" /\ served' = TRUE
      /\ last_proto_activity' = g_tick_ms /\ quiet' = 0
      /\ UNCHANGED <<g_tick_ms, last_tcp_tmr, last_heartbeat, tmr_age, beat_age, now, lag, warned>>
    BY DEF ServeCommand, Go
<1>2. g_tick_ms \in Readings /\ Gap(g_tick_ms, g_tick_ms) = 0 /\ quiet' \in 0 .. Word + MaxPass
    BY <1>1 DEF TimerInv, TimerTypes, Gap, Readings
<1>3. TimerTypes'
    BY <1>1, <1>2 DEF TimerInv, TimerTypes
<1>4. AgesAreGaps'
    BY <1>1, <1>2 DEF TimerInv, AgesAreGaps, Gap
<1>5. AgesAreBounded' /\ TimeoutMeansSilence'
    BY <1>1 DEF TimerInv, AgesAreBounded, TimeoutMeansSilence
<1> QED
    BY <1>3, <1>4, <1>5 DEF TimerInv

\* What the heartbeat finds in a pass.
LEMMA BeatFindsTimer ==
    ASSUME TimerInv
    PROVE  /\ Elapsed(now, last_heartbeat) = beat_age - lag
           /\ beat_age - lag < HEARTBEAT_INTERVAL_MS + MaxPass
<1> USE TimerAssumption
<1>1. /\ lag \in Nat /\ beat_age \in Nat /\ lag <= beat_age
      /\ Gap(g_tick_ms, now) = lag /\ Gap(g_tick_ms, last_heartbeat) = beat_age
      /\ g_tick_ms \in Readings /\ now \in Readings /\ last_heartbeat \in Readings
    BY DEF TimerInv, TimerTypes, AgesAreGaps, AgesAreBounded
<1>2. Elapsed(now, last_heartbeat) = beat_age - lag
    BY <1>1, GapAtReading
<1> QED
    BY <1>2 DEF TimerInv, AgesAreBounded

\* The heartbeat starts again if it is due by the reading of this pass.
LEMMA HeartbeatKeepsTimers == TimerInv /\ HeartbeatSend => TimerInv'
<1> SUFFICES ASSUME TimerInv, HeartbeatSend PROVE TimerInv'
    OBVIOUS
<1> USE TimerAssumption
<1> DEFINE due == beat_age - lag >= HEARTBEAT_INTERVAL_MS
<1>1. /\ phase' = "watchdog"
      /\ last_heartbeat' = IF due THEN now ELSE last_heartbeat
      /\ beat_age' = IF due THEN lag ELSE beat_age
    BY BeatFindsTimer DEF HeartbeatSend, Go
<1>2. /\ UNCHANGED <<g_tick_ms, last_tcp_tmr, last_proto_activity, tmr_age, quiet>>
      /\ UNCHANGED <<now, lag, served, warned>>
    BY DEF HeartbeatSend, pass
<1>3. /\ now \in Readings /\ last_heartbeat \in Readings
      /\ lag \in 0 .. MaxPass /\ beat_age \in Nat
    BY DEF TimerInv, TimerTypes
<1>4. last_heartbeat' \in Readings /\ beat_age' \in Nat
    BY <1>1, <1>3
<1>5. TimerTypes'
    BY <1>2, <1>4 DEF TimerInv, TimerTypes
<1>6. /\ lag' <= beat_age' /\ beat_age' - lag' < HEARTBEAT_INTERVAL_MS
      /\ beat_age' - lag' < HEARTBEAT_INTERVAL_MS + MaxPass
    BY <1>1, <1>2, <1>3 DEF TimerInv, AgesAreBounded
<1> HIDE DEF due
<1>7. AgesAreGaps'
    <2>1. Gap(g_tick_ms', last_heartbeat') = beat_age'
        BY <1>1, <1>2 DEF TimerInv, AgesAreGaps
    <2> QED
        BY <1>2, <2>1 DEF TimerInv, AgesAreGaps, Gap
<1>8. AgesAreBounded'
    BY <1>2, <1>6 DEF TimerInv, AgesAreBounded
<1>9. TimeoutMeansSilence'
    BY <1>1 DEF TimeoutMeansSilence
<1> QED
    BY <1>5, <1>7, <1>8, <1>9 DEF TimerInv

\* The watchdog starts the silence again if it reports it, and ends the pass.
LEMMA WatchdogKeepsTimers == TimerInv /\ SwWdtCheck => TimerInv'
<1> SUFFICES ASSUME TimerInv, SwWdtCheck PROVE TimerInv'
    OBVIOUS
<1> USE TimerAssumption
<1>1. /\ phase = "watchdog" /\ phase' = "top"
      /\ warned' = (Elapsed(now, last_proto_activity) > ProtoTimeout)
      /\ UNCHANGED <<g_tick_ms, last_tcp_tmr, last_heartbeat, last_proto_activity>>
      /\ UNCHANGED <<tmr_age, beat_age, quiet, now, lag, served>>
    BY DEF SwWdtCheck, Go, stamps, ages
<1>2. warned' \in BOOLEAN
    BY <1>1
<1>3. TimerTypes'
    BY <1>1, <1>2 DEF TimerInv, TimerTypes
<1>4. AgesAreGaps'
    BY <1>1 DEF TimerInv, AgesAreGaps, Gap
<1>5. AgesAreBounded'
    BY <1>1 DEF TimerInv, AgesAreBounded
<1>6. /\ lag \in 0 .. MaxPass /\ quiet \in Nat
      /\ Gap(g_tick_ms, now) = lag
      /\ quiet < Word => Gap(g_tick_ms, last_proto_activity) = quiet
      /\ g_tick_ms \in Readings /\ now \in Readings /\ last_proto_activity \in Readings
    BY DEF TimerInv, TimerTypes, AgesAreGaps
<1> DEFINE late == Elapsed(now, last_proto_activity) > ProtoTimeout
<1>7. ASSUME ~served
      PROVE  /\ late => quiet - lag > ProtoTimeout
             /\ quiet - lag > ProtoTimeout /\ quiet < Word => late
    <2>1. lag <= quiet
        BY <1>7 DEF TimerInv, AgesAreBounded
    <2>2. CASE quiet < Word
        <3>1. Elapsed(now, last_proto_activity) = quiet - lag
            BY <1>6, <2>1, <2>2, GapAtReading
        <3> QED
            BY <3>1
    <2>3. CASE ~(quiet < Word)
        <3>1. quiet - lag > ProtoTimeout
            BY <1>6, <2>3
        <3> QED
            BY <2>3, <3>1
    <2> QED
        BY <2>2, <2>3
<1> HIDE DEF late
<1>8. TimeoutMeansSilence'
    <2>1. warned' <=> late
        BY <1>1 DEF late
    <2>2. served' = served /\ quiet' = quiet /\ lag' = lag
        BY <1>1
    <2> DEFINE silent == quiet - lag > ProtoTimeout
               recent == quiet < Word
    <2>3. (quiet' - lag' > ProtoTimeout <=> silent) /\ (quiet' < Word <=> recent)
        BY <2>2
    <2>4. ~served => (late => silent) /\ (silent /\ recent => late)
        BY <1>7
    <2> HIDE DEF silent, recent
    <2> QED
        BY <2>1, <2>2, <2>3, <2>4, Zenon DEF TimeoutMeansSilence
<1> QED
    BY <1>3, <1>4, <1>5, <1>8 DEF TimerInv

\* Steps that only move from one phase to another.
LEMMA ElsewhereKeepsTimers ==
    ASSUME TimerInv,
           UNCHANGED <<g_tick_ms, now, stamps, ages, lag, served, warned>>,
           phase' = phase \/ phase' \notin {"watchdog", "top"}
    PROVE  TimerInv'
<1>1. TimerTypes'
    BY DEF TimerInv, TimerTypes, stamps, ages
<1>2. AgesAreGaps'
    BY DEF TimerInv, AgesAreGaps, Gap, stamps, ages
<1>3. AgesAreBounded' /\ TimeoutMeansSilence'
    BY DEF TimerInv, AgesAreBounded, TimeoutMeansSilence, stamps, ages
<1> QED
    BY <1>1, <1>2, <1>3 DEF TimerInv

\* The inductive step, action by action; what is not of the timers leaves them alone.
LEMMA LoopKeepsTimers == TimerInv /\ [Next]_vars => TimerInv'
<1> SUFFICES ASSUME TimerInv, [Next]_vars PROVE TimerInv'
    OBVIOUS
<1>1. CASE TtcIsr
    BY <1>1, TickKeepsTimers
<1>2. CASE ReadClock
    BY <1>2, ReadClockKeepsTimers
<1>3. CASE ServeCommand
    BY <1>3, ServeKeepsTimers
<1>4. CASE HeartbeatSend
    BY <1>4, HeartbeatKeepsTimers
<1>5. CASE SwWdtCheck
    BY <1>5, WatchdogKeepsTimers
<1>6. CASE TcpServerProcess \/ CommandsDone \/ UNCHANGED vars
    <2>1. /\ UNCHANGED <<g_tick_ms, now, stamps, ages, lag, served, warned>>
          /\ phase' = phase \/ phase' \notin {"watchdog", "top"}
        BY <1>6 DEF TcpServerProcess, CommandsDone, Go, vars, timers, pass
    <2> QED
        BY <2>1, ElsewhereKeepsTimers
<1>7. CASE RingStep /\ UNCHANGED timers
    <2>1. phase' = phase \/ phase' \notin {"watchdog", "top"}
        BY <1>7 DEF RingStep, Complete, IsrFlag, IsrAck, DmaProcess, DmaTest, DmaClear, DmaCollect,
                    TriggerCheck, CopyDone, Go
    <2> QED
        BY <1>7, <2>1, ElsewhereKeepsTimers DEF timers, pass
<1> QED
    BY <1>1, <1>2, <1>3, <1>4, <1>5, <1>6, <1>7 DEF Next

\* The inductive invariant of the timers.
LEMMA TimersHold == Spec => []TimerInv
BY TimersStart, LoopKeepsTimers, PTL DEF Spec

\* Whatever the width of the counter, a time-out report in a pass without
\* commands is genuine, and genuine silence is reported (sw_wdt_check).
THEOREM ReportsAreGenuine == Spec => []TimeoutMeansSilence
<1>1. TimerInv => TimeoutMeansSilence
    BY DEF TimerInv
<1> QED
    BY <1>1, TimersHold, PTL

\* lwIP's timer and the heartbeat keep their periods, less than a pass late, over
\* any number of turns of the counter (main, heartbeat_send).
THEOREM PeriodsKept == Spec => TimersKeepPeriod
<1> USE TimerAssumption
<1> DEFINE Beat == beat_age' < beat_age =>
               beat_age - lag \in HEARTBEAT_INTERVAL_MS .. HEARTBEAT_INTERVAL_MS + MaxPass - 1
           Tmr == tmr_age' < tmr_age =>
               tmr_age \in TCP_TMR_INTERVAL_MS .. TCP_TMR_INTERVAL_MS + MaxPass - 1
<1>1. ASSUME TimerInv, [Next]_vars PROVE Beat /\ Tmr
    <2>0. lag \in 0 .. MaxPass /\ tmr_age \in Nat /\ beat_age \in Nat
        BY <1>1 DEF TimerInv, TimerTypes
    <2>1. CASE HeartbeatSend
        <3>1. beat_age' = IF beat_age - lag >= HEARTBEAT_INTERVAL_MS THEN lag ELSE beat_age
            BY <1>1, <2>1, BeatFindsTimer DEF HeartbeatSend
        <3>2. tmr_age' = tmr_age /\ beat_age - lag < HEARTBEAT_INTERVAL_MS + MaxPass
            BY <1>1, <2>1, BeatFindsTimer DEF HeartbeatSend
        <3> QED
            BY <2>0, <3>1, <3>2
    <2>2. CASE ReadClock
        <3>1. tmr_age' = IF tmr_age >= TCP_TMR_INTERVAL_MS THEN 0 ELSE tmr_age
            BY <1>1, <2>2, ReadingFindsTimer DEF ReadClock
        <3>2. beat_age' = beat_age /\ tmr_age < TCP_TMR_INTERVAL_MS + MaxPass
            BY <1>1, <2>2, ReadingFindsTimer DEF ReadClock
        <3> QED
            BY <2>0, <3>1, <3>2
    <2>3. CASE TtcIsr
        <3>1. beat_age' = beat_age + 1 /\ tmr_age' = tmr_age + 1
            BY <2>3 DEF TtcIsr
        <3> QED
            BY <2>0, <3>1
    <2>4. CASE \/ ServeCommand \/ TcpServerProcess \/ CommandsDone \/ SwWdtCheck
               \/ UNCHANGED timers \/ UNCHANGED vars
        <3>1. beat_age' = beat_age /\ tmr_age' = tmr_age
            BY <2>4 DEF ServeCommand, TcpServerProcess, CommandsDone, SwWdtCheck, vars, timers, ages
        <3> QED
            BY <2>0, <3>1
    <2> QED
        BY <1>1, <2>1, <2>2, <2>3, <2>4 DEF Next
<1>2. TimerInv /\ [Next]_vars => [Beat /\ Tmr]_vars
    BY <1>1
<1> QED
    BY <1>2, TimersHold, PTL DEF Spec, TimersKeepPeriod
====
