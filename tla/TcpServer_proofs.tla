---- MODULE TcpServer_proofs ----
(***************************************************************************)
(* The safety of the TCP server for any number of connections, any ring    *)
(* length and any heap: types, ownership of payloads, the client pcb and   *)
(* the transmit latch.  The inductive invariant is the conjunction of the  *)
(* four: the latch's witness needs the client to be a live pcb, and every  *)
(* one needs the types.  On it rest the order in which frames are written  *)
(* (OrderInv) and the refinement of CommandFifo by the receive ring.       *)
(***************************************************************************)
EXTENDS TcpServer, SequenceTheorems, TLAPS

USE QueueLenAssumption, BoundsAssumption, NullAssumption

-----------------------------------------------------------------------------
(* The ring: indices stay in range, a push adds the slot at the head and a  *)
(* pop releases the slot at the tail, and no other slot changes hands.      *)

\* The next index of a ring is an index of the ring.
LEMMA SuccType == \A i \in Slots : Succ(i) \in Slots
  BY DEF Slots, Succ

\* Advancing the head of a ring that is not full occupies one free slot.
LEMMA OccupiedPush ==
    ASSUME NEW h \in Slots, NEW t \in Slots, Succ(h) # t
    PROVE  /\ Occupied(Succ(h), t) = Occupied(h, t) \cup {h}
           /\ h \notin Occupied(h, t)
  <1>1. CASE h = QueueLen - 1
    BY <1>1 DEF Slots, Succ, Occupied
  <1>2. CASE h # QueueLen - 1
    BY <1>2 DEF Slots, Succ, Occupied
  <1>3. QED BY <1>1, <1>2

\* Advancing the tail of a ring that is not empty frees the oldest slot.
LEMMA OccupiedPop ==
    ASSUME NEW h \in Slots, NEW t \in Slots, h # t
    PROVE  /\ Occupied(h, Succ(t)) = Occupied(h, t) \ {t}
           /\ t \in Occupied(h, t)
  <1>1. CASE t = QueueLen - 1
    BY <1>1 DEF Slots, Succ, Occupied
  <1>2. CASE t # QueueLen - 1
    BY <1>2 DEF Slots, Succ, Occupied
  <1>3. QED BY <1>1, <1>2

-----------------------------------------------------------------------------
(* Transmission, common to every handler that may start a frame.            *)

TxTypes ==
    /\ tx_queue \in [Slots -> Nat]
    /\ tx_head \in Slots /\ tx_tail \in Slots /\ tx_busy \in BOOLEAN
    /\ wire \in [queued : Nat, written : Nat, session : Nat]
    /\ unacked \in [Conns -> Nat]

\* tx_do_send keeps the types, takes back no outstanding frame, and leaves
\* tx_busy set only if it was or if it wrote a frame to the client.
LEMMA TxDoSendEffect ==
    ASSUME TxTypes, client_pcb \in Conns \cup {NULL}, conn_count \in Nat,
           NEW tail \in Slots, NEW busy \in BOOLEAN, NEW un \in [Conns -> Nat],
           tx_queue' \in [Slots -> Nat], tx_head' \in Slots, g_frame_out' \in Nat,
           TxDoSend(tail, busy, un)
    PROVE  /\ TxTypes'
           /\ \A c \in Conns : unacked'[c] >= un[c]
           /\ tx_busy' => busy \/ (client_pcb \in Conns /\ unacked'[client_pcb] > 0)
  <1>1. CASE /\ tx_tail' = tail /\ tx_busy' = busy
             /\ unacked' = un /\ UNCHANGED wire
    BY <1>1 DEF TxTypes
  <1>2. CASE /\ client_pcb # NULL /\ tx_tail' = tail /\ tx_busy' = TRUE
             /\ unacked' = [un EXCEPT ![client_pcb] = @ + 1]
             /\ wire' = [queued |-> tx_queue'[tail], written |-> g_frame_out',
                         session |-> conn_count]
    BY <1>2 DEF TxTypes
  <1>3. CASE /\ tx_tail' = Succ(tail) /\ tx_busy' = busy
             /\ unacked' = un /\ UNCHANGED wire
    BY <1>3, SuccType DEF TxTypes
  <1>4. QED BY <1>1, <1>2, <1>3 DEF TxDoSend

\* tcp_server_send keeps the types and has tx_do_send's effect.
LEMMA TcpServerSendEffect ==
    ASSUME TxTypes, client_pcb \in Conns \cup {NULL}, conn_count \in Nat,
           g_frame_out' \in Nat, TcpServerSend
    PROVE  /\ TxTypes'
           /\ \A c \in Conns : unacked'[c] >= unacked[c]
           /\ tx_busy' => tx_busy \/ (client_pcb \in Conns /\ unacked'[client_pcb] > 0)
  <1>1. CASE UNCHANGED <<tx, unacked>>
    BY <1>1 DEF tx, TxTypes
  <1>2. CASE /\ tx_queue' = [tx_queue EXCEPT ![tx_head] = g_frame_out']
             /\ tx_head' = Succ(tx_head)
             /\ TxDoSend(tx_tail, tx_busy, unacked)
    <2>1. tx_queue' \in [Slots -> Nat] /\ tx_head' \in Slots
      BY <1>2, SuccType DEF TxTypes
    <2> HIDE DEF TxTypes
    <2>2. QED
      BY <1>2, <2>1, TxDoSendEffect DEF TxTypes
  <1>3. QED BY <1>1, <1>2 DEF TcpServerSend

-----------------------------------------------------------------------------
(* The invariant                                                            *)

Inv == TypeOK /\ ClientIsLive /\ BusyHasWitness /\ HeapExact

\* The server starts with empty rings and no client (tcp_server_init).
THEOREM InitInv == Init => Inv
  <1> SUFFICES ASSUME Init PROVE Inv
    OBVIOUS
  <1>1. 0 \in Slots
    BY DEF Slots
  <1>2. TypeOK
    BY <1>1 DEF Init, TypeOK
  <1>3. Occupied(rx_head, rx_tail) = {}
    BY DEF Init, Occupied, Slots
  <1>4. HeapExact
    BY <1>3 DEF Init, HeapExact, Queued, Executing
  <1>5. ClientIsLive /\ BusyHasWitness
    BY DEF Init, ClientIsLive, BusyHasWitness
  <1>6. QED BY <1>2, <1>4, <1>5 DEF Inv

\* A step that leaves the receive ring, the heap and the command being
\* executed alone keeps the ownership of payloads.
LEMMA HeapFrame ==
    ASSUME HeapExact, UNCHANGED <<rx_queue, rx_head, rx_tail, heap, rx_frame>>,
           phase = "execute" <=> phase' = "execute"
    PROVE  HeapExact'
  BY DEF HeapExact, Queued, Executing, Occupied

\* A step that writes frames only to the client, and clears no outstanding
\* frame, keeps a witness for tx_busy.
LEMMA WitnessFrame ==
    ASSUME TypeOK, ClientIsLive, BusyHasWitness, UNCHANGED conn,
           unacked' \in [Conns -> Nat],
           \A c \in Conns : unacked'[c] >= unacked[c],
           tx_busy' => tx_busy \/ (client_pcb \in Conns /\ unacked'[client_pcb] > 0)
    PROVE  BusyHasWitness'
  <1>1. ASSUME NEW c \in Conns, Live(c), unacked[c] > 0
        PROVE  conn'[c] \in {"open", "closing"} /\ unacked'[c] > 0
    BY <1>1 DEF TypeOK, Live
  <1>2. client_pcb \in Conns => conn'[client_pcb] \in {"open", "closing"}
    BY DEF ClientIsLive
  <1>3. QED BY <1>1, <1>2 DEF BusyHasWitness, Live

\* tcp_server_process and tcp_poll_cb.
LEMMA KickKeepsInv ==
    ASSUME Inv, TxKick, UNCHANGED <<conn, session, rx, rx_frame, asyncs>>,
           phase' \in {phase, "commands"},
           phase = "execute" <=> phase' = "execute"
    PROVE  Inv'
  <1>1. /\ TxTypes'
        /\ \A c \in Conns : unacked'[c] >= unacked[c]
        /\ tx_busy' => tx_busy \/ (client_pcb \in Conns /\ unacked'[client_pcb] > 0)
    BY TxDoSendEffect DEF Inv, TypeOK, TxTypes, TxKick
  <1>2. TypeOK'
    BY <1>1 DEF Inv, TypeOK, TxTypes, TxKick, session, rx
  <1>3. HeapExact'
    BY HeapFrame DEF Inv, rx
  <1>4. ClientIsLive'
    BY DEF Inv, ClientIsLive, session
  <1>5. BusyHasWitness'
    BY <1>1, WitnessFrame DEF Inv, TxTypes
  <1>6. QED BY <1>2, <1>3, <1>4, <1>5 DEF Inv

\* heartbeat_send and trigger_check.
LEMMA AsyncKeepsInv ==
    ASSUME Inv, NEW from \in {"trigger", "heartbeat"},
           NEW to \in {"heartbeat", "process"}, AsyncFrame(from, to)
    PROVE  Inv'
  <1>1. /\ TxTypes' /\ g_frame_out' \in Nat /\ asyncs' \in Nat
        /\ \A c \in Conns : unacked'[c] >= unacked[c]
        /\ tx_busy' => tx_busy \/ (client_pcb \in Conns /\ unacked'[client_pcb] > 0)
    <2>1. CASE UNCHANGED <<tx, unacked, g_frame_out, asyncs>>
      BY <2>1 DEF Inv, TypeOK, TxTypes, tx
    <2>2. CASE g_frame_out' = g_frame_out + 1 /\ asyncs' = asyncs + 1 /\ TcpServerSend
      BY <2>2, TcpServerSendEffect DEF Inv, TypeOK, TxTypes
    <2>3. QED BY <2>1, <2>2 DEF AsyncFrame
  <1>2. TypeOK'
    BY <1>1 DEF Inv, TypeOK, TxTypes, AsyncFrame, session, rx
  <1>3. HeapExact'
    BY HeapFrame DEF Inv, AsyncFrame, rx
  <1>4. ClientIsLive'
    BY DEF Inv, ClientIsLive, AsyncFrame, session
  <1>5. BusyHasWitness'
    BY <1>1, WitnessFrame DEF Inv, TxTypes, AsyncFrame
  <1>6. QED BY <1>2, <1>3, <1>4, <1>5 DEF Inv

\* process_rx_commands' body: the payload being executed is freed.
LEMMA ExecuteKeepsInv ==
    ASSUME Inv, ProcessRxCommand
    PROVE  Inv'
  <1>1. /\ TxTypes' /\ g_frame_out' \in Nat
        /\ \A c \in Conns : unacked'[c] >= unacked[c]
        /\ tx_busy' => tx_busy \/ (client_pcb \in Conns /\ unacked'[client_pcb] > 0)
    BY TcpServerSendEffect DEF Inv, TypeOK, TxTypes, ProcessRxCommand
  <1>2. TypeOK'
    BY <1>1 DEF Inv, TypeOK, TxTypes, ProcessRxCommand, session
  <1>3. HeapExact'
    BY DEF Inv, HeapExact, Queued, Executing, Occupied, ProcessRxCommand
  <1>4. ClientIsLive'
    BY DEF Inv, ClientIsLive, ProcessRxCommand, session
  <1>5. BusyHasWitness'
    BY <1>1, WitnessFrame DEF Inv, TxTypes, ProcessRxCommand
  <1>6. QED BY <1>2, <1>3, <1>4, <1>5 DEF Inv

\* tcp_server_dequeue_rx: the payload moves from its slot to the command.
LEMMA DequeueKeepsInv ==
    ASSUME Inv, TcpServerDequeueRx
    PROVE  Inv'
  <1>1. TypeOK'
    BY SuccType DEF Inv, TypeOK, TcpServerDequeueRx, lwip, session, tx
  <1>2. /\ Occupied(rx_head, rx_tail)' = Occupied(rx_head, rx_tail) \ {rx_tail}
        /\ rx_tail \in Occupied(rx_head, rx_tail)
    BY OccupiedPop DEF Inv, TypeOK, TcpServerDequeueRx, Occupied
  <1>3. HeapExact'
    BY <1>2 DEF Inv, HeapExact, Queued, Executing, TcpServerDequeueRx
  <1>4. ClientIsLive' /\ BusyHasWitness'
    BY DEF Inv, ClientIsLive, BusyHasWitness, Live, TcpServerDequeueRx,
           lwip, session, tx
  <1>5. QED BY <1>1, <1>3, <1>4 DEF Inv

\* tcp_recv_cb: a payload that gets in is a fresh block in a free slot.
LEMMA RecvKeepsInv ==
    ASSUME Inv, NEW c \in Conns, TcpRecv(c)
    PROVE  Inv'
  <1>1. CASE UNCHANGED <<rx_queue, rx_head, heap>>
    <2>1. TypeOK'
      BY <1>1 DEF Inv, TypeOK, TcpRecv, lwip, session, tx, loop
    <2>2. HeapExact'
      BY <1>1, HeapFrame DEF Inv, TcpRecv, loop
    <2>3. QED
      BY <2>1, <2>2 DEF Inv, ClientIsLive, BusyHasWitness, Live, TcpRecv, lwip, session, tx
  <1>2. ASSUME Succ(rx_head) # rx_tail, NEW b \in Blocks \ heap,
               heap' = heap \cup {b},
               rx_queue' = [rx_queue EXCEPT
                               ![rx_head] = [cmd |-> received + 1, data |-> b]],
               rx_head' = Succ(rx_head)
        PROVE  Inv'
    <2>1. TypeOK'
      BY <1>2, SuccType DEF Inv, TypeOK, TcpRecv, lwip, session, tx, loop
    <2>2. /\ Occupied(rx_head, rx_tail)' = Occupied(rx_head, rx_tail) \cup {rx_head}
          /\ rx_head \notin Occupied(rx_head, rx_tail)
      BY <1>2, OccupiedPush DEF Inv, TypeOK, TcpRecv, Occupied
    <2>3. /\ rx_queue'[rx_head].data = b
          /\ \A i \in Occupied(rx_head, rx_tail) : rx_queue'[i] = rx_queue[i]
      BY <1>2, <2>2 DEF Inv, TypeOK, Occupied
    <2>4. Queued' = Queued \cup {b} /\ Executing' = Executing
      BY <2>2, <2>3 DEF Queued, Executing, TcpRecv, loop
    <2>5. HeapExact'
      BY <1>2, <2>2, <2>3, <2>4 DEF Inv, HeapExact, Queued
    <2>6. QED
      BY <2>1, <2>5 DEF Inv, ClientIsLive, BusyHasWitness, Live, TcpRecv, lwip, session, tx
  <1>3. QED BY <1>1, <1>2 DEF TcpRecv, RxQueuePush

\* tcp_sent_cb clears the latch before it may start another frame, so that the
\* frame it takes back is nobody's only witness.
LEMMA SentKeepsInv ==
    ASSUME Inv, NEW c \in Conns, TcpSent(c)
    PROVE  Inv'
  <1> DEFINE un == [unacked EXCEPT ![c] = @ - 1]
  <1>1. un \in [Conns -> Nat]
    BY DEF Inv, TypeOK, TcpSent
  <1>2. /\ TxTypes'
        /\ tx_busy' => client_pcb \in Conns /\ unacked'[client_pcb] > 0
    BY <1>1, SuccType, TxDoSendEffect DEF Inv, TypeOK, TxTypes, TcpSent, loop
  <1>3. TypeOK'
    BY <1>2 DEF Inv, TypeOK, TxTypes, TcpSent, session, rx, loop
  <1>4. HeapExact'
    BY HeapFrame DEF Inv, TcpSent, rx, loop
  <1>5. ClientIsLive'
    BY DEF Inv, ClientIsLive, TcpSent, session
  <1>6. BusyHasWitness'
    BY <1>2 DEF Inv, BusyHasWitness, ClientIsLive, Live, TcpSent, session
  <1>7. QED BY <1>3, <1>4, <1>5, <1>6 DEF Inv

\* Accepting, closing, losing and releasing a pcb leave the receive side
\* alone; only an error takes back outstanding frames, and it clears tx_busy.
LEMMA ConnectionKeepsInv ==
    ASSUME Inv, NEW c \in Conns,
           TcpAccept(c) \/ TcpFin(c) \/ TcpErr(c) \/ LwipRelease(c)
    PROVE  Inv'
  <1> USE DEF Inv, session, rx, tx, loop
  <1>1. HeapExact'
    BY HeapFrame DEF TcpAccept, TcpFin, TcpErr, LwipRelease
  <1>2. CASE TcpAccept(c)
    <2>1. TypeOK' /\ ClientIsLive'
      <3>1. CASE client_pcb = NULL
        <4>1. (\E d \in Conns : Live(d)) \in BOOLEAN
          OBVIOUS
        <4>2. overlapped' \in BOOLEAN
          BY <1>2, <3>1, <4>1 DEF TcpAccept, TypeOK
        <4>3. QED
          BY <1>2, <3>1, <4>2 DEF TcpAccept, TypeOK, ClientIsLive
      <3>2. CASE client_pcb # NULL
        BY <1>2, <3>2 DEF TcpAccept, TypeOK, ClientIsLive
      <3>3. QED BY <3>1, <3>2
    <2>2. BusyHasWitness'
      BY <1>2 DEF TcpAccept, TypeOK, BusyHasWitness, Live
    <2>3. QED BY <1>1, <2>1, <2>2
  <1>3. CASE TcpFin(c)
    BY <1>1, <1>3 DEF TcpFin, TypeOK, ClientIsLive, BusyHasWitness, Live
  <1>4. CASE TcpErr(c)
    BY <1>1, <1>4 DEF TcpErr, TypeOK, ClientIsLive, BusyHasWitness, Live
  <1>5. CASE LwipRelease(c)
    <2>1. client_pcb # c
      BY <1>5 DEF LwipRelease, ClientIsLive
    <2>2. QED
      BY <1>1, <1>5, <2>1 DEF LwipRelease, TypeOK, ClientIsLive, BusyHasWitness, Live
  <1>6. QED BY <1>2, <1>3, <1>4, <1>5

\* Each callback and each phase of the main loop keeps the invariant.
THEOREM NextInv == Inv /\ [Next]_vars => Inv'
  <1> SUFFICES ASSUME Inv, [Next]_vars PROVE Inv'
    OBVIOUS
  <1>1. CASE TcpServerProcess
    BY <1>1, KickKeepsInv DEF TcpServerProcess
  <1>2. CASE TcpServerDequeueRx
    BY <1>2, DequeueKeepsInv
  <1>3. CASE RxDrained
    <2>1. HeapExact'
      BY <1>3, HeapFrame DEF RxDrained, Inv, rx
    <2>2. QED
      BY <1>3, <2>1 DEF RxDrained, Inv, TypeOK, ClientIsLive, BusyHasWitness, Live,
                        lwip, session, rx, tx
  <1>4. CASE ProcessRxCommand
    BY <1>4, ExecuteKeepsInv
  <1>5. CASE TriggerCheck
    BY <1>5, AsyncKeepsInv DEF TriggerCheck
  <1>6. CASE HeartbeatSend
    BY <1>6, AsyncKeepsInv DEF HeartbeatSend
  <1>7. ASSUME NEW c \in Conns, Lwip(c) PROVE Inv'
    <2>1. CASE TcpRecv(c)
      BY <2>1, RecvKeepsInv
    <2>2. CASE TcpSent(c)
      BY <2>2, SentKeepsInv
    <2>3. CASE TcpPoll(c)
      BY <2>3, KickKeepsInv DEF TcpPoll
    <2>4. QED
      BY <1>7, <2>1, <2>2, <2>3, ConnectionKeepsInv DEF Lwip
  <1>8. CASE UNCHANGED vars
    <2>1. HeapExact'
      BY <1>8, HeapFrame DEF Inv, vars, rx, loop
    <2>2. QED
      BY <1>8, <2>1 DEF Inv, TypeOK, ClientIsLive, BusyHasWitness, Live,
                        vars, lwip, session, rx, tx, loop
  <1>9. QED
    BY <1>1, <1>2, <1>3, <1>4, <1>5, <1>6, <1>7, <1>8 DEF Next, MainLoop

\* So it holds in every reachable state.
THEOREM InvHolds == Spec => []Inv
  <1>1. Init /\ [][Next]_vars => []Inv
    BY InitInv, NextInv, PTL
  <1>2. QED BY <1>1, PTL DEF Spec

\* What the invariant gives a reader.
THEOREM TypeCorrect == Spec => []TypeOK
  <1>1. Inv => TypeOK
    BY DEF Inv
  <1>2. QED BY <1>1, InvHolds, PTL

\* Payload ownership: tcp_recv_cb, tcp_server_dequeue_rx and
\* process_rx_commands neither leak nor share nor reuse a freed payload.
THEOREM PayloadsOwned == Spec => []HeapExact
  <1>1. Inv => HeapExact
    BY DEF Inv
  <1>2. QED BY <1>1, InvHolds, PTL

\* The client pcb is never one that lwIP has closed or freed.
THEOREM ClientNeverDangles == Spec => []ClientIsLive
  <1>1. Inv => ClientIsLive
    BY DEF Inv
  <1>2. QED BY <1>1, InvHolds, PTL

\* The transmit latch always has a pcb that will clear it.
THEOREM LatchHasWitness == Spec => []BusyHasWitness
  <1>1. Inv => BusyHasWitness
    BY DEF Inv
  <1>2. QED BY <1>1, InvHolds, PTL

-----------------------------------------------------------------------------
(* The order of frames.                                                     *)

\* How many entries leave the ring before the one in slot i.
Turn(i, tail) == IF i >= tail THEN i - tail ELSE i + QueueLen - tail

\* The ring holds frames in the order they were built, none from the future.
Ascending(queue, head, tail, built) ==
    /\ \A i \in Occupied(head, tail) : queue[i] <= built
    /\ \A i, j \in Occupied(head, tail) :
          Turn(i, tail) < Turn(j, tail) => queue[i] < queue[j]

\* While a frame is being sent it is the one at the tail; otherwise the tail
\* holds a later one, or the same one left over from an earlier client.
TailFollows(queue, head, tail, busy, client) ==
    /\ busy => head # tail /\ queue[tail] = wire.queued
    /\ ~busy /\ head # tail =>
          \/ queue[tail] > wire.queued
          \/ queue[tail] = wire.queued /\ (wire.session < conn_count \/ client = NULL)

\* No frame is outstanding but the one that is being sent.
OneOutstanding(un, busy) ==
    \A c \in Conns : /\ Live(c) /\ un[c] > 0 => busy /\ un[c] = 1
                     /\ conn[c] = "free" => un[c] = 0

OneLive == \A c, d \in Conns : Live(c) /\ Live(d) => c = d

WirePast == wire.queued <= g_frame_out /\ wire.session <= conn_count

InOrder ==
    /\ OneLive /\ WirePast
    /\ OneOutstanding(unacked, tx_busy)
    /\ Ascending(tx_queue, tx_head, tx_tail, g_frame_out)
    /\ TailFollows(tx_queue, tx_head, tx_tail, tx_busy, client_pcb)

OrderInv == overlapped \/ InOrder

\* What a step may do to the wire.
WireStep ==
    wire' # wire => \/ wire'.queued > wire.queued
                    \/ wire'.queued = wire.queued /\ wire'.session > wire.session

\* The entry pushed is the last to leave.
LEMMA TurnPush ==
    ASSUME NEW h \in Slots, NEW t \in Slots, Succ(h) # t, NEW i \in Occupied(h, t)
    PROVE  Turn(i, t) < Turn(h, t) /\ i \in Slots /\ i # h
  BY DEF Slots, Succ, Occupied, Turn

\* When the oldest entry leaves, the others keep their order, and the next
\* is behind the one that left.
LEMMA TurnPop ==
    ASSUME NEW h \in Slots, NEW t \in Slots, h # t
    PROVE  /\ \A i, j \in Occupied(h, Succ(t)) :
                 /\ i \in Occupied(h, t)
                 /\ Turn(i, Succ(t)) < Turn(j, Succ(t)) => Turn(i, t) < Turn(j, t)
           /\ h # Succ(t) => /\ Succ(t) \in Occupied(h, t) /\ t \in Occupied(h, t)
                             /\ Turn(t, t) < Turn(Succ(t), t)
  <1>1. CASE t = QueueLen - 1
    BY <1>1 DEF Slots, Succ, Occupied, Turn
  <1>2. CASE t # QueueLen - 1
    BY <1>2 DEF Slots, Succ, Occupied, Turn
  <1>3. QED BY <1>1, <1>2

\* A frame just built may be pushed.
LEMMA PushAscends ==
    ASSUME NEW queue \in [Slots -> Nat], NEW h \in Slots, NEW t \in Slots, Succ(h) # t,
           NEW built \in Nat, Ascending(queue, h, t, built)
    PROVE  Ascending([queue EXCEPT ![h] = built + 1], Succ(h), t, built + 1)
  <1> DEFINE q == [queue EXCEPT ![h] = built + 1]
  <1>1. Occupied(Succ(h), t) = Occupied(h, t) \cup {h}
    BY OccupiedPush
  <1>2. q[h] = built + 1 /\ \A i \in Occupied(h, t) : q[i] = queue[i] /\ q[i] \in Nat
    BY TurnPush
  <1>3. \A i \in Occupied(h, t) : q[i] < built + 1
    BY <1>2 DEF Ascending
  <1>4. \A i \in Occupied(h, t) : ~(Turn(h, t) < Turn(i, t))
    <2>1. \A i \in Slots : Turn(i, t) \in Nat
      BY DEF Turn, Slots
    <2>2. QED BY <2>1, TurnPush
  <1>5. ~(Turn(h, t) < Turn(h, t))
    BY DEF Turn, Slots
  <1> HIDE DEF q
  <1>6. Ascending(q, Succ(h), t, built + 1)
    BY <1>1, <1>2, <1>3, <1>4, <1>5 DEF Ascending
  <1>7. QED BY <1>6 DEF q

\* Frames that leave the ring leave it in order.
LEMMA PopAscends ==
    ASSUME NEW queue \in [Slots -> Nat], NEW h \in Slots, NEW t \in Slots, h # t,
           NEW built \in Nat, Ascending(queue, h, t, built)
    PROVE  /\ Ascending(queue, h, Succ(t), built)
           /\ h # Succ(t) => queue[t] < queue[Succ(t)]
  BY TurnPop DEF Ascending

\* tx_do_send on a ring in order writes the frame that is due.
LEMMA TxDoSendOrders ==
    ASSUME Inv, WirePast, OneLive, UNCHANGED <<conn, session>>,
           NEW tail \in Slots, NEW busy \in BOOLEAN, NEW un \in [Conns -> Nat],
           tx_queue' \in [Slots -> Nat], tx_head' \in Slots,
           g_frame_out' \in Nat, g_frame_out' >= g_frame_out,
           OneOutstanding(un, busy),
           Ascending(tx_queue', tx_head', tail, g_frame_out'),
           TailFollows(tx_queue', tx_head', tail, busy, client_pcb),
           TxDoSend(tail, busy, un)
    PROVE  InOrder' /\ WireStep
  <1> USE DEF Inv, TypeOK, session
  <1>1. OneLive'
    BY DEF OneLive, Live
  <1>2. CASE tx_tail' = tail /\ tx_busy' = busy /\ unacked' = un /\ UNCHANGED wire
    BY <1>1, <1>2 DEF InOrder, WirePast, OneOutstanding, TailFollows, Ascending, Live,
       WireStep, Occupied, Turn
  <1>3. CASE /\ ~busy /\ client_pcb # NULL /\ tx_head' # tail
             /\ tx_tail' = tail /\ tx_busy' = TRUE
             /\ unacked' = [un EXCEPT ![client_pcb] = @ + 1]
             /\ wire' = [queued |-> tx_queue'[tail], written |-> g_frame_out',
                         session |-> conn_count]
    <2>1. client_pcb \in Conns /\ conn[client_pcb] = "open" /\ un[client_pcb] = 0
      BY <1>3 DEF ClientIsLive, OneOutstanding, Live
    <2>2. OneOutstanding(unacked, tx_busy)'
      BY <1>3, <2>1 DEF OneOutstanding, Live
    <2>3. tail \in Occupied(tx_head, tail)'
      BY <1>3 DEF Occupied, Slots
    <2>4. WirePast'
      BY <1>3, <2>3 DEF WirePast, Ascending
    <2>5. Ascending(tx_queue, tx_head, tx_tail, g_frame_out)'
      BY <1>3 DEF Ascending, Occupied, Turn
    <2>6. TailFollows(tx_queue, tx_head, tx_tail, tx_busy, client_pcb)'
      BY <1>3 DEF TailFollows
    <2>7. WireStep
      BY <1>3 DEF WireStep, TailFollows
    <2>8. QED BY <1>1, <2>2, <2>4, <2>5, <2>6, <2>7 DEF InOrder
  <1>4. CASE /\ ~busy /\ tx_head' # tail
             /\ tx_tail' = Succ(tail) /\ tx_busy' = busy
             /\ unacked' = un /\ UNCHANGED wire
    <2>1. /\ Ascending(tx_queue', tx_head', tx_tail', g_frame_out')
          /\ tx_head' # tx_tail' => tx_queue'[tail] < tx_queue'[tx_tail']
      BY <1>4, PopAscends
    <2>2. tx_tail' \in Slots
      BY <1>4, SuccType
    <2>3. Ascending(tx_queue, tx_head, tx_tail, g_frame_out)'
      BY <2>1 DEF Ascending, Occupied, Turn
    <2>4. TailFollows(tx_queue, tx_head, tx_tail, tx_busy, client_pcb)'
      BY <1>4, <2>1, <2>2 DEF TailFollows
    <2>5. OneOutstanding(unacked, tx_busy)' /\ WirePast' /\ WireStep
      BY <1>4 DEF OneOutstanding, WirePast, Live, WireStep
    <2>6. QED BY <1>1, <2>3, <2>4, <2>5 DEF InOrder
  <1>5. QED BY <1>2, <1>3, <1>4 DEF TxDoSend

\* tcp_server_send of a frame just built.
LEMMA TcpServerSendOrders ==
    ASSUME Inv, InOrder, UNCHANGED <<conn, session>>,
           g_frame_out' = g_frame_out + 1, TcpServerSend
    PROVE  InOrder' /\ WireStep
  <1> USE DEF Inv, TypeOK, session
  <1>1. CASE UNCHANGED <<tx, unacked>>
    <2>1. Ascending(tx_queue, tx_head, tx_tail, g_frame_out)'
      BY <1>1 DEF InOrder, Ascending, tx, Occupied, Turn
    <2>2. QED
      BY <1>1, <2>1 DEF InOrder, OneLive, WirePast, OneOutstanding, TailFollows, Live,
         WireStep, tx
  <1>2. CASE /\ Succ(tx_head) # tx_tail
             /\ tx_queue' = [tx_queue EXCEPT ![tx_head] = g_frame_out']
             /\ tx_head' = Succ(tx_head)
             /\ TxDoSend(tx_tail, tx_busy, unacked)
    <2>1. tx_queue' \in [Slots -> Nat] /\ tx_head' \in Slots
      BY <1>2, SuccType
    <2>2. Ascending(tx_queue', tx_head', tx_tail, g_frame_out')
      BY <1>2, PushAscends DEF InOrder
    <2>3. TailFollows(tx_queue', tx_head', tx_tail, tx_busy, client_pcb)
      BY <1>2 DEF InOrder, TailFollows, WirePast
    <2>4. /\ WirePast /\ OneLive /\ OneOutstanding(unacked, tx_busy)
          /\ tx_tail \in Slots /\ tx_busy \in BOOLEAN /\ unacked \in [Conns -> Nat]
          /\ g_frame_out' \in Nat /\ g_frame_out' >= g_frame_out
      BY DEF InOrder
    <2> HIDE DEF Inv, TypeOK, session
    <2>5. QED
      BY <1>2, <2>1, <2>2, <2>3, <2>4, TxDoSendOrders
  <1>3. QED BY <1>1, <1>2 DEF TcpServerSend

\* tcp_server_process and tcp_poll_cb.
LEMMA KickOrders ==
    ASSUME Inv, InOrder, UNCHANGED <<conn, session>>, TxKick
    PROVE  InOrder' /\ WireStep
  BY TxDoSendOrders DEF Inv, TypeOK, InOrder, TxKick

\* tcp_sent_cb: the acknowledged frame is the one at the tail.
LEMMA SentOrders ==
    ASSUME Inv, InOrder, NEW c \in Conns, TcpSent(c)
    PROVE  InOrder' /\ WireStep
  <1> DEFINE un == [unacked EXCEPT ![c] = @ - 1]
  <1>1. /\ tx_busy /\ unacked[c] = 1 /\ tx_head # tx_tail
        /\ tx_queue[tx_tail] = wire.queued
    BY DEF TcpSent, InOrder, OneOutstanding, TailFollows
  <1>2. un \in [Conns -> Nat] /\ Succ(tx_tail) \in Slots
    BY <1>1, SuccType DEF Inv, TypeOK
  <1>3. OneOutstanding(un, FALSE)
    BY <1>1 DEF Inv, TypeOK, InOrder, OneOutstanding, OneLive, TcpSent
  <1>4. /\ Ascending(tx_queue, tx_head, Succ(tx_tail), g_frame_out)
        /\ tx_head # Succ(tx_tail) => tx_queue[tx_tail] < tx_queue[Succ(tx_tail)]
    BY <1>1, PopAscends DEF Inv, TypeOK, InOrder
  <1>5. TailFollows(tx_queue, tx_head, Succ(tx_tail), FALSE, client_pcb)
    BY <1>1, <1>2, <1>4 DEF TailFollows, Inv, TypeOK
  <1>6. /\ WirePast /\ OneLive /\ UNCHANGED <<conn, session>>
        /\ tx_queue' \in [Slots -> Nat] /\ tx_head' \in Slots
        /\ g_frame_out' \in Nat /\ g_frame_out' >= g_frame_out
    BY DEF Inv, TypeOK, InOrder, TcpSent, loop
  <1>7. /\ Ascending(tx_queue', tx_head', Succ(tx_tail), g_frame_out')
        /\ TailFollows(tx_queue', tx_head', Succ(tx_tail), FALSE, client_pcb)
        /\ TxDoSend(Succ(tx_tail), FALSE, un)
    BY <1>4, <1>5 DEF TcpSent, loop
  <1> HIDE DEF un
  <1>8. QED
    BY <1>2, <1>3, <1>6, <1>7, TxDoSendOrders

\* A step that leaves what is sent, and to whom, alone.
LEMMA FrameOrders ==
    ASSUME InOrder, UNCHANGED <<lwip, client_pcb, conn_count, tx, g_frame_out>>
    PROVE  InOrder' /\ WireStep
  BY DEF InOrder, OneLive, WirePast, OneOutstanding, Ascending, TailFollows, Live,
         Occupied, Turn, WireStep, lwip, tx

\* Accepting, closing, losing and releasing a pcb write nothing; a client that
\* is accepted finds nothing outstanding.
LEMMA ConnectionOrders ==
    ASSUME Inv, InOrder, ~overlapped', NEW c \in Conns,
           TcpAccept(c) \/ TcpFin(c) \/ TcpErr(c) \/ LwipRelease(c)
    PROVE  InOrder' /\ WireStep
  <1>1. UNCHANGED <<tx_queue, tx_head, tx_tail, wire, g_frame_out>>
    BY DEF TcpAccept, TcpFin, TcpErr, LwipRelease, tx, loop
  <1>2. Ascending(tx_queue, tx_head, tx_tail, g_frame_out)' /\ WireStep
    BY <1>1 DEF InOrder, Ascending, Occupied, Turn, WireStep
  <1> USE DEF Inv, TypeOK, InOrder, OneLive, WirePast, OneOutstanding, TailFollows, Live
  <1> HIDE DEF Ascending
  <1>3. CASE TcpAccept(c)
    <2>1. CASE client_pcb # NULL
      BY <1>1, <1>2, <1>3, <2>1 DEF TcpAccept, session, tx
    <2>2. CASE client_pcb = NULL
      <3>1. /\ \A d \in Conns : ~Live(d)
            /\ conn' = [conn EXCEPT ![c] = "open"] /\ conn[c] = "free"
            /\ client_pcb' = c /\ conn_count' = conn_count + 1
            /\ UNCHANGED <<unacked, tx_busy>>
        BY <1>3, <2>2 DEF TcpAccept, tx
      <3>2. ~tx_busy
        BY <3>1 DEF BusyHasWitness
      <3>3. TailFollows(tx_queue, tx_head, tx_tail, tx_busy, client_pcb)'
        BY <1>1, <3>1, <3>2
      <3>4. OneLive' /\ WirePast'
        BY <1>1, <3>1
      <3>5. OneOutstanding(unacked, tx_busy)'
        BY <3>1
      <3>6. QED BY <1>2, <3>3, <3>4, <3>5
    <2>3. QED BY <2>1, <2>2
  <1>4. CASE TcpFin(c)
    BY <1>1, <1>2, <1>4 DEF TcpFin, tx
  <1>5. CASE TcpErr(c)
    BY <1>1, <1>2, <1>5 DEF TcpErr
  <1>6. CASE LwipRelease(c)
    BY <1>1, <1>2, <1>6 DEF LwipRelease, session, tx
  <1>7. QED BY <1>3, <1>4, <1>5, <1>6

\* Every step keeps the order as long as no client overlapped another.
THEOREM NextOrders ==
    Inv /\ OrderInv /\ [Next]_vars => OrderInv' /\ (~overlapped' => WireStep)
  <1> SUFFICES ASSUME Inv, OrderInv, [Next]_vars, ~overlapped'
               PROVE  InOrder' /\ WireStep
    BY DEF OrderInv
  <1>1. ~overlapped
    BY DEF Next, MainLoop, Lwip, TcpServerProcess, TcpServerDequeueRx, RxDrained,
       ProcessRxCommand, TriggerCheck, HeartbeatSend, AsyncFrame, TcpAccept, TcpRecv,
       TcpFin, TcpSent, TcpErr, LwipRelease, TcpPoll, session, vars
  <1>2. InOrder
    BY <1>1 DEF OrderInv
  <1>3. CASE TcpServerProcess
    BY <1>2, <1>3, KickOrders DEF TcpServerProcess
  <1>4. CASE TcpServerDequeueRx \/ RxDrained
    BY <1>2, <1>4, FrameOrders DEF TcpServerDequeueRx, RxDrained, session
  <1>5. CASE ProcessRxCommand
    BY <1>2, <1>5, TcpServerSendOrders DEF ProcessRxCommand
  <1>6. CASE TriggerCheck \/ HeartbeatSend
    <2>1. CASE g_frame_out' = g_frame_out + 1 /\ TcpServerSend
      BY <1>2, <1>6, <2>1, TcpServerSendOrders DEF TriggerCheck, HeartbeatSend, AsyncFrame
    <2>2. CASE UNCHANGED <<tx, unacked, g_frame_out, asyncs>>
      BY <1>2, <1>6, <2>2, FrameOrders
         DEF TriggerCheck, HeartbeatSend, AsyncFrame, session, lwip
    <2>3. QED BY <1>6, <2>1, <2>2 DEF TriggerCheck, HeartbeatSend, AsyncFrame
  <1>7. ASSUME NEW c \in Conns, Lwip(c) PROVE InOrder' /\ WireStep
    <2>1. CASE TcpRecv(c)
      BY <1>2, <2>1, FrameOrders DEF TcpRecv, session, loop
    <2>2. CASE TcpSent(c)
      BY <1>2, <2>2, SentOrders
    <2>3. CASE TcpPoll(c)
      BY <1>2, <2>3, KickOrders DEF TcpPoll
    <2>4. QED
      BY <1>2, <1>7, <2>1, <2>2, <2>3, ConnectionOrders DEF Lwip
  <1>8. CASE UNCHANGED vars
    BY <1>2, <1>8, FrameOrders DEF vars, session, loop
  <1>9. QED
    BY <1>3, <1>4, <1>5, <1>6, <1>7, <1>8 DEF Next, MainLoop

\* tx_do_send writes frames in the order they were queued, and one frame twice
\* only to a later client, as long as no client was accepted beside a live pcb.
THEOREM FramesKeepOrder == Spec => FramesInOrder
  <1>1. ASSUME Init PROVE OrderInv
    <2>1. Occupied(tx_head, tx_tail) = {}
      BY <1>1 DEF Init, Occupied, Slots
    <2>2. Ascending(tx_queue, tx_head, tx_tail, g_frame_out)
      BY <2>1 DEF Ascending
    <2>3. OneLive /\ OneOutstanding(unacked, tx_busy)
      BY <1>1 DEF Init, OneLive, OneOutstanding, Live
    <2>4. QED
      BY <1>1, <2>2, <2>3 DEF Init, OrderInv, InOrder, WirePast, TailFollows
  <1>2. Inv /\ OrderInv /\ [Next]_vars =>
          (~overlapped' /\ wire' # wire =>
              \/ wire'.queued > wire.queued
              \/ wire'.queued = wire.queued /\ wire'.session > wire.session)
    BY NextOrders DEF WireStep
  <1>3. QED
    BY <1>1, <1>2, NextOrders, InvHolds, PTL DEF Spec, FramesInOrder

-----------------------------------------------------------------------------
(* The receive ring as a queue.                                             *)

\* Entries waiting, and the slot of the k-th.
Waiting(h, t) == (h + QueueLen - t) % QueueLen
At(t, k) == (t + k - 1) % QueueLen

\* One turn of a ring.
LEMMA ModTurn ==
    ASSUME NEW x \in Nat, x < 2 * QueueLen
    PROVE  x % QueueLen = IF x < QueueLen THEN x ELSE x - QueueLen
  OBVIOUS

\* Entries are counted across the end of the ring,
LEMMA WaitingIs ==
    ASSUME NEW h \in Slots, NEW t \in Slots
    PROVE  Waiting(h, t) = IF h >= t THEN h - t ELSE h - t + QueueLen
  <1>1. h + QueueLen - t \in Nat /\ h + QueueLen - t < 2 * QueueLen
    BY DEF Slots
  <1>2. QED BY <1>1, ModTurn DEF Slots, Waiting

\* and so are slots.
LEMMA AtIs ==
    ASSUME NEW t \in Slots, NEW k \in 1 .. QueueLen
    PROVE  At(t, k) = IF t + k - 1 < QueueLen THEN t + k - 1 ELSE t + k - 1 - QueueLen
  <1>1. t + k - 1 \in Nat /\ t + k - 1 < 2 * QueueLen
    BY DEF Slots
  <1>2. QED BY <1>1, ModTurn DEF Slots, At

\* The k-th entry is in an occupied slot, there is room for one less than
\* QueueLen, and the next one goes to the head.
LEMMA SlotsInOrder ==
    ASSUME NEW h \in Slots, NEW t \in Slots
    PROVE  /\ Waiting(h, t) \in 0 .. QueueLen - 1
           /\ \A k \in 1 .. Waiting(h, t) : At(t, k) \in Slots \ {h}
           /\ At(t, Waiting(h, t) + 1) = h
           /\ Waiting(h, t) = 0 <=> h = t
  <1> DEFINE w == Waiting(h, t)
  <1>1. w = IF h >= t THEN h - t ELSE h - t + QueueLen
    BY WaitingIs
  <1>2. w \in 0 .. QueueLen - 1 /\ (w = 0 <=> h = t)
    BY <1>1 DEF Slots
  <1> HIDE DEF w
  <1>3. ASSUME NEW k \in 1 .. w PROVE At(t, k) \in Slots \ {h}
    BY <1>1, <1>2, AtIs DEF Slots
  <1>4. At(t, w + 1) = h
    BY <1>1, <1>2, AtIs DEF Slots
  <1>5. QED BY <1>2, <1>3, <1>4 DEF w

\* A push appends, a pop takes the first.
LEMMA PushAndPop ==
    ASSUME NEW h \in Slots, NEW t \in Slots
    PROVE  /\ Succ(h) # t => Waiting(Succ(h), t) = Waiting(h, t) + 1
           /\ Succ(h) # t => Waiting(h, t) < QueueLen - 1
           /\ h # t => /\ At(t, 1) = t
                       /\ Waiting(h, Succ(t)) = Waiting(h, t) - 1
                       /\ \A k \in 1 .. Waiting(h, t) - 1 : At(Succ(t), k) = At(t, k + 1)
  <1>1. Succ(h) \in Slots /\ Succ(t) \in Slots
    BY SuccType
  <1>2. Succ(h) # t => Waiting(Succ(h), t) = Waiting(h, t) + 1 /\ Waiting(h, t) < QueueLen - 1
    BY <1>1, WaitingIs DEF Succ, Slots
  <1>3. ASSUME h # t
        PROVE  Waiting(h, Succ(t)) = Waiting(h, t) - 1 /\ At(t, 1) = t
    BY <1>1, <1>3, WaitingIs, AtIs DEF Succ, Slots
  <1>4. ASSUME h # t, NEW k \in 1 .. Waiting(h, t) - 1
        PROVE  At(Succ(t), k) = At(t, k + 1)
    <2>1. k \in 1 .. QueueLen /\ k + 1 \in 1 .. QueueLen
      BY WaitingIs DEF Slots
    <2>2. QED BY <1>1, <2>1, AtIs DEF Succ, Slots
  <1>5. QED BY <1>2, <1>3, <1>4

\* The commands waiting in a ring, oldest first.
CommandsOf(queue, h, t) ==
    LET entries == Contents(queue, h, t) IN [k \in DOMAIN entries |-> entries[k].cmd]

Pending == CommandsOf(rx_queue, rx_head, rx_tail)

\* They are a sequence, entry k from slot At(t, k).
LEMMA CommandsAre ==
    ASSUME NEW queue \in [Slots -> [cmd : Nat, data : Blocks \cup {NULL}]],
           NEW h \in Slots, NEW t \in Slots
    PROVE  /\ CommandsOf(queue, h, t) \in Seq(Nat)
           /\ Len(CommandsOf(queue, h, t)) = Waiting(h, t)
           /\ \A k \in 1 .. Waiting(h, t) : CommandsOf(queue, h, t)[k] = queue[At(t, k)].cmd
  <1> DEFINE n == Waiting(h, t)
             entries == [k \in 1 .. n |-> queue[At(t, k)]]
             cmds == CommandsOf(queue, h, t)
  <1>1. n \in Nat /\ \A k \in 1 .. n : At(t, k) \in Slots
    BY SlotsInOrder
  <1>2. \A k \in 1 .. n : queue[At(t, k)].cmd \in Nat
    BY <1>1
  <1>3. Contents(queue, h, t) = entries
    BY DEF Contents, Waiting, At
  <1>4. DOMAIN entries = 1 .. n /\ \A k \in 1 .. n : entries[k] = queue[At(t, k)]
    OBVIOUS
  <1> HIDE DEF n, entries
  <1>5. cmds = [k \in 1 .. n |-> queue[At(t, k)].cmd]
    BY <1>3, <1>4 DEF CommandsOf
  <1> HIDE DEF cmds
  <1>6. cmds \in [1 .. n -> Nat]
    BY <1>2, <1>5
  <1>7. cmds \in Seq(Nat) /\ Len(cmds) = n
    BY <1>1, <1>6
  <1>8. QED BY <1>5, <1>7 DEF n, cmds

\* rx_queue_push is the queue's Put, or drops the command.
LEMMA RecvPuts ==
    ASSUME Inv, Inv', NEW c \in Conns, TcpRecv(c)
    PROVE  \/ Len(Pending) < QueueLen - 1 /\ Pending' = Append(Pending, received + 1)
           \/ Pending' = Pending
  <1>1. CASE UNCHANGED <<rx_queue, rx_head>>
    BY <1>1 DEF TcpRecv, Pending
  <1>2. CASE /\ Succ(rx_head) # rx_tail /\ rx_head' = Succ(rx_head)
             /\ \E b \in Blocks : rx_queue' = [rx_queue EXCEPT
                                     ![rx_head] = [cmd |-> received + 1, data |-> b]]
    <2> DEFINE n == Waiting(rx_head, rx_tail)
    <2>1. rx_head \in Slots /\ rx_tail \in Slots /\ received \in Nat /\ rx_tail' = rx_tail
          /\ rx_queue \in [Slots -> [cmd : Nat, data : Blocks \cup {NULL}]]
      BY DEF Inv, TypeOK, TcpRecv
    <2>2. n \in Nat /\ n < QueueLen - 1 /\ Waiting(rx_head', rx_tail') = n + 1
          /\ At(rx_tail, n + 1) = rx_head /\ \A k \in 1 .. n : At(rx_tail, k) \in Slots \ {rx_head}
      BY <1>2, <2>1, SlotsInOrder, PushAndPop
    <2>3. /\ rx_queue'[rx_head].cmd = received + 1
          /\ \A k \in 1 .. n : rx_queue'[At(rx_tail, k)] = rx_queue[At(rx_tail, k)]
      BY <1>2, <2>1, <2>2
    <2>4. /\ Pending \in Seq(Nat) /\ Len(Pending) = n
          /\ \A k \in 1 .. n : Pending[k] = rx_queue[At(rx_tail, k)].cmd
      BY <2>1, CommandsAre DEF Pending
    <2>5. /\ Pending' \in Seq(Nat) /\ Len(Pending') = n + 1
          /\ \A k \in 1 .. n + 1 : Pending'[k] = rx_queue'[At(rx_tail, k)].cmd
      <3>1. rx_head' \in Slots /\ rx_queue' \in [Slots -> [cmd : Nat, data : Blocks \cup {NULL}]]
        BY DEF Inv, TypeOK
      <3>2. Pending' = CommandsOf(rx_queue', rx_head', rx_tail)
        BY <2>1 DEF Pending
      <3>3. Waiting(rx_head', rx_tail) = n + 1
        BY <2>1, <2>2
      <3>4. /\ Pending' \in Seq(Nat) /\ Len(Pending') = Waiting(rx_head', rx_tail)
            /\ \A k \in 1 .. Waiting(rx_head', rx_tail) :
                  Pending'[k] = rx_queue'[At(rx_tail, k)].cmd
        BY <2>1, <3>1, <3>2, CommandsAre, ZenonT(60)
      <3> HIDE DEF n
      <3>5. QED BY <3>3, <3>4
    <2> HIDE DEF n
    <2>6. /\ Append(Pending, received + 1) \in Seq(Nat)
          /\ Len(Append(Pending, received + 1)) = n + 1
          /\ Append(Pending, received + 1)[n + 1] = received + 1
          /\ \A k \in 1 .. n : Append(Pending, received + 1)[k] = Pending[k]
      BY <2>1, <2>4
    <2>7. \A k \in 1 .. n + 1 : Pending'[k] = Append(Pending, received + 1)[k]
      <3>1. \A k \in 1 .. n + 1 : k \in 1 .. n \/ k = n + 1
        BY <2>2
      <3>2. QED BY <2>2, <2>3, <2>4, <2>5, <2>6, <3>1, SMTT(60)
    <2>8. QED BY <2>2, <2>4, <2>5, <2>6, <2>7, SeqEqual
  <1>3. QED BY <1>1, <1>2 DEF TcpRecv, RxQueuePush

\* tcp_server_dequeue_rx is its Take.
LEMMA DequeueTakes ==
    ASSUME Inv, Inv', TcpServerDequeueRx
    PROVE  /\ Pending # <<>> /\ rx_frame'.cmd = Head(Pending) /\ Pending' = Tail(Pending)
  <1> DEFINE n == Waiting(rx_head, rx_tail)
  <1>0. rx_queue \in [Slots -> [cmd : Nat, data : Blocks \cup {NULL}]]
    BY DEF Inv, TypeOK
  <1>1. /\ rx_head \in Slots /\ rx_tail \in Slots /\ rx_head # rx_tail
        /\ rx_head' = rx_head /\ rx_tail' = Succ(rx_tail) /\ rx_queue' = rx_queue
        /\ rx_frame' = rx_queue[rx_tail]
    BY DEF Inv, TypeOK, TcpServerDequeueRx
  <1>2. /\ n \in Nat /\ n # 0 /\ Waiting(rx_head', rx_tail') = n - 1
        /\ At(rx_tail, 1) = rx_tail
        /\ \A k \in 1 .. n - 1 : At(rx_tail', k) = At(rx_tail, k + 1)
    BY <1>1, SlotsInOrder, PushAndPop
  <1>3. /\ Pending \in Seq(Nat) /\ Len(Pending) = n
        /\ \A k \in 1 .. n : Pending[k] = rx_queue[At(rx_tail, k)].cmd
    BY <1>0, <1>1, CommandsAre DEF Pending
  <1>4. /\ Pending' \in Seq(Nat) /\ Len(Pending') = n - 1
        /\ \A k \in 1 .. n - 1 : Pending'[k] = rx_queue[At(rx_tail', k)].cmd
    <2>1. rx_tail' \in Slots
      BY DEF Inv, TypeOK
    <2>2. Pending' = CommandsOf(rx_queue, rx_head, rx_tail')
      BY <1>1 DEF Pending
    <2>3. Waiting(rx_head, rx_tail') = n - 1
      BY <1>1, <1>2
    <2>4. /\ Pending' \in Seq(Nat) /\ Len(Pending') = Waiting(rx_head, rx_tail')
          /\ \A k \in 1 .. Waiting(rx_head, rx_tail') :
                Pending'[k] = rx_queue[At(rx_tail', k)].cmd
      BY <1>0, <1>1, <2>1, <2>2, CommandsAre, ZenonT(60)
    <2> HIDE DEF n
    <2>5. QED BY <2>3, <2>4
  <1> HIDE DEF n
  <1>5. Pending # <<>> /\ Head(Pending) = Pending[1]
    BY <1>2, <1>3
  <1>6. /\ Tail(Pending) \in Seq(Nat) /\ Len(Tail(Pending)) = n - 1
        /\ \A k \in 1 .. n - 1 : Tail(Pending)[k] = Pending[k + 1]
    BY <1>2, <1>3, <1>5
  <1>7. \A k \in 1 .. n - 1 : Pending'[k] = Tail(Pending)[k]
    <2>1. \A k \in 1 .. n - 1 : k + 1 \in 1 .. n
      BY <1>2
    <2>2. QED BY <1>2, <1>3, <1>4, <1>6, <2>1
  <1>8. Pending' = Tail(Pending)
    BY <1>2, <1>4, <1>6, <1>7, SeqEqual
  <1>9. QED BY <1>1, <1>2, <1>3, <1>5, <1>8

\* The command numbers in use.
Numbered == received \in 0 .. MaxCmds

\* Every other step leaves the queue alone.
LEMMA PendingFrame ==
    ASSUME UNCHANGED <<rx_queue, rx_head, rx_tail, rx_frame>>
    PROVE  Pending' = Pending /\ rx_frame'.cmd = rx_frame.cmd
  BY DEF Pending

\* The receive ring (rx_queue_push, tcp_server_dequeue_rx) implements the bounded
\* first-in first-out queue: each step of the server is a Put, a Take or a stutter.
THEOREM RingIsFifo == Spec => CommandsInOrder
  <1>1. Init => Commands!Init /\ Numbered
    <2> SUFFICES ASSUME Init PROVE Commands!Init /\ Numbered
      OBVIOUS
    <2>1. /\ rx_queue \in [Slots -> [cmd : Nat, data : Blocks \cup {NULL}]]
          /\ rx_head = 0 /\ rx_tail = 0 /\ 0 \in Slots /\ rx_frame.cmd = 0 /\ received = 0
      BY DEF Init, Slots
    <2>2. Waiting(0, 0) = 0
      BY <2>1, SlotsInOrder
    <2>3. Pending \in Seq(Nat) /\ Len(Pending) = 0
      BY <2>1, <2>2, CommandsAre DEF Pending
    <2>4. Pending = <<>>
      BY <2>3
    <2>5. QED BY <2>1, <2>4 DEF Commands!Init, Pending, CommandsOf, Numbered
  <1>2. ASSUME Inv, Inv', Numbered, [Next]_vars
        PROVE  /\ Numbered'
               /\ \/ Len(Pending) < QueueLen - 1 /\ rx_frame'.cmd = rx_frame.cmd
                     /\ \E k \in 0 .. MaxCmds : Pending' = Append(Pending, k)
                  \/ Pending # <<>> /\ rx_frame'.cmd = Head(Pending) /\ Pending' = Tail(Pending)
                  \/ Pending' = Pending /\ rx_frame'.cmd = rx_frame.cmd
    <2>1. ASSUME NEW c \in Conns, TcpRecv(c)
          PROVE  /\ received + 1 \in 0 .. MaxCmds /\ Numbered' /\ rx_frame' = rx_frame
                 /\ \/ Len(Pending) < QueueLen - 1 /\ Pending' = Append(Pending, received + 1)
                    \/ Pending' = Pending
      BY <1>2, <2>1, RecvPuts DEF TcpRecv, Numbered, loop
    <2>2. CASE TcpServerDequeueRx
      BY <1>2, <2>2, DequeueTakes DEF TcpServerDequeueRx, Numbered
    <2>3. CASE \/ TcpServerProcess \/ RxDrained \/ ProcessRxCommand
               \/ TriggerCheck \/ HeartbeatSend \/ UNCHANGED vars
      <3>1. UNCHANGED <<rx_queue, rx_head, rx_tail, rx_frame, received>>
        BY <2>3 DEF TcpServerProcess, RxDrained, ProcessRxCommand, TriggerCheck,
           HeartbeatSend, AsyncFrame, vars, rx, loop
      <3>2. QED BY <1>2, <3>1, PendingFrame DEF Numbered
    <2>4. ASSUME NEW c \in Conns,
                 \/ TcpAccept(c) \/ TcpFin(c) \/ TcpSent(c)
                 \/ TcpErr(c) \/ LwipRelease(c) \/ TcpPoll(c)
          PROVE  UNCHANGED <<rx_queue, rx_head, rx_tail, rx_frame, received>>
      BY <2>4 DEF TcpAccept, TcpFin, TcpSent, TcpErr, LwipRelease, TcpPoll, rx, loop
    <2>5. QED
      BY <1>2, <2>1, <2>2, <2>3, <2>4, PendingFrame DEF Next, MainLoop, Lwip, Numbered
  <1>3. Inv /\ Inv' /\ Numbered /\ [Next]_vars
          => Numbered' /\ [Commands!Next]_<<Pending, rx_frame.cmd>>
    BY <1>2 DEF Commands!Next, Commands!Put, Commands!Take, Pending, CommandsOf
  <1>4. QED
    BY <1>1, <1>3, InvHolds, PTL
       DEF Spec, CommandsInOrder, Commands!Spec, Pending, CommandsOf
====
