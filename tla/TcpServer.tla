---- MODULE TcpServer ----
(***************************************************************************)
(* The firmware's TCP server (ps/src/tcp_server.c) and the main loop that  *)
(* consumes it (ps/src/main.c).  Two contexts interleave: lwIP callbacks   *)
(* (accept, recv, sent, err, poll), which lwIP may call for any pcb they   *)
(* are registered on, and the phases of the main loop.  A callback runs    *)
(* to completion; the main loop can be interrupted between its phases.     *)
(*                                                                         *)
(* Abstractions: a command is the number of its arrival, a frame is the    *)
(* number of the frame_build that made it, so that g_frame_out.buf is the  *)
(* number of the last frame built.  Every tx_queue entry is a POINTER to   *)
(* that one buffer; tx_queue below records which frame the caller meant.   *)
(***************************************************************************)
EXTENDS Naturals, FiniteSets

CONSTANTS
    Conns,      \* the pcbs lwIP can hand to tcp_accept_cb, each used once
    NULL,       \* the null pcb pointer
    Blocks,     \* the heap blocks malloc can return
    QueueLen,   \* TCP_SEND_QUEUE_LEN, the size of both rings
    MaxCmds,    \* bound: complete frames the peers send
    MaxAsync    \* bound: heartbeat and trigger frames

ASSUME QueueLenAssumption == QueueLen \in Nat /\ QueueLen > 1
ASSUME BoundsAssumption == MaxCmds \in Nat /\ MaxAsync \in Nat
ASSUME NullAssumption == NULL \notin Conns

VARIABLES
    conn,         \* lwIP: what each pcb is ("free", "open", "closing", "gone")
    unacked,      \* lwIP: frames written to each pcb and not yet acknowledged
    client_pcb, conn_state, conn_count,
    rx_queue, rx_head, rx_tail,
    heap,         \* the blocks malloc has handed out
    tx_queue, tx_head, tx_tail, tx_busy,
    g_frame_out,  \* the number of the frame in the one output buffer
    wire,         \* the last tcp_write: frame queued, frame written, conn_count
    rx_frame,     \* process_rx_commands' local: the command being executed
    phase,        \* where the main loop is
    received,     \* complete frames received so far
    asyncs,       \* heartbeat and trigger frames built so far
    overlapped    \* history: a client was accepted beside a live older pcb

lwip == <<conn, unacked>>
session == <<client_pcb, conn_state, conn_count, overlapped>>
rx == <<rx_queue, rx_head, rx_tail, heap, received>>
tx == <<tx_queue, tx_head, tx_tail, tx_busy, wire>>
loop == <<rx_frame, phase, asyncs, g_frame_out>>
vars == <<lwip, session, rx, tx, loop>>

-----------------------------------------------------------------------------
Slots == 0 .. QueueLen - 1

\* The index after i in either ring.
Succ(i) == IF i = QueueLen - 1 THEN 0 ELSE i + 1

\* The slots from tail up to, not including, head.
Occupied(head, tail) ==
    {i \in Slots : IF tail <= head THEN tail <= i /\ i < head
                                   ELSE tail <= i \/ i < head}

\* The ring's entries, oldest first.
Contents(queue, head, tail) ==
    LET count == (head + QueueLen - tail) % QueueLen
    IN  [k \in 1 .. count |-> queue[(tail + k - 1) % QueueLen]]

Live(c) == conn[c] \in {"open", "closing"}

Init ==
    /\ conn = [c \in Conns |-> "free"]
    /\ unacked = [c \in Conns |-> 0]
    /\ client_pcb = NULL /\ conn_state = "CONN_IDLE" /\ conn_count = 0
    /\ overlapped = FALSE
    /\ rx_queue = [i \in Slots |-> [cmd |-> 0, data |-> NULL]]
    /\ rx_head = 0 /\ rx_tail = 0 /\ heap = {} /\ received = 0
    /\ tx_queue = [i \in Slots |-> 0]
    /\ tx_head = 0 /\ tx_tail = 0 /\ tx_busy = FALSE
    /\ wire = [queued |-> 0, written |-> 0, session |-> 0]
    /\ rx_frame = [cmd |-> 0, data |-> NULL]
    /\ phase = "process" /\ asyncs = 0 /\ g_frame_out = 0

-----------------------------------------------------------------------------
(* Transmission *)

\* tx_do_send on a ring whose tail is `tail` and latch is `busy`, lwIP's counts
\* being `un`.  tcp_write copies what the buffer holds NOW; when it fails the
\* frame is dropped.
TxDoSend(tail, busy, un) ==
    \/ /\ busy \/ client_pcb = NULL \/ tx_head' = tail
       /\ tx_tail' = tail /\ tx_busy' = busy
       /\ unacked' = un /\ UNCHANGED wire
    \/ /\ ~busy /\ client_pcb # NULL /\ tx_head' # tail
       /\ \/ /\ tx_tail' = tail /\ tx_busy' = TRUE
             /\ unacked' = [un EXCEPT ![client_pcb] = @ + 1]
             /\ wire' = [queued |-> tx_queue'[tail], written |-> g_frame_out',
                         session |-> conn_count]
          \/ /\ tx_tail' = Succ(tail) /\ tx_busy' = busy
             /\ unacked' = un /\ UNCHANGED wire

\* tcp_server_send(ctx, g_frame_out.buf, len) of the frame built in this step:
\* refused without a client or with a full ring, otherwise queued and, when
\* nothing is being sent, written at once.
TcpServerSend ==
    IF client_pcb = NULL \/ Succ(tx_head) = tx_tail
    THEN UNCHANGED <<tx, unacked>>
    ELSE /\ tx_queue' = [tx_queue EXCEPT ![tx_head] = g_frame_out']
         /\ tx_head' = Succ(tx_head)
         /\ TxDoSend(tx_tail, tx_busy, unacked)

\* tcp_server_process and tcp_poll_cb: start the next frame when nothing is
\* being sent.
TxKick ==
    /\ UNCHANGED <<tx_queue, tx_head, g_frame_out>>
    /\ TxDoSend(tx_tail, tx_busy, unacked)

-----------------------------------------------------------------------------
(* lwIP callbacks *)

\* tcp_accept_cb: a second client is aborted; the first becomes the client.
\* Neither ring, nor tx_busy, is touched.
TcpAccept(c) ==
    /\ conn[c] = "free"
    /\ IF client_pcb # NULL
       THEN /\ conn' = [conn EXCEPT ![c] = "gone"]
            /\ UNCHANGED session
       ELSE /\ conn' = [conn EXCEPT ![c] = "open"]
            /\ client_pcb' = c /\ conn_state' = "CONN_ACCEPTED"
            /\ conn_count' = conn_count + 1
            /\ overlapped' = (overlapped \/ \E d \in Conns : Live(d))
    /\ UNCHANGED <<unacked, rx, tx, loop>>

\* Mutant: no test for a full ring.
RxPushOverruns(k) ==
    \E b \in Blocks \cup {NULL} :
        /\ heap' = heap \cup ({b} \ {NULL})
        /\ rx_queue' = [rx_queue EXCEPT ![rx_head] = [cmd |-> k, data |-> b]]
        /\ rx_head' = Succ(rx_head)

\* rx_queue_push of command k: full ring or failed malloc drop it.
RxQueuePush(k) ==
    \/ /\ Succ(rx_head) # rx_tail
       /\ \E b \in Blocks \ heap :
             /\ heap' = heap \cup {b}
             /\ rx_queue' = [rx_queue EXCEPT ![rx_head] = [cmd |-> k, data |-> b]]
             /\ rx_head' = Succ(rx_head)
    \/ UNCHANGED <<rx_queue, rx_head, heap>>

\* tcp_recv_cb with data that completes one frame.  Several frames in one pbuf
\* are several of these steps with nothing between them.
TcpRecv(c) ==
    /\ conn[c] = "open" /\ received < MaxCmds
    /\ received' = received + 1
    /\ RxQueuePush(received + 1)
    /\ UNCHANGED <<lwip, session, rx_tail, tx, loop>>

\* Mutant: the FIN path closes the pcb but keeps it as the client.
TcpFinKeepsClient(c) ==
    /\ conn[c] = "open"
    /\ conn' = [conn EXCEPT ![c] = "closing"]
    /\ UNCHANGED <<unacked, session, rx, tx, loop>>

\* tcp_recv_cb with a null pbuf (FIN): forgets the client, whichever pcb it
\* is, and closes the pcb; lwIP keeps it, with its callbacks, until the peer
\* has acknowledged what it was sent.  tx_busy keeps its value.
TcpFin(c) ==
    /\ conn[c] = "open"
    /\ conn' = [conn EXCEPT ![c] = "closing"]
    /\ client_pcb' = NULL /\ conn_state' = "CONN_IDLE"
    /\ UNCHANGED <<unacked, conn_count, overlapped, rx, tx, loop>>

\* Mutant: the acknowledged frame stays at the tail of the ring.
TcpSentKeepsTail(c) ==
    /\ Live(c) /\ unacked[c] > 0
    /\ UNCHANGED <<tx_queue, tx_head>>
    /\ UNCHANGED loop
    /\ TxDoSend(tx_tail, FALSE, [unacked EXCEPT ![c] = @ - 1])
    /\ UNCHANGED <<conn, session, rx>>

\* The peer of c acknowledges one frame: tcp_sent_cb pops the ring and starts
\* the next frame, whichever pcb was acknowledged.
TcpSent(c) ==
    /\ Live(c) /\ unacked[c] > 0
    /\ UNCHANGED <<tx_queue, tx_head>>
    /\ UNCHANGED loop
    /\ TxDoSend(Succ(tx_tail), FALSE, [unacked EXCEPT ![c] = @ - 1])
    /\ UNCHANGED <<conn, session, rx>>

\* Mutant: the error path, like the FIN path, leaves tx_busy as it is.
TcpErrKeepsBusy(c) ==
    /\ Live(c)
    /\ conn' = [conn EXCEPT ![c] = "gone"]
    /\ unacked' = [unacked EXCEPT ![c] = 0]
    /\ client_pcb' = NULL /\ conn_state' = "CONN_IDLE"
    /\ UNCHANGED <<conn_count, overlapped, rx, tx, loop>>

\* tcp_err_cb: lwIP has freed pcb c (reset, abort, retransmission limit).
TcpErr(c) ==
    /\ Live(c)
    /\ conn' = [conn EXCEPT ![c] = "gone"]
    /\ unacked' = [unacked EXCEPT ![c] = 0]
    /\ client_pcb' = NULL /\ conn_state' = "CONN_IDLE" /\ tx_busy' = FALSE
    /\ UNCHANGED <<conn_count, overlapped, rx, loop>>
    /\ UNCHANGED <<tx_queue, tx_head, tx_tail, wire>>

\* lwIP frees a closed pcb once everything sent on it is acknowledged.
LwipRelease(c) ==
    /\ conn[c] = "closing" /\ unacked[c] = 0
    /\ conn' = [conn EXCEPT ![c] = "gone"]
    /\ UNCHANGED <<unacked, session, rx, tx, loop>>

\* tcp_poll_cb, from tcp_tmr.
TcpPoll(c) ==
    /\ Live(c)
    /\ TxKick
    /\ UNCHANGED <<conn, session, rx, rx_frame, phase, asyncs>>

Lwip(c) ==
    \/ TcpAccept(c) \/ TcpRecv(c) \/ TcpFin(c) \/ TcpSent(c)
    \/ TcpErr(c) \/ LwipRelease(c) \/ TcpPoll(c)

-----------------------------------------------------------------------------
(* The main loop *)

\* tcp_server_process.
TcpServerProcess ==
    /\ phase = "process" /\ phase' = "commands"
    /\ TxKick
    /\ UNCHANGED <<conn, session, rx, rx_frame, asyncs>>

\* Mutant: taking one entry empties the ring.
DequeueDropsRest ==
    /\ phase = "commands" /\ rx_head # rx_tail
    /\ rx_frame' = rx_queue[rx_tail]
    /\ rx_tail' = rx_head
    /\ phase' = "execute"
    /\ UNCHANGED <<rx_queue, rx_head, heap, received>>
    /\ UNCHANGED <<lwip, session, tx, asyncs, g_frame_out>>

\* tcp_server_dequeue_rx: the entry is copied out and its slot released.
TcpServerDequeueRx ==
    /\ phase = "commands" /\ rx_head # rx_tail
    /\ rx_frame' = rx_queue[rx_tail]
    /\ rx_tail' = Succ(rx_tail)
    /\ phase' = "execute"
    /\ UNCHANGED <<rx_queue, rx_head, heap, received>>
    /\ UNCHANGED <<lwip, session, tx, asyncs, g_frame_out>>

\* process_rx_commands leaves its loop at an empty ring.
RxDrained ==
    /\ phase = "commands" /\ rx_head = rx_tail /\ phase' = "trigger"
    /\ UNCHANGED <<lwip, session, rx, tx, rx_frame, asyncs, g_frame_out>>

\* Mutant: without a client the loop skips the answer, and free with it.
ProcessRxSkipsFree ==
    /\ phase = "execute" /\ phase' = "commands"
    /\ g_frame_out' = g_frame_out + 1
    /\ TcpServerSend
    /\ heap' = IF client_pcb = NULL THEN heap ELSE heap \ {rx_frame.data}
    /\ UNCHANGED <<conn, session, rx_queue, rx_head, rx_tail, received, rx_frame, asyncs>>

\* The body of the loop: cmd_dispatch builds an answer to every command in
\* g_frame_out, connected or not; tcp_server_send queues it; the payload is
\* freed.
ProcessRxCommand ==
    /\ phase = "execute" /\ phase' = "commands"
    /\ g_frame_out' = g_frame_out + 1
    /\ TcpServerSend
    /\ heap' = heap \ {rx_frame.data}
    /\ UNCHANGED <<conn, session, rx_queue, rx_head, rx_tail, received, rx_frame, asyncs>>

\* A frame nobody asked for: heartbeat_send and trigger_check build one only
\* when a client is connected, and not every time round.
AsyncFrame(from, to) ==
    /\ phase = from /\ phase' = to
    /\ \/ /\ client_pcb # NULL /\ asyncs < MaxAsync
          /\ g_frame_out' = g_frame_out + 1 /\ asyncs' = asyncs + 1
          /\ TcpServerSend
       \/ UNCHANGED <<tx, unacked, g_frame_out, asyncs>>
    /\ UNCHANGED <<conn, session, rx, rx_frame>>

TriggerCheck == AsyncFrame("trigger", "heartbeat")
HeartbeatSend == AsyncFrame("heartbeat", "process")

MainLoop ==
    \/ TcpServerProcess \/ TcpServerDequeueRx \/ RxDrained
    \/ ProcessRxCommand \/ TriggerCheck \/ HeartbeatSend

Next == MainLoop \/ \E c \in Conns : Lwip(c)

\* The loop never blocks, and TCP leaves no frame outstanding for ever: the
\* peer acknowledges it or lwIP gives the pcb up and reports an error.
Fairness ==
    /\ WF_vars(MainLoop)
    /\ \A c \in Conns : WF_vars(unacked[c] > 0 /\ (TcpSent(c) \/ TcpErr(c)))

Spec == Init /\ [][Next]_vars /\ Fairness

-----------------------------------------------------------------------------
(* Properties *)

TypeOK ==
    /\ conn \in [Conns -> {"free", "open", "closing", "gone"}]
    /\ unacked \in [Conns -> Nat]
    /\ client_pcb \in Conns \cup {NULL}
    /\ conn_state \in {"CONN_IDLE", "CONN_ACCEPTED"}
    /\ conn_count \in Nat /\ overlapped \in BOOLEAN
    /\ rx_queue \in [Slots -> [cmd : Nat, data : Blocks \cup {NULL}]]
    /\ rx_head \in Slots /\ rx_tail \in Slots
    /\ heap \in SUBSET Blocks /\ received \in Nat
    /\ tx_queue \in [Slots -> Nat]
    /\ tx_head \in Slots /\ tx_tail \in Slots /\ tx_busy \in BOOLEAN
    /\ wire \in [queued : Nat, written : Nat, session : Nat]
    /\ rx_frame \in [cmd : Nat, data : Blocks \cup {NULL}]
    /\ phase \in {"process", "commands", "execute", "trigger", "heartbeat"}
    /\ asyncs \in Nat /\ g_frame_out \in Nat

\* The payload blocks the ring and the main loop still have to free.
Queued == {rx_queue[i].data : i \in Occupied(rx_head, rx_tail)}
Executing == IF phase = "execute" THEN {rx_frame.data} ELSE {}

\* Every payload that malloc gave rx_queue_push is owned by exactly one ring
\* slot or by the command being executed, and by nothing else: no leak, no
\* double free and no use after free, whatever connections come and go and
\* however often the ring overflows.
HeapExact ==
    /\ heap = Queued \cup Executing
    /\ Queued \cap Executing = {}
    /\ \A i, j \in Occupied(rx_head, rx_tail) :
          rx_queue[i].data = rx_queue[j].data => i = j

\* The server never holds, and so never writes to, a pcb that lwIP has closed
\* or freed, although the callbacks do not look at which pcb they are called
\* for; and client_pcb and conn_state, set in different places, agree.
ClientIsLive ==
    /\ client_pcb # NULL => conn[client_pcb] = "open"
    /\ client_pcb # NULL <=> conn_state = "CONN_ACCEPTED"

\* tx_busy, which nothing but a callback clears, is never left set without a
\* pcb whose acknowledgement or error will clear it: transmission cannot be
\* blocked for ever by a connection that went away in mid-send.
BusyHasWitness == tx_busy => \E c \in Conns : Live(c) /\ unacked[c] > 0

\* The receive ring implements the bounded FIFO: the main loop executes the
\* commands that got in, each once, in the order they were received.
Commands == INSTANCE CommandFifo WITH
    Commands <- 0 .. MaxCmds,
    Capacity <- QueueLen - 1,
    pending <- LET entries == Contents(rx_queue, rx_head, rx_tail)
               IN  [k \in DOMAIN entries |-> entries[k].cmd],
    current <- rx_frame.cmd

CommandsInOrder == Commands!Spec

\* Under the same condition frames are written in the order they were queued;
\* a frame is written again only to a later client.
FramesInOrder ==
    [][~overlapped' /\ wire' # wire =>
          \/ wire'.queued > wire.queued
          \/ wire'.queued = wire.queued /\ wire'.session > wire.session]_vars

\* Every command that got into the receive ring is executed.
CommandsServed ==
    \A k \in 1 .. MaxCmds :
        (\E i \in Occupied(rx_head, rx_tail) : rx_queue[i].cmd = k)
            ~> (phase = "execute" /\ rx_frame.cmd = k)

\* Every frame queued for a client leaves the ring while that client lasts,
\* even when an earlier connection went away in mid-send.
FramesLeave ==
    \A f \in 1 .. MaxCmds + MaxAsync :
        (client_pcb # NULL /\ \E i \in Occupied(tx_head, tx_tail) : tx_queue[i] = f)
            ~> (client_pcb = NULL \/ \A i \in Occupied(tx_head, tx_tail) : tx_queue[i] # f)
====
