---- MODULE MainLoop ----
(***************************************************************************)
(* The main loop of the PS firmware (ps/src/main.c) as its timers and the  *)
(* DMA ring see it: the millisecond counter, a 32-bit word that wraps and  *)
(* that the timer interrupt advances under the loop; the reading of it     *)
(* with which a pass works; lwIP timer, heartbeat and software watchdog.   *)
(* Sockets and commands are TcpServer; the DMA watchdog is left out, it    *)
(* asks g_sim_running, which nothing sets.                                 *)
(***************************************************************************)
EXTENDS DmaRing

CONSTANTS
    Word,                       \* 2^32
    TCP_TMR_INTERVAL_MS, HEARTBEAT_INTERVAL_MS,
    ProtoTimeout,               \* 30000
    MaxPass,                    \* milliseconds start-up or a pass of the loop takes, at most
    MaxCmds                     \* commands queued in a pass, at most

ASSUME TimerAssumption ==
    /\ Word \in Nat /\ MaxPass \in Nat /\ MaxCmds \in Nat
    /\ TCP_TMR_INTERVAL_MS \in Nat /\ HEARTBEAT_INTERVAL_MS \in Nat
    /\ 0 < TCP_TMR_INTERVAL_MS
    /\ TCP_TMR_INTERVAL_MS + MaxPass <= Word
    /\ MaxPass < HEARTBEAT_INTERVAL_MS /\ HEARTBEAT_INTERVAL_MS + 2 * MaxPass <= Word
    /\ ProtoTimeout \in Nat /\ MaxPass <= ProtoTimeout /\ ProtoTimeout + MaxPass < Word

VARIABLES
    g_tick_ms, now, last_tcp_tmr, last_heartbeat, last_proto_activity,
    rx_queued,      \* commands in the receive ring
    lag,            \* history: milliseconds since now was read
    tmr_age, beat_age,  \* history: milliseconds since the time in last_tcp_tmr, last_heartbeat
    quiet,          \* history: milliseconds since a command was served, up to Word + MaxPass
    served, warned  \* history: this pass served a command, reported a time-out

stamps == <<last_tcp_tmr, last_heartbeat, last_proto_activity>>
ages == <<tmr_age, beat_age, quiet>>
pass == <<now, lag, rx_queued, served, warned>>
timers == <<g_tick_ms, stamps, ages, pass>>
vars == <<phase, ring, timers>>

\* main, up to the loop.
Init ==
    /\ RingInit /\ phase = "top"
    /\ g_tick_ms \in 0 .. MaxPass
    /\ now = g_tick_ms /\ last_tcp_tmr = g_tick_ms
    /\ last_heartbeat = 0 /\ last_proto_activity = 0
    /\ lag = 0 /\ tmr_age = 0 /\ beat_age = g_tick_ms /\ quiet = g_tick_ms
    /\ rx_queued = 0 /\ served = FALSE /\ warned = FALSE

-----------------------------------------------------------------------------
\* ttc_isr, whatever the loop is doing.
TtcIsr ==
    /\ isr = "idle" /\ lag < MaxPass
    /\ g_tick_ms' = (g_tick_ms + 1) % Word
    /\ lag' = lag + 1 /\ tmr_age' = tmr_age + 1 /\ beat_age' = beat_age + 1
    /\ quiet' = IF quiet < Word + MaxPass THEN quiet + 1 ELSE quiet
    /\ UNCHANGED <<phase, ring, stamps, now, rx_queued, served, warned>>

\* Mutant: a difference that looks negative counts as none.
ElapsedSigned(later, earlier) == IF later >= earlier THEN later - earlier ELSE 0

\* The difference of two readings, in unsigned arithmetic.
Elapsed(later, earlier) == (later - earlier) % Word

\* The top of the loop: the reading of the clock, and lwIP's timer.
ReadClock ==
    LET due == Elapsed(g_tick_ms, last_tcp_tmr) >= TCP_TMR_INTERVAL_MS
    IN  /\ Go("top", "process")
        /\ now' = g_tick_ms /\ lag' = 0
        /\ last_tcp_tmr' = IF due THEN g_tick_ms ELSE last_tcp_tmr
        /\ tmr_age' = IF due THEN 0 ELSE tmr_age
        /\ served' = FALSE /\ warned' = FALSE
        /\ UNCHANGED <<ring, g_tick_ms, last_heartbeat, last_proto_activity,
                       beat_age, quiet, rx_queued>>

\* tcp_server_process: lwIP's callbacks queue commands.
TcpServerProcess ==
    /\ Go("process", "commands")
    /\ rx_queued' \in rx_queued .. MaxCmds
    /\ UNCHANGED <<ring, g_tick_ms, stamps, ages, now, lag, served, warned>>

\* process_rx_commands, until the ring is empty.
ServeCommand ==
    /\ Go("commands", "commands") /\ rx_queued > 0
    /\ rx_queued' = rx_queued - 1 /\ served' = TRUE
    /\ last_proto_activity' = g_tick_ms /\ quiet' = 0
    /\ UNCHANGED <<ring, g_tick_ms, last_tcp_tmr, last_heartbeat,
                   tmr_age, beat_age, now, lag, warned>>

CommandsDone ==
    /\ Go("commands", "dma") /\ rx_queued = 0
    /\ UNCHANGED <<ring, timers>>

HeartbeatSend ==
    LET due == Elapsed(now, last_heartbeat) >= HEARTBEAT_INTERVAL_MS
    IN  /\ Go("heartbeat", "watchdog")
        /\ last_heartbeat' = IF due THEN now ELSE last_heartbeat
        /\ beat_age' = IF due THEN lag ELSE beat_age
        /\ UNCHANGED <<ring, g_tick_ms, last_tcp_tmr, last_proto_activity,
                       tmr_age, quiet, pass>>

\* sw_wdt_check, which compares with the reading at the top of the pass.
SwWdtCheck ==
    /\ Go("watchdog", "top")
    /\ warned' = (Elapsed(now, last_proto_activity) > ProtoTimeout)
    /\ UNCHANGED <<ring, g_tick_ms, stamps, ages, now, lag, rx_queued, served>>

RingStep == Complete \/ IsrFlag \/ IsrAck \/ DmaProcess \/ TriggerCheck \/ CopyDone

Next ==
    \/ RingStep /\ UNCHANGED timers
    \/ TtcIsr
    \/ ReadClock \/ TcpServerProcess \/ ServeCommand \/ CommandsDone
    \/ HeartbeatSend \/ SwWdtCheck

Spec == Init /\ [][Next]_vars

-----------------------------------------------------------------------------
\* lwIP's timer and the heartbeat run at their intervals, never early and late by
\* less than a pass, also while the counter wraps around.
TimersKeepPeriod ==
    [][/\ beat_age' < beat_age =>
            beat_age - lag \in HEARTBEAT_INTERVAL_MS .. HEARTBEAT_INTERVAL_MS + MaxPass - 1
       /\ tmr_age' < tmr_age =>
            tmr_age \in TCP_TMR_INTERVAL_MS .. TCP_TMR_INTERVAL_MS + MaxPass - 1]_vars

\* A pass that served no command reports a time-out exactly when there has been
\* no command for longer than that, up to a turn of the counter.
TimeoutMeansSilence ==
    phase = "top" /\ ~served =>
        /\ warned => quiet - lag > ProtoTimeout
        /\ quiet - lag > ProtoTimeout /\ quiet < Word => warned
====
