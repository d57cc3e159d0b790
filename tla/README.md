# A TLA+ model of the Buck HIL system

The repository is a hardware-in-the-loop simulator of a Buck converter: an FPGA
(PL, `fpga/rtl`) measures a PWM signal, solves the converter every 100 ns and
drives a DAC; bare-metal firmware on the Zynq's processor (PS, `ps/`) gives it
parameters and moves captured waveforms; a Qt application on a PC (`host/`)
talks to the firmware over TCP. This directory holds specifications of its
parts, the TLC configurations that check them and the TLAPS proofs about them.

## 1. Inventory

| component | state | operations | meets others by |
|---|---|---|---|
| PS TCP server, `tcp_server.c` | client pcb, connection state, receive and transmit rings, busy latch, parser | lwIP callbacks accept, recv, sent, err, poll; process, send, dequeue | called by lwIP and by the main loop; payloads on the heap; pointers to the main loop's frame buffer |
| PS main loop, `main.c` | one output frame, the reading of the clock, time stamps | lwIP timer, process, execute commands, DMA, trigger check, heartbeat, software watchdog | polls everything; its clock advances in an interrupt |
| PS protocol, `protocol.c` | byte parser; none in the dispatcher | parse byte, build frame, dispatch command | register reads and writes, parameter table |
| PS parameters, `params.c` | mirror of the parameters | init, read, write, batch | AXI writes to PL registers |
| PS DMA ring, `dma_ctrl.c` | descriptor ring, completion flag, last buffer | interrupt, process, get last buffer, reset | interrupt against main loop |
| PS logger, `logger.c` | event ring | log, read | interrupt context and main loop |
| PS platform, `platform.c` | millisecond counter | timer interrupt, read, set-up | interrupt against main loop |
| PL register file, `axi_mm_regs.sv` | registers, two channel machines, pulse flip-flop | AXI write, AXI read, `param_update` | AXI master; wires to every PL module |
| PL capture manager, `capture_manager.sv` | sample ring, trigger machine, stream machine | sample, trigger, stream | AXI-Stream to DMA |
| PL PWM capture, `pwm_capture.sv` | filter, measurement machine, history of duty cycles | edges, measurements, time-outs | its outputs cross from 400 MHz to 100 MHz |
| PL solver, `buck_solver.sv` | current and voltage, parameter snapshot, PWM and step counters, four pipeline stages | step, new duty cycle, new parameters | fed by the crossing and `param_update`; feeds the DAC's path and the capture |
| PL DAC interface, `dac_interface.sv` | frame machine, counters, shift register | update | strobes of the divider; the DAC's serial lines |
| PL top level, `buck_hil_top.sv` | stretcher and synchronisers, scaling, divider, read-back | every clock edge | wires everything |
| Host worker, `CommunicationWorker.cpp` | socket, parser, reconnect timer, flags | connect, disconnect, send; socket and timer slots | queued Qt signals between three threads |
| Host parser, ring buffer, data processor, window | parser state; sample rings; widgets | feed byte; append, get recent; show | queued signals; shared ring |

What is hard about it, and what makes each part correct:

* *TCP server.* Callbacks name a pcb, but the handlers do not look at it; the
  rings survive connections. Correct: one live client; nothing leaked, freed
  twice or executed twice; commands and frames in order; a connection that dies
  in mid-send does not block the next.
* *Capture.* Three machines share one ring with different paces. Correct: the
  reader reads the capture's samples; every transfer has its length and its end;
  no trigger is lost or sent twice.
* *Register file.* Two channels that stall independently, reads over writes.
  Correct: a response means the register was written; reads are atomic; one
  pulse per update.
* *Host worker.* User, socket, timer and window are four sources of events.
  Correct: no frame from two connections; buttons agree with the socket; a lost
  connection is tried again; nothing is tried after a disconnect.
* *Parameters.* Register widths, address width, partial batches. Correct: PL
  registers mirror the table; a refused write changes nothing.
* *DMA ring.* One flag for many completions; interrupt against main. Correct:
  every completed capture is collected, pending or accounted for; a buffer is
  not overwritten while it is copied.
* *Timers.* A counter that wraps and advances under the loop that compares it.
  Correct: periods are kept through the wrap; a time-out reported is one.
* *Parser.* Resynchronisation after any corruption; the time-out's race.
* *PWM capture.* A filter, a measurement, two time-outs and a consistency check.
  Correct: what is latched is the signal's period and high time, no edge is
  overlooked, a loss is reported in time.
* *Solver.* A pipeline whose result is the next step's input, a free-running PWM
  counter, inputs that change at any time. Correct: each result is one step of
  the converter's equations; the switch is closed for the duty cycle's share.
* *Crossing.* A pulse and a word between two clocks. Correct: each announcement
  arrives once, with its own word.
* *DAC path.* Strobes and new codes during a transmission. Correct: the DAC gets
  whole frames of one update; the read-back shows what was sent.
* *Ring buffer.* A reader without a lock against a writer that laps it.

`PROJECT.json` lists the hazards one by one with their lines.

## 2. The modules

**`CommandFifo`** is the abstract bounded queue that received commands go
through: `Put` when there is room, `Take` in order.

**`TcpServer`** has one action per lwIP callback (`TcpAccept`, `TcpRecv`,
`TcpFin` for the null-pbuf branch of `tcp_recv_cb`, `TcpSent`, `TcpErr`,
`TcpPoll`) and one per phase of the main loop. `phase` is the main loop's
program counter; callbacks may run between any two phases. The variables have
the fields' names. `conn` and `unacked` stand for lwIP: a pcb stays `closing`,
with its callbacks registered, until what was sent on it is acknowledged, so
that acknowledgements and errors of an old connection can come after a new one
was accepted. `malloc` and `tcp_write` may fail. `TcpServerSend` includes the
`tx_do_send` it ends in. A frame is the number of the `frame_build` that made it,
so that `g_frame_out` is the number of the buffer's present content; `wire`
remembers both the frame that was queued and the one that was really written.
`overlapped` is a history variable: a client was accepted while an older pcb was
still alive. Complete frames are received whole; their bytes are the subject of
`FrameParser`.

**`CaptureManager`** is cycle-accurate: a step is one clock edge, and the
conjuncts of `CaptureClock` are the three `always_ff` blocks, which all read the
old values. Samples are numbered; the trigger inputs are chosen freely in each
cycle.

**`AxiMmRegs`** is cycle-accurate as well: both channels, the pulse generator
and an external AXI master that holds its valid signals, has one write and one
read outstanding, and may stall. It presents the data of a write with its
address or after the address was accepted. The history variable `seen` collects
what the register read has held since the read began; `raises` and `pulses`
count the rising edges of CTRL bit 2 and the cycles of `param_update`.

**`RegisterMap`** holds the addresses the register file decodes; `AxiMmRegs`,
its implementation, and `Params`, its user, both extend it.

**`Params`** is the firmware's command dispatcher with the parameter mirror and
the registers it writes. There is one action per command; a batch is a
`BatchBegin` and one `BatchEntry` for each call of `params_write`, with `pending`
for the entries not yet written. Nothing runs between those steps that touches
this state (the lwIP callbacks and the interrupts do not), so they are only a
finer view of one call. Registers are reached as the hardware reaches them:
`Decoded` keeps the eight address bits that `buck_hil_top` has, so that the
control registers of `params.h`, at 0x100 and above, land on VIN, L, C and
R_LOAD. A 32-bit word is the pair of its halves, and the coefficients are
computed as in `params.c`, overflow included (dt/C by long division, since TLC's
own integers have 32 bits). The table's ids, ranges, defaults and registers are
tuples indexed by the parameter's id. A payload is what it encodes, or "short".

**`CommWorker`** has one action per slot of the worker, per signal of the
socket (external) and per event of the window. A handler may be entered in the
middle of another: `abort()` on a connected socket calls `onDisconnected`
before `connectToHost` goes on, which is why `OnDisconnected` is an operator
that takes what the handler has changed so far. Bytes are abstracted to the
connection they came from. `disconnectFromHost` is part of the worker's public
interface and is modelled, although no button of the present window calls it.

**`FrameParser`** is the byte parser, which the firmware and the host have in
the same form, at the end of an endless stream: the sender repeats one of
`Programs`, sequences of frames, serialised as `frame_build` does; `cur` is the
frame that is arriving and `offset` the next of its bytes. There is one
operator for each state of the parser, and `FeedByte` is one call. `TimedOut`
is `tcp_server_process` finding that the stream paused in the middle of a frame;
it is the one thing that puts a parser at the end of a TCP connection out of
step. `lost` counts the frames that went by undelivered. The checksum's start and its
step are constants, and `Running` is the checksum of each prefix of what it
covers; `FrameParserMC` instantiates it with the protocol's CRC16 and fixes
the senders.

**`PwmCapture`** is cycle-accurate: the conjuncts of `Clock` are the `always_ff`
blocks, and the level of the pin is free in every cycle. The history variables
(`since`, `high`, `span`) are what an observer of the filtered signal counts who
knows nothing of the machine's states.

**`RingBuffer`** is one of `DataProcessor`'s rings with its two threads.
`append` and `getRecent` are each split into the load of `m_writePos`, the copies
of single elements, in any order, and, for `append`, the release of
`m_writePos`. A sample is its number, so that the window a reader should get is
known.

**`BuckModel`** is what the solver promises: the reference model `BuckRef` of
`harness_solver.cpp`, one Euler step in the fixed point of the hardware. `Sample`
fixes switch and parameters, `Step` replaces the state; the clamp uses the supply
in use when the step ends.

**`BuckSolver`** is the pipeline, cycle by cycle: the conjuncts of `Clock` are the
`always_ff` blocks. It implements `BuckModel` (`ImplementsModel`), with the history
variable `sampled` for the inputs of the step under way. `Scale` and `CoefScale`
stand for the two formats, Q16.16 and Q8.24. Numbers are exact because no term
leaves its word while the parameters are those that `params.h` admits: currents
are at most 10.0, voltages at most 25.0, dt/L and dt/C below 128, provided that
dt/C, R_L and 1/R_load were not cut on the way into their registers, which is one
of the findings. Stages that hold no step are left out. The switch is closed while
the counter is below (duty * PERIOD) >> 16. `BuckSolverMC` gives the parameter sets
of the run.

**`DutyCrossing`** is the way of a measured duty cycle between the clocks:
stretcher, two synchroniser flip-flops, edge detector, sampled word, and the
solver's register. An edge of either clock is an action; their order is free
within the drift `MinFast` .. `MaxFast`, and a line that changes while it is sampled
is one of the two orders. Measurements, announced or not, are at least `MinGap`
apart. `GapAssumption` says how far that must be: 4 slow edges if every slow cycle
has two fast edges, otherwise 7; with less, TLC shows a word overtaken by the
next. The hardware's distance is a period of the PWM: 100 slow edges at 1 MHz, the
highest frequency `measured_freq` holds (`pwm_capture.sv:40`).

**`DacInterface`** is the serial interface, cycle by cycle, with the receiver that
`SpiMonitor` is in `harness_dac.cpp`. **`BuckHilTop`** joins it to what feeds it:
scaling, update divider and read-back, with the solver reduced to new outputs
every `STEP_DIV` cycles. `loaded` and `missed` are history variables.

**`DmaRing`** has the steps of the interrupt handler, of `dma_process` and of the
copy of the last buffer. The engine and the XAxiDma driver are external, two
queues of descriptors; the driver's bookkeeping is left out. `irq_enabled` is open,
because the interrupt controller is set up through an object that nothing has
initialised. `merged` is a history variable. **`MainLoop`** extends it with the
millisecond counter, modulo `Word`, which `TtcIsr` advances at any moment, with
`now`, the lwIP timer, the heartbeat and the software watchdog. `lag`, `tmr_age`,
`beat_age` and `quiet` are history variables.

## 3. The runs

| run | shows | bounds |
|---|---|---|
| `tcp_server` | the properties of the TCP server | two connections (overlapping, or one after the other), rings of 3 slots (2 entries, so that they fill), 2 heap blocks (so that malloc fails), 3 commands, 1 unasked frame |
| `capture` | the properties of the capture | ring of 5 (not a power of two), 2 pre-trigger, 3 captured, 11 samples: the pointers wrap and a second capture follows |
| `axi_regs` | the properties of the register file | CTRL, TRIG_ARM, TRIG_STATUS and an unmapped address, 3 writes: bit 2 can rise, fall and rise; unbounded reads and stalls |
| `frame_parser` | the properties of the parser | five senders: short and empty frames, half headers and headers in payloads, a false frame that is longer than the buffer (8 bytes here); 2 time-outs at any byte: one puts the parser out of step, one interrupts what follows |
| `pwm_capture` | the properties of the measurement | time-out of 5 cycles, 5 measurements: periods from the shortest the filter passes to one longer than the time-out; every waveform |
| `ring_buffer` | the property of the ring | 5 slots, blocks of up to 3, windows of 3, 16 samples: three rounds, a window can be lapped |
| `params` | the properties of the commands, mirror and registers | parameters L, VIN and R_L, an unknown id and the version's id; values inside, outside and, for R_L, beyond 16 bits; batches of up to 2: repeated ids, first or second entry bad |
| `comm_worker` | the properties of the worker | 4 requests of the user, 3 connections: losses, a flush, a reconnection and a user's reconnection in one behaviour; attempts and failures unbounded |
| `solver` | the solver implements the model; the share of the switch | period of 20 cycles, a step every 5; duty cycles 0, 1/4, 3/4 and 1; three sets of parameters; 2 fractional bits, 1 for the coefficients |
| `duty_crossing` | the property of the crossing | 3 to 5 fast edges for a slow one, a drift of a quarter against the nominal 4; measurements 5 slow cycles apart, where the hardware's are at least 100 apart (1 MHz) |
| `dac_path` | the properties of the path to the DAC | frames of 2 bits, a step of 3 cycles, dividers 1 and 5 that change at any time: strobes in either frame, in the gaps and when idle |
| `main_loop` | the properties of the DMA ring and the timers | 3 descriptors, a counter of 8 values that wraps several times, intervals 2 and 3, time-out 4, passes of up to 2 ms, 1 command a pass |

`axi_regs` covers the slave's one way to hang, data that comes with its address:
`WritesAnswered` excepts it by name (`Swallowed`), and the other properties hold
through it. `LosesOnlyInterrupted` and `Resynchronises` are stated for senders
whose frames hold a header only where they begin: with headers in the payload a
parser that lost step can stay out of it for as long as the sender repeats the
frame. `WindowExact` is stated for readers that are not lapped: the ring has no
means to detect that, its size prevents it.

Disagreements between the code and its comments are in `PROJECT.json` under
`findings`, with the lines of both. Several properties keep clear of them by name:
`FramesInOrder` is conditional on `overlapped`, because with an older pcb still
alive the server really does mix up their acknowledgements; `TimeoutMeansSilence`
speaks of passes that served no command; `ReadBackIsSent` of strobes that were
taken; `BacklogExact` counts the captures that stay in the ring for good; and
`CrossesIntact` states the lag the solver really has.

*Fairness.* The main loop of the firmware polls and never blocks: weak fairness
of `TcpServer`'s action `MainLoop`. lwIP retransmits and gives up, so that every outstanding frame is
acknowledged or its pcb reported in error. The clocks of the FPGA run. The DMA
engine and the AXI master accept data again and again. Qt's event loop delivers
posted events and runs expired timers. A sender of frames does not fall silent
for good. Nothing is assumed of clients, users or the network. The main loop's
timers and the DMA ring have safety properties only: that a pass takes at most
`MaxPass` ms is a bound in the guard of `TtcIsr`, for which the hardware watchdog
(`WDT_TIMEOUT_MS`) is the code's own reason.

*Deadlock* is checked in the firmware's and the FPGA's runs. It is switched off
for `CommWorker`, where a user may be done and the socket idle.

## 4. What is proved

Every safety property that a run checks is also a theorem, one of them
(`DeliveredAsSent`) under a condition that its theorem names. The theorems hold for all values of the constants that the
ASSUMEs of the modules admit. Few are inductive as they stand: nearly every one
rests on an invariant that says more.

**`TcpServer_proofs`**, for every ring size above 1, every set of connections
and every heap. `Inv` is the type invariant with three properties and what they
need of each other:

* `TypeCorrect`: `Spec => []TypeOK`;
* `PayloadsOwned`: `Spec => []HeapExact`, by the arithmetic of the occupied
  slots of a ring (`OccupiedPush`, `OccupiedPop`);
* `ClientNeverDangles`: `Spec => []ClientIsLive`;
* `LatchHasWitness`: `Spec => []BusyHasWitness`, because `client_pcb` is open
  whenever something is written.

On it rest the two orders:

* `FramesKeepOrder`: `Spec => FramesInOrder`. `OrderInv` says that, unless two
  pcbs have been alive at once, the transmit ring holds frames in the order they
  were built (`Ascending`), that its tail is what was written last or comes
  after it (`TailFollows`), and that the one frame outstanding is the one the
  latch stands for (`OneOutstanding`): an acknowledgement then moves the tail
  past that frame and no other.
* `RingIsFifo`: `Spec => CommandsInOrder`, the refinement of `CommandFifo`. Under the
  mapping (`Pending`: the slots from tail to head) a callback that finds room is a
  `Put` (`RecvPuts`), `tcp_server_dequeue` is a `Take` (`DequeueTakes`), and
  everything else, a full ring included, stutters.

Each action has its lemma, and `TxDoSend`, which five actions end in, has its
effects stated once (`TxDoSendEffect`, `TxDoSendOrders`).

**`Params_proofs`**, for every set of ids and values and every length of batch:

* `TypeCorrect`: the mirror stays within its ranges and every word the firmware
  computes fits its register (`Spec => []TypeOK`);
* `RegistersFollowMirror`: `Spec => []RegsMirror`;
* `RefusalsAreVoid`: `Spec => ErrorChangesNothing`;
* `AnswersAreCurrent`: `Spec => []AnswersTheMirror`;
* `BatchesEndAsAnswered`: `Spec => []BatchOutcome`.

`RegsMirror` is inductive only together with the types: an accepted value must
have a word and a register (`RegisterWordType`, `RegisterFacts`). A write is
either a parameter's own (`WriteParameter`) or one that misses the registers the
invariant speaks of (`WriteElsewhere`); that the control offsets do miss them,
because they fold onto VIN, C and R_LOAD, is `OtherOffsets`, and `BootHolds`
follows the writes of the start-up one by one. `BatchOutcome` speaks only of
batches that are over; `BatchInv` says of one under way that its entries so far
were good and are written, and that `pending` is the rest of the request.

**`HostLink_proofs`**, the two components of the host's end:

* `BufferNeverOverrun`: for every stream, checksum and buffer size the parser's
  index stays within the announced length and the buffer
  (`Spec => []IndexInBounds`);
* `InterruptedIsAllThatIsLost` (`Spec => []LosesOnlyInterrupted`) and
  `DeliveredFramesAreSent` (`DeliveredAsSent` unless a time-out has interrupted a
  sender whose payloads hold headers), for every sender, checksum, buffer size
  and number of time-outs. `StepInv` says that the parser is either in step, and
  `InStep` says for each state where in the frame it is, what it has copied, and
  that `crc_local` is the checksum of what it has read (`Running`); or that it looks
  for a header inside the frame that was interrupted (`OutOfStep`), which is not
  yet counted as lost and, if frames are `Clean`, holds none. `Layout` says which
  byte of a frame is at which place (`SentBytes`). That the recursive function
  `Running` satisfies its equation needs an induction over the length
  (`RunningIs`). The library's induction theorems take an operator; this one goes
  by a least counterexample, `SmallestExists`, which takes a set;
* `FramesStayWhole`: `CommSpec => []FramesOfOneConnection`, because the parser
  holds bytes of the connection that is up and of no other (`ParserInv`);
* `UserHasTheSay`: `CommSpec => UserDecides`. Once a host is known, the flag
  `m_intentionalDisconnect` is the negation of the user's last wish, and the timer
  runs only when a host is known (`WishInv`);
* `ButtonsFollow`: `CommSpec => []UiAgrees`. `UiAgrees` speaks of a window that has
  handled everything; `UiInv` says what it will have been told by the events
  still queued: the last that is not an error agrees with the socket.

**`Measurement_proofs`**, the way of the duty cycle. For every time-out and
every waveform `MeasuredExactly` (`Spec => []MeasuresTheSignal`), `EdgesAreSeen`
(`[]NoEdgeMissed`) and `LossIsTimely` (`[]LossReported`); the inductive invariant
relates the filter's shift register to the machine's state (`FilterInv`: an edge
cannot follow another within the three cycles in which nobody looks), the
counters to the observer's (`StateInv`) and the two time-outs to the silence
(`LossInv`). `AnnouncedWordsCross` (`CrossingSpec => []CrossesIntact`) holds for all
clocks with at most 5 fast edges for a slow one, the length of the stretched
pulse, and every distance of measurements that `GapAssumption` admits.
`CrossingInv` distinguishes four stages of a crossing (`Waiting`, `Arriving`,
`Sampling`, `Crossed`), and in each bounds the edges of either clock since the
announcement: the pulse is long enough to be sampled, and over, synchroniser
included, before the next one.

**`AxiPorts_proofs`**, the two AXI interfaces of the FPGA. For every set of
addresses and words `ResponsesAreTrue` (`Spec => []ResponseMeansWritten`),
`ReadsAreAtomic` (`[]ReadIsAtomic`) and `PulsesMatchRaises` (`[]OnePulsePerRaise`);
`WriteInv` and `ReadInv` say where the master is for each state of the slave,
and that the latched address is the master's; each state of the write channel
has its lemma. For every depth of the ring, pre-trigger length below it and
capture size between 2 and the depth:

* `SenderReadsTheCapture`: `CaptureSpec => []ReadsTheCapture`. `Place(p, n)` says
  that sample `n` has its place at `p` in some lap of the ring; every pointer is
  at the place of its sample (`RingInv`, `TriggerInv`, `StreamInv`), moving on
  keeps it there (`NextPlace`), the subtraction of the pre-trigger as well
  (`PreTriggerPlace`), and samples less than a lap apart have different places
  (`PlacesApart`);
* `TransfersAreWhole`: `CaptureSpec => []TransferLength`;
* `TriggersAreSent`: `CaptureSpec => []IdleMissesNothing`, because a trigger machine
  that enters `T_CAPTURING` comes with `cap_count = 0`.

**`AnalogPath_proofs`**, from the switch to the DAC:

* `PipelineImplementsModel` (`Spec => ImplementsModel`), the refinement of
  `BuckModel`, and `SwitchFollowsDuty` (`Spec => []OnTimeMatchesDuty`), for every
  scaling, set of parameters and duty cycles, every period and every step
  divider between 4 and 16 that divides it. That the divider is at least 4, the
  depth of the pipeline, is the assumption on which the first rests:
  `StepsInFlight` says which single stage holds the step at each count of the
  divider, that the stage holds what the equations make of the sampled inputs,
  and that the state has not changed since. The second relates the number of
  closed steps to the counter (`SwitchInv`).
* `FramesArriveIntact` (`TopSpec => []FramesIntact`) and `ReadBackIsTrue`
  (`TopSpec => []ReadBackIsSent`), for every clock divider, code width, range and
  rate of updates. `DacInv` cuts a transmission at each clock edge (`Sending`):
  in cycle `r` of bit `k` the register has been shifted `k` or `k + 1` times, the
  receiver has `k` or `k + 1` bits, and which of the two follows from `r` alone.
  The quotient of the cycle counter is an existential in it, since the provers
  know of division only that quotient and rest are unique (`Remainder`, `Phase`).

**`RingBuffer_proofs`** proves `ReadersGetTheWindow` (`Spec => []WindowExact`) for
every capacity, window and block length. The inductive invariant (`Kept`) says
that a sample, once copied in, stays in slot `n % Capacity` until a block that is a
round later begins; it rests on the arithmetic of slots (`SlotsDiffer`,
`WrapIsSlot`).

**`MainLoop_proofs`** proves `CapturesAccountedFor` (`Spec => []BacklogExact`) and
`CopiesAreUndisturbed` (`[]CopyIsUndisturbed`) for every number of descriptors
above 1, and `ReportsAreGenuine` (`[]TimeoutMeansSilence`) and `PeriodsKept`
(`Spec => TimersKeepPeriod`) for every width of the counter, interval and time-out
that the assumptions admit: a pass is shorter than the heartbeat's interval and
the time-out, and both, with a pass or two, fit the counter. `RingInv` keeps
the descriptors of the ring in the cyclic order of the buffers, of which `g_bd_idx`
is the boundary: without it nothing is known of the buffer the engine fills
next. `TimerInv` says that each stamp is its age before the counter, modulo
`Word`; the properties follow from the arithmetic of differences modulo `Word`.

*Only model-checked.* What `DeliveredAsSent` says of a parser that lost step and of
payloads that hold headers. It is not true of every checksum: such a parser takes
a false frame for a true one if the checksum happens to agree, and that CRC16 does
not agree on the senders of the run is a computation over their bytes. And all
liveness, which needs fairness and `ENABLED`: `CommandsServed`, `FramesLeave`,
`TransferEnds`, `WritesAnswered`, `LossIsRetried`, `Resynchronises` and
`UpdateCompletes`.

A few modules prefix `Init`, `Next` and `Spec` with a name of their own (`CommSpec`,
`CaptureSpec`, `CrossingSpec`, `TopSpec`), because a proof module extends two
components.

Each run is `tlc -config <cfg> <module>`; each proof module is checked by
`tlapm <module>.tla`.

## 5. Plan, and what is not modelled

Next: the trigger data on their way through `DataProcessor`, once the firmware
sends what it captured.

Not modelled, and why: the set-up of the BSP in `platform.c` (register writes with
no state the rest depends on) and its failures in `dma_init`; `dma_reset` and the
DMA watchdog, which the program cannot reach; the event ring of `logger.c`, which
nothing reads; reset synchronisers, status bits and LEDs of `buck_hil_top.sv`; the
widgets, plots and unit conversions of the host; the stimuli of the test benches;
build scripts.
