---- MODULE FrameParser ----
(***************************************************************************)
(* The byte parser of the protocol, which the firmware (ps/src/protocol.c) *)
(* and the host (host/src/FrameParser.cpp) have in the same form, at the   *)
(* end of an endless stream.  The sender repeats its frames; TCP loses and *)
(* reorders nothing, so all that can put the parser out of step is its own *)
(* time-out (tcp_server_process) in the middle of a frame.  The host's     *)
(* parser has no time-out: MaxTimeouts = 0.                                *)
(*                                                                         *)
(* Bytes are numbers.  The checksum is any function of the bytes before    *)
(* it; the frame statistics, which nothing reads, are left out.            *)
(***************************************************************************)
EXTENDS Integers, Sequences

CONSTANTS
    MAX_PAYLOAD,
    Programs,           \* sequences of frames that a sender may repeat
    crc16_init,
    crc16_update(_, _),
    MaxTimeouts         \* bound: time-outs in a behaviour

Byte == {n \in Nat : n < 256}
Word16 == {n \in Nat : n < 65536}
HEAD1 == 170
HEAD2 == 85
TAIL == 85

ASSUME ProgramAssumption ==
    \A p \in Programs :
        /\ p \in Seq([cmd : Byte, payload : Seq(Byte)]) /\ p # <<>>
        /\ \A i \in DOMAIN p : Len(p[i].payload) <= MAX_PAYLOAD
ASSUME BoundAssumption ==
    MAX_PAYLOAD \in Word16 /\ MaxTimeouts \in Nat

VARIABLES
    program,            \* what the sender repeats
    cur, offset,        \* the frame of it that is arriving, and its next byte
    state, cmd, len, payload_idx, payload, crc_local, crc_received,
    frame,              \* the frame the last byte completed, or NoFrame
    timeouts,
    lost                \* history: frames that went by undelivered, up to MaxTimeouts + 1

parser == <<state, cmd, len, payload_idx, payload, crc_local, crc_received>>
source == <<program, cur, offset>>
vars == <<source, parser, frame, timeouts, lost>>

NoFrame == <<>>

Hi(n) == n \div 256
Lo(n) == n % 256

\* crc16_block: the checksum of the first k bytes.
Running(bytes) ==
    LET crc[k \in 0 .. Len(bytes)] ==
            IF k = 0 THEN crc16_init ELSE crc16_update(crc[k - 1], bytes[k])
    IN crc

\* What the checksum covers.
Body(f) == <<HEAD2, f.cmd, Hi(Len(f.payload)), Lo(Len(f.payload))>> \o f.payload

Checksum(f) == Running(Body(f))[Len(Body(f))]

\* Frame::serialize and frame_build.
Serialize(f) == <<HEAD1>> \o Body(f) \o <<Hi(Checksum(f)), Lo(Checksum(f)), TAIL>>

\* The checksum has 16 bits.
ASSUME ChecksumAssumption ==
    \A p \in Programs : \A i \in DOMAIN p : Checksum(p[i]) \in Word16

\* The frames of each program as they are sent.
Sent == [p \in Programs |-> [i \in DOMAIN p |-> Serialize(p[i])]]

byte == Sent[program][cur][offset]
Ends == offset = Len(Sent[program][cur])

Init ==
    /\ program \in Programs /\ cur = 1 /\ offset = 1
    /\ state = "SYNC1" /\ cmd = 0 /\ len = 0 /\ payload_idx = 0 /\ payload = <<>>
    /\ crc_local = 0 /\ crc_received = 0
    /\ frame = NoFrame /\ timeouts = 0 /\ lost = 0

-----------------------------------------------------------------------------
(* frame_parse_byte, one operator for each state *)

Covered == crc_local' = crc16_update(crc_local, byte)

\* Mutant: any byte counts as HEAD1.
Sync1Any ==
    /\ state = "SYNC1" /\ state' = "SYNC2"
    /\ UNCHANGED <<cmd, len, payload_idx, payload, crc_local, crc_received>>

Sync1 ==
    /\ state = "SYNC1"
    /\ state' = IF byte = HEAD1 THEN "SYNC2" ELSE "SYNC1"
    /\ UNCHANGED <<cmd, len, payload_idx, payload, crc_local, crc_received>>

\* Mutant: the parser goes on waiting for HEAD2 after another byte.
Sync2Stays ==
    /\ state = "SYNC2"
    /\ IF byte = HEAD2
       THEN state' = "CMD" /\ crc_local' = crc16_update(crc16_init, byte)
       ELSE UNCHANGED <<state, crc_local>>
    /\ UNCHANGED <<cmd, len, payload_idx, payload, crc_received>>

Sync2 ==
    /\ state = "SYNC2"
    /\ IF byte = HEAD2
       THEN state' = "CMD" /\ crc_local' = crc16_update(crc16_init, byte)
       ELSE state' = "SYNC1" /\ UNCHANGED crc_local
    /\ UNCHANGED <<cmd, len, payload_idx, payload, crc_received>>

Cmd ==
    /\ state = "CMD"
    /\ state' = "LEN_H" /\ cmd' = byte /\ Covered
    /\ UNCHANGED <<len, payload_idx, payload, crc_received>>

LenH ==
    /\ state = "LEN_H"
    /\ state' = "LEN_L" /\ len' = 256 * byte /\ Covered
    /\ UNCHANGED <<cmd, payload_idx, payload, crc_received>>

LenL ==
    /\ state = "LEN_L"
    /\ len' = len + byte /\ Covered
    /\ IF len' > MAX_PAYLOAD
       THEN state' = "SYNC1" /\ UNCHANGED payload_idx
       ELSE /\ state' = IF len' = 0 THEN "CRC_H" ELSE "PAYLOAD"
            /\ payload_idx' = 0
    /\ UNCHANGED <<cmd, payload, crc_received>>

\* Only what was written of the buffer since the frame began is kept.
Payload ==
    /\ state = "PAYLOAD"
    /\ payload' = Append(SubSeq(payload, 1, payload_idx), byte)
    /\ payload_idx' = payload_idx + 1 /\ Covered
    /\ state' = IF payload_idx' >= len THEN "CRC_H" ELSE "PAYLOAD"
    /\ UNCHANGED <<cmd, len, crc_received>>

CrcH ==
    /\ state = "CRC_H"
    /\ state' = "CRC_L" /\ crc_received' = 256 * byte
    /\ UNCHANGED <<cmd, len, payload_idx, payload, crc_local>>

CrcL ==
    /\ state = "CRC_L"
    /\ state' = "TAIL" /\ crc_received' = crc_received + byte
    /\ UNCHANGED <<cmd, len, payload_idx, payload, crc_local>>

FrameEnd ==
    /\ state = "TAIL" /\ state' = "SYNC1"
    /\ UNCHANGED <<cmd, len, payload_idx, payload, crc_local, crc_received>>

Completes == state = "TAIL" /\ byte = TAIL /\ crc_local = crc_received

ParseByte == \/ Sync1 \/ Sync2 \/ Cmd \/ LenH \/ LenL \/ Payload \/ CrcH \/ CrcL \/ FrameEnd

-----------------------------------------------------------------------------
Received == [cmd |-> cmd, payload |-> SubSeq(payload, 1, len)]

\* One byte arrives; a complete frame goes to rx_queue_push or frameReady.
FeedByte ==
    /\ ParseByte
    /\ frame' = IF Completes THEN Received ELSE NoFrame
    /\ offset' = IF Ends THEN 1 ELSE offset + 1
    /\ cur' = IF ~Ends THEN cur ELSE IF cur = Len(program) THEN 1 ELSE cur + 1
    /\ lost' = IF Ends /\ ~Completes /\ lost <= MaxTimeouts THEN lost + 1 ELSE lost
    /\ UNCHANGED <<program, timeouts>>

\* Mutant: the time-out clears the fields and forgets the state.
TimedOutKeepsState ==
    /\ state # "SYNC1" /\ timeouts < MaxTimeouts
    /\ cmd' = 0 /\ len' = 0 /\ payload_idx' = 0 /\ crc_local' = 0 /\ crc_received' = 0
    /\ timeouts' = timeouts + 1 /\ frame' = NoFrame
    /\ UNCHANGED <<source, state, payload, lost>>

\* tcp_server_process finds that the stream paused for FRAME_TIMEOUT_MS in
\* the middle of a frame: frame_parser_init.
TimedOut ==
    /\ state # "SYNC1" /\ timeouts < MaxTimeouts
    /\ state' = "SYNC1" /\ cmd' = 0 /\ len' = 0 /\ payload_idx' = 0
    /\ crc_local' = 0 /\ crc_received' = 0
    /\ timeouts' = timeouts + 1 /\ frame' = NoFrame
    /\ UNCHANGED <<source, payload, lost>>

Next == FeedByte \/ TimedOut

\* The sender never falls silent for good.
Spec == Init /\ [][Next]_vars /\ WF_vars(FeedByte)

-----------------------------------------------------------------------------
(* Properties *)

\* The index stays within the payload the length announces, and that within
\* the buffer, wherever in the stream the parser believes a frame to begin.
IndexInBounds ==
    /\ state = "PAYLOAD" => payload_idx < len /\ len <= MAX_PAYLOAD
    /\ state \in {"CRC_H", "CRC_L", "TAIL"} => payload_idx = len
    /\ Len(payload) <= MAX_PAYLOAD

\* HEAD1 HEAD2 occurs in the stream where a frame begins and nowhere else; not
\* between two frames either, where TAIL comes before HEAD1.
Clean(p) ==
    \A i \in DOMAIN p : \A k \in 2 .. Len(Sent[p][i]) - 1 :
        ~(Sent[p][i][k] = HEAD1 /\ Sent[p][i][k + 1] = HEAD2)

\* A frame is delivered when its last byte arrives and as it was sent; bytes
\* in the middle of frames are never taken for a frame, even when they begin
\* like one.
DeliveredAsSent ==
    frame # NoFrame =>
        offset = 1 /\ frame = program[IF cur = 1 THEN Len(program) ELSE cur - 1]

\* In step, every frame is delivered; a time-out costs the frame it interrupts
\* and no other, unless payloads contain headers.
LosesOnlyInterrupted ==
    timeouts = 0 \/ Clean(program) => lost <= timeouts

\* After the last time-out frames are delivered again and again, unless
\* payloads contain headers.
Resynchronises ==
    Clean(program) => []<>(frame # NoFrame)
====
