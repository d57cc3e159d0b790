\* A buffer smaller than what two length bytes can say; two time-outs, the
\* second of which may come while the parser is still out of step.
SPECIFICATION Spec
CONSTANTS
    MAX_PAYLOAD = 8
    MaxTimeouts = 2
    crc16_init <- CRC16_INIT
    crc16_update <- Crc16Update
    Programs <- Senders
INVARIANTS
    DeliveredAsSent
    LosesOnlyInterrupted
PROPERTIES
    Resynchronises
