---- MODULE FrameParserMC ----
(***************************************************************************)
(* FrameParser with the protocol's checksum and a few senders.             *)
(***************************************************************************)
EXTENDS FrameParser, Bitwise, SequencesExt

CRC16_INIT == 65535
CRC16_POLY == 4129      \* 0x1021

\* crc16_update shifts eight bits of the checksum out; what they leave behind
\* depends on nothing else.
Remainder == [b \in 0 .. 255 |->
    FoldLeft(LAMBDA crc, i : IF crc >= 32768 THEN ((2 * crc) % 65536) ^^ CRC16_POLY ELSE 2 * crc,
             256 * b, [i \in 1 .. 8 |-> i])]
Crc16Update(crc, b) == (256 * Lo(crc)) ^^ Remainder[Hi(crc) ^^ b]

F(c, p) == [cmd |-> c, payload |-> p]

\* A status request and a heartbeat; payloads with half a header; with a
\* header, its false frame of one byte or longer than the buffer.
Senders == {
    <<F(6, <<>>), F(254, <<13, 1>>)>>,
    <<F(1, <<170, 170, 86, 85>>), F(5, <<170>>)>>,
    <<F(3, <<170, 85, 1, 0, 1>>)>>,
    <<F(3, <<170, 85, 1, 1, 0>>), F(2, <<0, 1>>)>>,
    <<F(3, <<9, 170, 85, 2, 0, 3, 7, 7>>), F(6, <<>>)>> }
====
