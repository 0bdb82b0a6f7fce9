----------------------------- MODULE ModbusFrames -----------------------------
(***************************************************************************)
(* Bytes of Modbus messages, and how libmodbus finds the end of a message  *)
(* from the bytes it has read (modbus.c, modbus-rtu.c): shared by the      *)
(* master (ModbusMaster) and the slaves (ModbusSlave).                     *)
(***************************************************************************)
EXTENDS Integers, Sequences, FiniteSets

uint8_t == 0..255
uint16_t == {n \in Nat : n <= 65535}

\* A byte: its value, and for the bytes of a checksum what they are the
\* checksum of (a CRC is taken to tell any two messages apart).
Byte(v) == [v |-> v, crc |-> <<>>]
Bytes(vs) == [i \in 1..Len(vs) |-> Byte(vs[i])]
Values(bs) == [i \in 1..Len(bs) |-> bs[i].v]
crc16(vs) == <<[v |-> 201, crc |-> vs], [v |-> 2, crc |-> vs]>>
ByteSeq == Seq([v : uint8_t, crc : Seq(uint8_t)])

\* The message ends with the CRC of what is before.
crc_matches(msg) ==
    LET n == Len(msg)
    IN  SubSeq(msg, n - 1, n) = crc16(Values(SubSeq(msg, 1, n - 2)))

Hi(n) == n \div 256
Lo(n) == n % 256

BitReads == {1, 2}
RegisterReads == {3, 4, 23}
MultipleWrites == {15, 16}
SingleWrites == {5, 6}

BytesOfBits(nb) == (nb \div 8) + (IF nb % 8 = 0 THEN 0 ELSE 1)

\* The bytes to read behind the function code, by the kind of message.
compute_meta_length_after_function(function, msg_type) ==
    IF msg_type = "INDICATION"
      THEN CASE function <= 6 -> 4
             [] function \in MultipleWrites -> 5
             [] function = 22 -> 6
             [] function = 23 -> 9
             [] OTHER -> 0
      ELSE CASE function \in SingleWrites \cup MultipleWrites -> 4
             [] function = 22 -> 6
             [] OTHER -> 1

\* The bytes to read behind those, pdu being the values from the function
\* code on: the announced data and the checksum.
compute_data_length_after_meta(pdu, msg_type, checksum_length) ==
    checksum_length +
      IF msg_type = "INDICATION"
        THEN CASE pdu[1] \in MultipleWrites -> pdu[6]
               [] pdu[1] = 23 -> pdu[10]
               [] OTHER -> 0
        ELSE IF pdu[1] <= 4 \/ pdu[1] \in {17, 23} THEN pdu[2] ELSE 0
=============================================================================
