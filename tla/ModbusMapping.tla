---------------------------- MODULE ModbusMapping ----------------------------
(***************************************************************************)
(* The tables of a libmodbus server and modbus_reply on them (modbus.c):   *)
(* what each function code checks, reads, writes and answers.  A request   *)
(* is the sequence of its values from the function code on, without the    *)
(* checksum.                                                               *)
(*                                                                         *)
(* A table is a function on the offsets it was allocated with.  A store    *)
(* outside of it adds an offset to its domain: the memory next to it.      *)
(***************************************************************************)
EXTENDS ModbusFrames

MODBUS_MAX_READ_BITS == 2000
MODBUS_MAX_WRITE_BITS == 1968
MODBUS_MAX_READ_REGISTERS == 125
MODBUS_MAX_WRITE_REGISTERS == 123
MODBUS_MAX_WR_WRITE_REGISTERS == 121

Table(start, nb) == [start |-> start, nb |-> nb, tab |-> [a \in 0..(nb - 1) |-> 0]]

\* Each table is given by its first address and its number of entries.
modbus_mapping_new_start_address(bits, input_bits, registers, input_registers) ==
    [bits |-> Table(bits[1], bits[2]),
     input_bits |-> Table(input_bits[1], input_bits[2]),
     registers |-> Table(registers[1], registers[2]),
     input_registers |-> Table(input_registers[1], input_registers[2])]

\* Offsets a, a+1, ... get the values vs.
Store(t, a, vs) ==
    LET at == a..(a + Len(vs) - 1)
    IN  [start |-> t.start, nb |-> t.nb,
         tab |-> [k \in DOMAIN t.tab \cup at |->
                     IF k \in at THEN vs[k - a + 1] ELSE t.tab[k]]]

\* The tables of m with t for the one of that name.
WithBits(m, t) ==
    [bits |-> t, input_bits |-> m.input_bits,
     registers |-> m.registers, input_registers |-> m.input_registers]
WithRegisters(m, t) ==
    [bits |-> m.bits, input_bits |-> m.input_bits,
     registers |-> t, input_registers |-> m.input_registers]

-----------------------------------------------------------------------------
(* Requests and answers.                                                   *)

word(q, i) == 256 * q[i] + q[i + 1]
address(q) == word(q, 2)
words(q, first, nb) == [i \in 1..nb |-> word(q, first + 2 * (i - 1))]

\* The registers at offset a and behind it, high bytes first.
RegisterBytes(t, a, nb) ==
    [i \in 1..(2 * nb) |->
        IF i % 2 = 1 THEN Hi(t.tab[a + i \div 2]) ELSE Lo(t.tab[a + i \div 2 - 1])]

\* Bit k of a byte or a register, and the byte that eight bits make.
Bit(w, k) == (w \div 2^k) % 2
Octet(b) == b[0] + 2 * b[1] + 4 * b[2] + 8 * b[3] + 16 * b[4] + 32 * b[5] + 64 * b[6] + 128 * b[7]

\* Eight bits to a byte, the first one lowest.
response_io_status(t, a, nb) ==
    [i \in 1..BytesOfBits(nb) |->
        Octet([k \in 0..7 |-> IF 8 * (i - 1) + k < nb THEN t.tab[a + 8 * (i - 1) + k] ELSE 0])]

modbus_set_bits_from_bytes(t, a, nb, bytes) ==
    Store(t, a, [i \in 1..nb |-> Bit(bytes[(i - 1) \div 8 + 1], (i - 1) % 8)])

\* What modbus_reply leaves behind: the tables, the answer, and whether it
\* sleeps and flushes before it answers.
Answers(m, pdu) == [map |-> m, pdu |-> pdu, to_flush |-> FALSE]
response_exception(m, q, code, to_flush) ==
    [map |-> m, pdu |-> <<q[1] + 128, code>>, to_flush |-> to_flush]

IllegalFunction(m, q) == response_exception(m, q, 1, TRUE)
IllegalAddress(m, q) == response_exception(m, q, 2, FALSE)
IllegalCount(m, q) == response_exception(m, q, 3, TRUE)
IllegalValue(m, q) == response_exception(m, q, 3, FALSE)

Outside(t, a, nb) == a < 0 \/ a + nb > t.nb

-----------------------------------------------------------------------------
(* One operator per case of modbus_reply.                                  *)

reply_read_bits(m, q) ==
    LET t == IF q[1] = 2 THEN m.input_bits ELSE m.bits
        nb == word(q, 4)
        a == address(q) - t.start
    IN  IF nb < 1 \/ nb > MODBUS_MAX_READ_BITS THEN IllegalCount(m, q)
        ELSE IF Outside(t, a, nb) THEN IllegalAddress(m, q)
        ELSE Answers(m, <<q[1], BytesOfBits(nb)>> \o response_io_status(t, a, nb))

reply_read_registers(m, q) ==
    LET t == IF q[1] = 4 THEN m.input_registers ELSE m.registers
        nb == word(q, 4)
        a == address(q) - t.start
    IN  IF nb < 1 \/ nb > MODBUS_MAX_READ_REGISTERS THEN IllegalCount(m, q)
        ELSE IF Outside(t, a, nb) THEN IllegalAddress(m, q)
        ELSE Answers(m, <<q[1], 2 * nb>> \o RegisterBytes(t, a, nb))

reply_write_bit(m, q) ==
    LET a == address(q) - m.bits.start
        data == word(q, 4)
    IN  IF Outside(m.bits, a, 1) THEN IllegalAddress(m, q)
        ELSE IF data \notin {65280, 0} THEN IllegalValue(m, q)
        ELSE Answers(WithBits(m, Store(m.bits, a, <<IF data = 0 THEN 0 ELSE 1>>)), q)

reply_write_register_unchecked(m, q) ==
    LET a == address(q) - m.registers.start
    IN  IF a < 0 \/ a > m.registers.nb THEN IllegalAddress(m, q)
        ELSE Answers(WithRegisters(m, Store(m.registers, a, <<word(q, 4)>>)), q)

reply_write_register(m, q) ==
    LET a == address(q) - m.registers.start
    IN  IF Outside(m.registers, a, 1) THEN IllegalAddress(m, q)
        ELSE Answers(WithRegisters(m, Store(m.registers, a, <<word(q, 4)>>)), q)

reply_write_bits(m, q) ==
    LET nb == word(q, 4)
        a == address(q) - m.bits.start
    IN  IF nb < 1 \/ nb > MODBUS_MAX_WRITE_BITS THEN IllegalCount(m, q)
        ELSE IF Outside(m.bits, a, nb) THEN IllegalAddress(m, q)
        ELSE Answers(WithBits(m, modbus_set_bits_from_bytes(m.bits, a, nb, SubSeq(q, 7, Len(q)))),
                     SubSeq(q, 1, 5))

reply_write_registers(m, q) ==
    LET nb == word(q, 4)
        a == address(q) - m.registers.start
    IN  IF nb < 1 \/ nb > MODBUS_MAX_WRITE_REGISTERS THEN IllegalCount(m, q)
        ELSE IF Outside(m.registers, a, nb) THEN IllegalAddress(m, q)
        ELSE Answers(WithRegisters(m, Store(m.registers, a, words(q, 7, nb))), SubSeq(q, 1, 5))

reply_report_slave_id(m, q) == Answers(m, <<17, 2, 180, 255>>)

\* (data & and) | (or & ~and), in sixteen bits: a bit of and chooses.
Masked(data, and, or) ==
    LET bit(k) == Bit(IF Bit(and, k) = 1 THEN data ELSE or, k)
    IN  256 * Octet([k \in 0..7 |-> bit(k + 8)]) + Octet([k \in 0..7 |-> bit(k)])

reply_mask_write_register(m, q) ==
    LET a == address(q) - m.registers.start
        data == m.registers.tab[a]
    IN  IF Outside(m.registers, a, 1) THEN IllegalAddress(m, q)
        ELSE Answers(WithRegisters(m, Store(m.registers, a, <<Masked(data, word(q, 4), word(q, 6))>>)), q)

\* The read address is checked twice against the start of the table, the
\* write address only against its end.
reply_write_and_read_registers(m, q) ==
    LET nb == word(q, 4)
        nb_write == word(q, 8)
        a == address(q) - m.registers.start
        w == word(q, 6) - m.registers.start
        written == Store(m.registers, w, words(q, 11, nb_write))
    IN  IF \/ nb_write < 1 \/ nb_write > MODBUS_MAX_WR_WRITE_REGISTERS
           \/ nb < 1 \/ nb > MODBUS_MAX_READ_REGISTERS
           \/ q[10] # 2 * nb_write
          THEN IllegalCount(m, q)
        ELSE IF Outside(m.registers, a, nb) \/ w + nb_write > m.registers.nb
          THEN IllegalAddress(m, q)
        ELSE Answers(WithRegisters(m, written),
                     <<q[1], 2 * nb>> \o RegisterBytes(written, a, nb))

\* Read exception status is not implemented: modbus_reply fails, no answer.
Unanswered == 7

modbus_reply(m, q) ==
    CASE q[1] \in BitReads -> reply_read_bits(m, q)
      [] q[1] \in {3, 4} -> reply_read_registers(m, q)
      [] q[1] = 5 -> reply_write_bit(m, q)
      [] q[1] = 6 -> reply_write_register(m, q)
      [] q[1] = 15 -> reply_write_bits(m, q)
      [] q[1] = 16 -> reply_write_registers(m, q)
      [] q[1] = 17 -> reply_report_slave_id(m, q)
      [] q[1] = 22 -> reply_mask_write_register(m, q)
      [] q[1] = 23 -> reply_write_and_read_registers(m, q)
      [] OTHER -> IllegalFunction(m, q)
=============================================================================
