---------------------------- MODULE MCModbusMaster ----------------------------
(***************************************************************************)
(* ModbusMaster for TLC.  The first call is any of the client's calls, the *)
(* later ones read or write one register: their answers have the same      *)
(* shape as late answers to the calls before.                              *)
(***************************************************************************)
EXTENDS ModbusMaster

Both == {"LINK", "PROTOCOL"}
MCModes == {<<"RTU", Both>>, <<"RTU", {"LINK"}>>, <<"TCP", Both>>, <<"TCP", {}>>}
TcpPlain == {<<"TCP", {}>>}
RtuBoth == {<<"RTU", Both>>}

\* Every client call once, and one that asks for too much.
Kinds == {modbus_read_bits(1, 9), modbus_read_input_bits(1, 8),
          modbus_read_registers(1, 1), modbus_read_input_registers(1, 1),
          modbus_write_bit(1, TRUE), modbus_write_register(1, 2),
          modbus_write_bits(1, 9), modbus_write_registers(1, 2),
          modbus_mask_write_register(1, 255),
          modbus_write_and_read_registers(1, 1), modbus_report_slave_id,
          modbus_read_registers(1, 126)}

MCCalls == <<Kinds, {modbus_read_registers(2, 1)},
             {modbus_read_registers(1, 1), modbus_write_register(1, 2)}>>

\* Four calls that only differ in the register they name.
Reads == {modbus_read_registers(1, 1), modbus_read_registers(2, 1)}
FourReads == <<Reads, Reads \cup {modbus_write_register(1, 2)}, Reads, Reads>>
=============================================================================
