---------------------------- MODULE MCModbusSlave ----------------------------
(***************************************************************************)
(* ModbusSlave for TLC: slaves 1 and 2, tables of a few entries.  The      *)
(* first request is of every kind, the later ones write a register: their  *)
(* answers look like their requests.                                       *)
(***************************************************************************)
EXTENDS ModbusSlave

TwoSlaves == {1, 2}
FromZero == modbus_mapping_new_start_address(<<0, 10>>, <<0, 10>>, <<0, 3>>, <<0, 3>>)
FromOne == modbus_mapping_new_start_address(<<1, 10>>, <<1, 10>>, <<1, 3>>, <<1, 3>>)

WriteRegister(a, v) == <<6, 0, a, 0, v>>
ReadRegisters(a, nb) == <<3, 0, a, 0, nb>>
WriteAndRead(w) == <<23, 0, 1, 0, 1, 0, w, 0, 1, 2, 0, 7>>

Kinds == {<<1, 0, 0, 0, 9>>, <<2, 0, 1, 0, 8>>,
          ReadRegisters(0, 2), <<4, 0, 2, 0, 2>>,
          <<5, 0, 1, 255, 0>>, <<5, 0, 1, 255, 1>>, <<5, 0, 10, 0, 0>>,
          WriteRegister(2, 5), WriteRegister(3, 5),
          <<15, 0, 1, 0, 9, 2, 255, 1>>, <<15, 0, 8, 0, 9, 2, 255, 1>>,
          <<16, 0, 1, 0, 2, 4, 0, 8, 0, 9>>, <<16, 0, 2, 0, 2, 4, 0, 8, 0, 9>>,
          <<17>>, <<22, 0, 1, 0, 255, 18, 52>>, <<22, 0, 3, 0, 255, 18, 52>>,
          WriteAndRead(2), WriteAndRead(3)}
\* Refused, or not answered, after a while.
Late == {<<7>>, <<8>>, <<1, 0, 0, 0, 0>>, <<15, 0, 0, 0, 0, 0>>,
         <<23, 0, 1, 0, 1, 0, 0, 0, 1, 4, 0, 7, 0, 8>>}

MCRequests ==
    <<{1} \X (Kinds \cup Late) \cup {0} \X {WriteRegister(2, 5), <<8>>},
      {<<2, WriteRegister(0, 1)>>, <<1, <<8>> >>},
      {<<2, WriteRegister(0, 2)>>}>>

\* Registers 1 to 3 only, and a write to register 0.
BeforeTheTable == << {<<1, WriteAndRead(0)>>} >>

\* A request for slave 1, then one for slave 2.
TwoRequests == << {1} \X {ReadRegisters(0, 1), <<3, 0, 0, 0, 0>>},
                 {<<2, WriteRegister(0, 1)>>} >>
=============================================================================
