---------------------------- MODULE ModbusReply ----------------------------
(***************************************************************************)
(* nb_modbus_reply of nb_modbus.c, with the SPI operations of armspi.c it  *)
(* calls: which board a request goes to, what the board is told to do and  *)
(* what the client is told happened.                                       *)
(*                                                                         *)
(* A value is abstracted to the number of the request that wrote it.  The  *)
(* contents of a board are its coils and its registers at the addresses    *)
(* Cells.  The length field of an SPI message has 8 bits.                  *)
(***************************************************************************)
EXTENDS Integers, Sequences

CONSTANTS Arms,          \* the boards that are present
          MaxArms,       \* MAX_ARMS, 3
          Span,          \* addresses per board when the unit is 0, 100
          Group,         \* the three groups of addresses, 1000
          FwBit,         \* the coil that asks for a firmware update, 1004
          ByteMod,       \* 2^8
          MaxReadBits,   \* MODBUS_MAX_READ_BITS, 2000
          MaxReadRegs,   \* MODBUS_MAX_READ_REGISTERS, 125
          MaxWriteBits,  \* MODBUS_MAX_WRITE_BITS, 1968
          MaxWriteRegs,  \* MODBUS_MAX_WRITE_REGISTERS, 123
          Cells,         \* addresses at which a board has something
          Units, Addresses, Counts,  \* what requests contain
          MaxReq,        \* bound: requests
          MaxFault       \* bound: SPI operations that fail

ASSUME ReplyAssumption ==
  /\ Arms \subseteq 1..MaxArms /\ MaxArms \in Nat
  /\ {Span, Group, ByteMod} \subseteq Nat \ {0}
  /\ {FwBit, MaxReadBits, MaxReadRegs, MaxWriteBits, MaxWriteRegs, MaxReq, MaxFault}
       \subseteq Nat
  /\ Cells \cup Units \cup Addresses \cup Counts \subseteq Nat
  /\ MaxReadRegs < ByteMod /\ MaxWriteRegs < ByteMod /\ FwBit \notin Cells

Kind == {"coil", "reg"}
Reads == {"read_coils", "read_registers"}
Writes == {"write_coils", "write_registers", "write_register"}
Function == Reads \cup Writes \cup {"write_coil", "report_slave_id", "unknown"}
KindOf(fc) == IF fc \in {"read_coils", "write_coils", "write_coil"} THEN "coil" ELSE "reg"

\* nb is the count, or the data of a single write (0 and 1: 0 and 0xFF00).
Request == [unit : Units, fc : Function, address : Addresses, nb : Counts]
Code == {"none", "ok", "bad_function", "bad_address", "bad_value", "failure", "bad_target"}

VARIABLES
  mem,       \* mem[arm][kind][address]: which request wrote it
  count,     \* number of the current request
  req,       \* the request that was answered last
  code,      \* how
  vals,      \* and with which values
  deferred,  \* deferred_arm while deferred_op is DFR_OP_FIRMWARE, else 0
  owed,      \* history: boards whose update was acknowledged and not begun
  faults

vars == <<mem, count, req, code, vals, deferred, owed, faults>>

Init ==
  /\ mem = [a \in Arms |-> [k \in Kind |-> [c \in Cells |-> 0]]]
  /\ count = 0 /\ code = "none" /\ vals = <<>>
  /\ req \in {CHOOSE r \in Request : TRUE}
  /\ deferred = 0 /\ owed = {} /\ faults = 0

-----------------------------------------------------------------------------
(* Unit 0 addresses all boards, each in its own range of every group.       *)

GroupOf(a) == a \div Group

SlaveOf(r) == IF r.unit # 0 THEN r.unit
              ELSE IF GroupOf(r.address) > 2 THEN 1
              ELSE ((r.address % Group) \div Span) + 1

\* Mutant: the range is not taken off the address.
AddressUnmapped(r) == r.address

AddressOf(r) == IF r.unit # 0 \/ GroupOf(r.address) > 2 THEN r.address
                ELSE ((r.address % Group) % Span) + (GroupOf(r.address) * Group)

-----------------------------------------------------------------------------
(* The board: it acts on the cells it has, from the address on.             *)

\* How many of n cells from address a on there are.
Available(a, n) ==
  CHOOSE j \in 0..n : /\ \A i \in 0..(j - 1) : a + i \in Cells
                      /\ j = n \/ a + j \notin Cells

Written(arm, k, a, n) ==
  [mem EXCEPT ![arm][k] = [c \in Cells |-> IF c \in a..(a + n - 1) THEN count + 1 ELSE @[c]]]

Values(arm, k, a, n) == [i \in 1..n |-> mem[arm][k][a + i - 1]]

-----------------------------------------------------------------------------
(* nb_modbus_reply.                                                         *)

Answer(r, c, v) == req' = r /\ code' = c /\ vals' = v /\ count' = count + 1

NoEffect == UNCHANGED <<mem, deferred, owed, faults>>

\* The limits of the protocol.
Limit(fc) == CASE fc = "read_coils" -> MaxReadBits
               [] fc = "read_registers" -> MaxReadRegs
               [] fc = "write_coils" -> MaxWriteBits
               [] OTHER -> MaxWriteRegs

\* How many values the request is about.
Nb(r) == IF r.fc \in {"write_register", "write_coil"} THEN 1 ELSE r.nb

BadTarget(r) == /\ SlaveOf(r) \notin Arms
                /\ Answer(r, "bad_target", <<>>) /\ NoEffect

BadFunction(r) == /\ SlaveOf(r) \in Arms /\ r.fc = "unknown"
                  /\ Answer(r, "bad_function", <<>>) /\ NoEffect

ReportSlaveId(r) == /\ SlaveOf(r) \in Arms /\ r.fc = "report_slave_id"
                    /\ Answer(r, "ok", <<>>) /\ NoEffect

BadValue(r) == /\ SlaveOf(r) \in Arms /\ r.fc \in Reads \cup Writes
               /\ Nb(r) \notin 1..Limit(r.fc)
               /\ Answer(r, "bad_value", <<>>) /\ NoEffect

\* The SPI operation fails: the ioctl does, or a CRC of the answer is wrong and
\* the board has acted all the same (w is its memory then).
Fails(r, w, c) ==
  /\ faults < MaxFault /\ faults' = faults + 1
  /\ mem' \in {mem, w}
  /\ Answer(r, c, <<>>)
  /\ UNCHANGED <<deferred, owed>>

\* How many of the nb values asked for the answer must hold: read_bits accepts
\* more, read_regs wants the exact number.  Mutant: any number will do.
EnoughAny(n, nb) == n > 0
Enough(n, nb) == n >= nb

\* read_bits, read_regs.  The count in the answer has 8 bits.
Read(r) ==
  LET arm == SlaveOf(r)
      v == Values(arm, KindOf(r.fc), AddressOf(r), Available(AddressOf(r), r.nb))
  IN
    /\ arm \in Arms /\ r.fc \in Reads /\ r.nb \in 1..Limit(r.fc)
    /\ \/ /\ IF Enough(Len(v) % ByteMod, r.nb) THEN Answer(r, "ok", v)
                                               ELSE Answer(r, "bad_address", <<>>)
          /\ NoEffect
       \/ Fails(r, mem, "bad_address")

\* write_bits, write_regs, and write_regs of one register.  The board is told
\* the 8 low bits of the count.
Write(r) ==
  LET arm == SlaveOf(r)
      n == Available(AddressOf(r), Nb(r) % ByteMod)
      w == Written(arm, KindOf(r.fc), AddressOf(r), n)
  IN
    /\ arm \in Arms /\ r.fc \in Writes /\ Nb(r) \in 1..Limit(r.fc)
    /\ \/ /\ mem' = w
          /\ Answer(r, IF Enough(n, Nb(r)) THEN "ok" ELSE "bad_address", <<>>)
          /\ UNCHANGED <<deferred, owed, faults>>
       \/ Fails(r, w, "bad_address")

\* The coil that stands for a firmware update: remembered for the event loop.
WriteFirmwareBit(r) ==
  /\ SlaveOf(r) \in Arms /\ r.fc = "write_coil" /\ r.nb < 2 /\ AddressOf(r) = FwBit
  /\ deferred' = SlaveOf(r) /\ owed' = owed \cup {SlaveOf(r)}
  /\ Answer(r, "ok", <<>>)
  /\ UNCHANGED <<mem, faults>>

\* write_bit: one phase, so the board cannot say whether it has the coil.  Data
\* other than 0 and 0xFF00 (here a count of 2 or more) is refused before.
WriteSingleCoil(r) ==
  LET arm == SlaveOf(r)
      w == Written(arm, "coil", AddressOf(r), 1)
  IN
    /\ arm \in Arms /\ r.fc = "write_coil"
    /\ \/ r.nb >= 2 /\ Answer(r, "bad_value", <<>>) /\ NoEffect
       \/ /\ r.nb < 2 /\ AddressOf(r) # FwBit
          /\ \/ /\ mem' = w /\ Answer(r, "ok", <<>>)
                /\ UNCHANGED <<deferred, owed, faults>>
             \/ Fails(r, w, "failure")

\* The event loop starts the update before it waits again.
RunDeferred ==
  /\ deferred # 0
  /\ deferred' = 0 /\ owed' = owed \ {deferred}
  /\ UNCHANGED <<mem, count, req, code, vals, faults>>

-----------------------------------------------------------------------------

Reply(r) ==
  /\ count < MaxReq
  /\ \/ BadTarget(r) \/ BadFunction(r) \/ BadValue(r) \/ ReportSlaveId(r)
     \/ Read(r) \/ Write(r) \/ WriteFirmwareBit(r) \/ WriteSingleCoil(r)

Next == RunDeferred \/ \E r \in Request : Reply(r)

Spec == Init /\ [][Next]_vars

\* The server process is scheduled.
FairSpec == Spec /\ WF_vars(RunDeferred)

-----------------------------------------------------------------------------

\* What unit and address of a request mean, said once more: unit u is board u;
\* unit 0 reaches board a at its addresses g * Group + off, for off < Span, under
\* g * Group + (a - 1) * Span + off, and board 1 from 3 * Group on.
Means(r, arm, a) ==
  IF r.unit # 0 THEN arm = r.unit /\ a = r.address
  ELSE \/ \E g \in 0..2, off \in 0..(Span - 1) :
            /\ r.address = (g * Group) + ((arm - 1) * Span) + off
            /\ r.address < (g + 1) * Group
            /\ a = (g * Group) + off
       \/ r.address >= 3 * Group /\ arm = 1 /\ a = r.address

\* A read that succeeds returns the present contents of the cells that were
\* asked for, all of them, from the board that was meant.
ReadIsExact ==
  count' # count /\ code' = "ok" /\ req'.fc \in Reads =>
    \E arm \in Arms, a \in Cells :
      /\ Means(req', arm, a)
      /\ \A i \in 0..(req'.nb - 1) : a + i \in Cells
      /\ vals' = [i \in 1..req'.nb |-> mem[arm][KindOf(req'.fc)][a + i - 1]]

ReadsAreExact == [][ReadIsExact]_vars

\* Whatever the answer is, also an exception after a failed transfer, a request
\* changes no cell but the ones it names, on the board it names.
WriteHitsTarget ==
  \A arm \in Arms, k \in Kind, c \in Cells : mem'[arm][k][c] # mem[arm][k][c] =>
    /\ k = KindOf(req'.fc)
    /\ \E i \in 0..(Nb(req') - 1) : Means(req', arm, c - i)

WritesHitTarget == [][WriteHitsTarget]_vars

\* A write of registers, or of several coils, that was acknowledged was done, all
\* of it: an 8 bit count never makes a part look like the whole.
AckIsWritten ==
  count' # count /\ code' = "ok" /\ req'.fc \in Writes =>
    \E arm \in Arms, a \in Cells :
      /\ Means(req', arm, a)
      /\ \A i \in 0..(Nb(req') - 1) :
           a + i \in Cells /\ mem'[arm][KindOf(req'.fc)][a + i] = count'

AckedIsWritten == [][AckIsWritten]_vars

\* nb_modbus.c:141, "Illegal nb of values %d in read_bits (max %d)": a read of no
\* more than that many coils, all of which the board has, is answered.
LegalReadServed ==
  [][count' # count /\ req'.fc = "read_coils" /\ faults' = faults
       /\ (\E arm \in Arms, a \in Cells :
             Means(req', arm, a) /\ \A i \in 0..(req'.nb - 1) : a + i \in Cells)
       /\ req'.nb \in 1..MaxReadBits => code' = "ok"]_vars

\* nb_modbus.c:204, "Illegal data address 0x%0X in write_bit": a single coil the
\* board does not have is not acknowledged.
MissingCoilRefused ==
  [][count' # count /\ req'.fc = "write_coil" /\ code' = "ok" =>
       \E arm \in Arms, a \in Cells \cup {FwBit} : Means(req', arm, a)]_vars

\* nb_modbus.c:192, "exception for firmware", and the call of arm_firmware it
\* replaces (line 193): a board whose update was acknowledged is updated.
FirmwareRequestRuns == \A arm \in Arms : arm \in owed ~> arm \notin owed

=============================================================================
