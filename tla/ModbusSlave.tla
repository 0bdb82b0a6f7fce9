------------------------------ MODULE ModbusSlave ------------------------------
(***************************************************************************)
(* libmodbus servers on an RS485 line (modbus.c, modbus-rtu.c): every      *)
(* slave hears every request and the answers of the others, and must find  *)
(* its own requests among them.  The owner of a slave calls modbus_receive *)
(* and, when it returns a request, modbus_reply, for ever.                 *)
(*                                                                         *)
(* A slave knows the end of a message only from its bytes and from the     *)
(* silences between them, and reads the message after a foreign request as *)
(* a confirmation, whose lengths are other ones.                           *)
(***************************************************************************)
EXTENDS ModbusMapping

CONSTANTS
    Slaves,      \* the ids of the slaves
    Requests,    \* Requests[i]: the choices <<slave, pdu>> for the i-th request
    Mapping,     \* the tables a slave starts with
    Recoveries,  \* the choices for error_recovery of the slaves
    Patience,    \* the choices for after what the master lets the line fall silent
    MaxFaults    \* bound on the frames hit by noise

ASSUME SlavesAssumption == Slaves \subseteq 1..247
ASSUME RecoveryAssumption == Recoveries \subseteq SUBSET {"LINK", "PROTOCOL"}
ASSUME PatienceAssumption == Patience \subseteq SUBSET {"timeout", "exception"}
ASSUME FaultsAssumption == MaxFaults \in Nat

\* A request announces the bytes of the values it writes (modbus_reply takes the
\* number of values on trust, and reads behind a shorter request).
CountsAgree(pdu) ==
    /\ pdu[1] = 15 /\ Len(pdu) >= 6 /\ word(pdu, 4) <= MODBUS_MAX_WRITE_BITS =>
         BytesOfBits(word(pdu, 4)) <= pdu[6]
    /\ pdu[1] = 16 /\ Len(pdu) >= 6 /\ word(pdu, 4) <= MODBUS_MAX_WRITE_REGISTERS =>
         2 * word(pdu, 4) <= pdu[6]
ASSUME RequestsAssumption ==
    /\ Requests \in Seq(SUBSET ((0..247) \X Seq(uint8_t)))
    /\ \A i \in 1..Len(Requests) : \A r \in Requests[i] :
         Len(r[2]) > 0 /\ r[2][1] < 128 /\ CountsAgree(r[2])
ASSUME MappingAssumption ==
    LET range(t) == <<t.start, t.nb>>
    IN  /\ Mapping = modbus_mapping_new_start_address(range(Mapping.bits), range(Mapping.input_bits),
                          range(Mapping.registers), range(Mapping.input_registers))
        /\ \A t \in {Mapping.bits, Mapping.input_bits, Mapping.registers, Mapping.input_registers} :
             t.start \in Nat /\ t.nb \in Nat

VARIABLES
    rx,        \* rx[i]: what has reached slave i and was not read
    msg,       \* msg[i]: the message read so far (req in modbus_receive)
    step,      \* step[i]: _STEP_FUNCTION, _STEP_META or _STEP_DATA
    to_read,   \* to_read[i]: length_to_read
    confirmation_to_ignore,
    pc,        \* where slave i is: "receive", "reply" or "sleep"
    rsp,       \* rsp[i]: the answer it sends when it has slept, or <<>>
    map,       \* map[i]: mb_mapping
    done,      \* done[i]: the requests it has executed
    master,    \* the master: "idle", "wait", or "rest" until the line is silent
    sent,      \* the requests sent, each as [slave, pdu, hit]
    faults,    \* how many frames noise has hit
    error_recovery,
    waits      \* after what the master lets the line fall silent

vars == <<rx, msg, step, to_read, confirmation_to_ignore, pc, rsp, map, done,
          master, sent, faults, error_recovery, waits>>

config == <<error_recovery, waits>>
slave == <<msg, step, to_read, confirmation_to_ignore, pc, rsp, map, done>>

max_adu_length == 256
checksum_length == 2
BROADCAST == 0

-----------------------------------------------------------------------------
(* The line.                                                               *)

Frame(id, pdu) == Bytes(<<id>> \o pdu) \o crc16(<<id>> \o pdu)

\* What can become of a frame on the line: noise changes a byte or adds one.
Changed(f, k, v) == [f EXCEPT ![k] = [v |-> v, crc |-> f[k].crc]]
Noisy(f) == {Changed(f, k, v) : k \in 1..2, v \in {2, 16}}
              \cup {Changed(f, 3, 253), <<Byte(255)>> \o f}

\* The listeners hear f, or what noise makes of it, behind what they have heard.
Transmit(heard, f, listeners, hit) ==
    \E g \in IF hit THEN Noisy(f) \ {f} ELSE {f} :
        /\ hit => faults < MaxFaults
        /\ faults' = faults + (IF hit THEN 1 ELSE 0)
        /\ rx' = [i \in Slaves |-> IF i \in listeners THEN heard[i] \o g ELSE heard[i]]

-----------------------------------------------------------------------------
(* modbus_receive                                                          *)

msg_type(i) == IF confirmation_to_ignore[i] THEN "CONFIRMATION" ELSE "INDICATION"

Init ==
    /\ rx = [i \in Slaves |-> <<>>]
    /\ msg = [i \in Slaves |-> <<>>]
    /\ step = [i \in Slaves |-> "function"]
    /\ to_read = [i \in Slaves |-> 2]
    /\ confirmation_to_ignore = [i \in Slaves |-> FALSE]
    /\ pc = [i \in Slaves |-> "receive"]
    /\ rsp = [i \in Slaves |-> <<>>]
    /\ map = [i \in Slaves |-> Mapping]
    /\ done = [i \in Slaves |-> <<>>]
    /\ master = "idle" /\ sent = <<>> /\ faults = 0
    /\ error_recovery \in Recoveries /\ waits \in Patience

\* _modbus_receive_msg begins: the header and the function code are read first.
Restart(i) ==
    /\ msg' = [msg EXCEPT ![i] = <<>>]
    /\ step' = [step EXCEPT ![i] = "function"]
    /\ to_read' = [to_read EXCEPT ![i] = 2]

receive_all(i, rc) ==
    confirmation_to_ignore' = [confirmation_to_ignore EXCEPT ![i] = FALSE]

receive_keeps(i, rc) ==
    confirmation_to_ignore' =
        [confirmation_to_ignore EXCEPT ![i] = @ \/ rc = 0]

\* The end of modbus_receive.  After a foreign request, for which rc is 0, the
\* next message is a confirmation to ignore; whatever came of that one, the
\* next is an indication again.
receive(i, rc) ==
    confirmation_to_ignore' =
        [confirmation_to_ignore EXCEPT ![i] = ~@ /\ rc = 0]

check_integrity_any(i, m) == IF crc_matches(m) THEN Len(m) ELSE -1

\* The length of the message, 0 for one of another slave, -1 for a bad CRC.
check_integrity(i, m) ==
    IF m[1].v \notin {i, BROADCAST} THEN 0
    ELSE IF crc_matches(m) THEN Len(m)
    ELSE -1

\* The message is complete: it is answered if it is an indication for slave i,
\* and if it is a confirmation it is dropped, whatever it is.
Complete(i, m, rest) ==
    LET rc == check_integrity(i, m)
        mine == rc > 0 /\ ~confirmation_to_ignore[i]
    IN  /\ receive(i, rc)
        /\ rx' = [rx EXCEPT ![i] = IF rc = -1 /\ "PROTOCOL" \in error_recovery THEN <<>> ELSE rest]
        /\ IF mine
             THEN /\ msg' = [msg EXCEPT ![i] = m]
                  /\ pc' = [pc EXCEPT ![i] = "reply"]
                  /\ UNCHANGED <<step, to_read>>
             ELSE Restart(i) /\ UNCHANGED pc

\* The message would not fit into req.
TooManyData_own(m, data) == data > max_adu_length
TooManyData(m, data) == Len(m) + data > max_adu_length

\* The message goes on with so many bytes.
More(i, m, rest, next, length) ==
    /\ msg' = [msg EXCEPT ![i] = m]
    /\ step' = [step EXCEPT ![i] = next]
    /\ to_read' = [to_read EXCEPT ![i] = length]
    /\ rx' = [rx EXCEPT ![i] = rest]
    /\ UNCHANGED <<confirmation_to_ignore, pc>>

\* modbus_receive fails, with EMBBADDATA.
GiveUp(i, rest) ==
    /\ receive(i, -1) /\ Restart(i)
    /\ rx' = [rx EXCEPT ![i] = rest]
    /\ UNCHANGED pc

\* recv delivers what is there, at most length_to_read; a step that has all
\* its bytes sets the length of the next one, and one without bytes is passed.
Recv(i) ==
    /\ pc[i] = "receive" /\ rx[i] # <<>>
    /\ LET k == IF Len(rx[i]) < to_read[i] THEN Len(rx[i]) ELSE to_read[i]
           m == msg[i] \o SubSeq(rx[i], 1, k)
           rest == SubSeq(rx[i], k + 1, Len(rx[i]))
           pdu == Values(Tail(m))
           meta == compute_meta_length_after_function(pdu[1], msg_type(i))
           data == compute_data_length_after_meta(pdu, msg_type(i), checksum_length)
           whole == k = to_read[i]
           to_meta == whole /\ step[i] = "function" /\ meta > 0
           to_data == whole /\ step[i] # "data" /\ ~to_meta
       IN  CASE ~whole -> More(i, m, rest, step[i], to_read[i] - k)
             [] to_meta -> More(i, m, rest, "meta", meta)
             [] to_data /\ ~TooManyData(m, data) -> More(i, m, rest, "data", data)
             [] to_data /\ TooManyData(m, data) -> GiveUp(i, rest)
             [] OTHER -> Complete(i, m, rest)
    /\ UNCHANGED <<rsp, map, done, master, sent, faults, config>>

\* Nobody is about to say something: the requests heard are worked off.  (A
\* slave that sleeps before it answers is not heard for as long as others
\* wait for it.)
Hushed == \A j \in Slaves : rx[j] = <<>> /\ pc[j] # "reply"

\* A confirmation does not begin within the response timeout, or a message
\* does not go on within the byte timeout.
Timeout(i) ==
    /\ pc[i] = "receive" /\ Hushed
    /\ msg[i] # <<>> \/ confirmation_to_ignore[i]
    /\ receive(i, -1)
    /\ Restart(i)
    /\ pc' = [pc EXCEPT ![i] = IF "LINK" \in error_recovery THEN "sleep" ELSE @]
    /\ UNCHANGED <<rx, rsp, map, done, master, sent, faults, config>>

-----------------------------------------------------------------------------
(* modbus_reply                                                            *)

\* The answer goes to the master, and the other slaves hear it too.
Send(i, heard, f) ==
    /\ \E hit \in BOOLEAN :
         /\ Transmit(heard, f, Slaves \ {i}, hit)
         /\ master' = IF master # "wait" THEN master
                      ELSE IF hit \/ (f[2].v >= 128 /\ "exception" \in waits)
                        THEN "rest" ELSE "idle"

\* The request is executed at once; the answer follows, or, after an illegal
\* count or function, a sleep and a flush before it.  A broadcast is executed
\* and not answered.
Reply(i) ==
    LET q == Values(SubSeq(msg[i], 2, Len(msg[i]) - checksum_length))
        r == modbus_reply(map[i], q)
        f == Frame(msg[i][1].v, r.pdu)
        answered == q[1] # Unanswered /\ msg[i][1].v # BROADCAST
        sleeps == q[1] # Unanswered /\ r.to_flush
    IN  /\ pc[i] = "reply"
        /\ done' = [done EXCEPT ![i] = Append(@, q)]
        /\ map' = [map EXCEPT ![i] = IF q[1] = Unanswered THEN @ ELSE r.map]
        /\ pc' = [pc EXCEPT ![i] = IF sleeps THEN "sleep" ELSE "receive"]
        /\ rsp' = [rsp EXCEPT ![i] = IF answered /\ sleeps THEN f ELSE <<>>]
        /\ IF answered /\ ~sleeps THEN Send(i, rx, f)
                                  ELSE UNCHANGED <<rx, master, faults>>
        /\ Restart(i)
        /\ UNCHANGED <<confirmation_to_ignore, sent, config>>

\* _sleep_response_timeout is over; what has come in is flushed, and the
\* answer that was waiting, if there is one, is sent.
WakeUp(i) ==
    /\ pc[i] = "sleep"
    /\ pc' = [pc EXCEPT ![i] = "receive"]
    /\ rsp' = [rsp EXCEPT ![i] = <<>>]
    /\ LET flushed == [rx EXCEPT ![i] = <<>>]
       IN  IF rsp[i] = <<>> THEN rx' = flushed /\ UNCHANGED <<master, faults>>
                            ELSE Send(i, flushed, rsp[i])
    /\ UNCHANGED <<msg, step, to_read, confirmation_to_ignore, map, done, sent, config>>

-----------------------------------------------------------------------------
(* The master.                                                             *)

MasterSends ==
    /\ master = "idle" /\ Len(sent) < Len(Requests)
    /\ \E r \in Requests[Len(sent) + 1], hit \in BOOLEAN :
         /\ Transmit(rx, Frame(r[1], r[2]), Slaves, hit)
         /\ sent' = Append(sent, [slave |-> r[1], pdu |-> r[2], hit |-> hit])
    /\ master' = "wait"
    /\ UNCHANGED <<slave, config>>

\* Every slave waits for the beginning of an indication.
Ready(i) == pc[i] = "receive" /\ msg[i] = <<>> /\ ~confirmation_to_ignore[i]
AllReady == \A i \in Slaves : rx[i] = <<>> /\ Ready(i)

\* The master gives up on an answer: at any time, or, if it then rests, when
\* there is none to come.
MasterTimeout ==
    /\ master = "wait" /\ Hushed
    /\ \A i \in Slaves : pc[i] # "sleep" \/ "timeout" \notin waits
    /\ master' = IF "timeout" \in waits THEN "rest" ELSE "idle"
    /\ UNCHANGED <<rx, slave, sent, faults, config>>

\* The line has been silent for longer than any slave waits.
MasterRested ==
    /\ master = "rest" /\ AllReady
    /\ master' = "idle"
    /\ UNCHANGED <<rx, slave, sent, faults, config>>

Done ==
    /\ Len(sent) = Len(Requests) /\ master = "idle" /\ AllReady
    /\ UNCHANGED vars

Next ==
    \/ \E i \in Slaves :
          Recv(i) \/ Timeout(i) \/ Reply(i) \/ WakeUp(i)
    \/ MasterSends \/ MasterTimeout \/ MasterRested
    \/ Done

\* A slave that can go on does, and timeouts and sleeps end.
Fairness ==
    /\ \A i \in Slaves :
          WF_vars(Recv(i) \/ Timeout(i) \/ Reply(i) \/ WakeUp(i))
    /\ WF_vars(MasterTimeout) /\ WF_vars(MasterRested)

Spec == Init /\ [][Next]_vars /\ Fairness

-----------------------------------------------------------------------------
(* Properties.                                                             *)

TypeOK ==
    /\ rx \in [Slaves -> ByteSeq] /\ msg \in [Slaves -> ByteSeq]
    /\ step \in [Slaves -> {"function", "meta", "data"}]
    /\ \A i \in Slaves : to_read[i] > 0 /\ Len(msg[i]) <= max_adu_length
    /\ \A i \in Slaves : pc[i] = "receive" => Len(msg[i]) + to_read[i] <= max_adu_length
    /\ confirmation_to_ignore \in [Slaves -> BOOLEAN]
    /\ pc \in [Slaves -> {"receive", "reply", "sleep"}]
    /\ rsp \in [Slaves -> ByteSeq]
    /\ master \in {"idle", "wait", "rest"}
    /\ faults \in 0..MaxFaults

\* A slave executes what was sent to it or to all, each request at most once
\* and in the order it was sent, however noise and timeouts shift the message
\* borders it sees: never a request of another slave, nor an answer of one.
ExecutesOwn ==
    \A i \in Slaves :
      \E f \in [1..Len(done[i]) -> 1..Len(sent)] :
        /\ \A k \in 1..Len(done[i]) :
             sent[f[k]].slave \in {i, BROADCAST} /\ sent[f[k]].pdu = done[i][k]
        /\ \A j, k \in 1..Len(done[i]) : j < k => f[j] < f[k]

\* A request for slave i that reached it undamaged.
Mine(i, r) == r.slave \in {i, BROADCAST} /\ ~r.hit

\* When the line rests, every slave has executed every request that reached it
\* undamaged: neither the confirmations it ignores nor noise in an earlier
\* message have made it miss one.  This needs a master that lets the line fall
\* silent after every answer that stayed away, was damaged or was an exception.
AllExecuted ==
    \A i \in Slaves :
      \E f \in [1..Len(done[i]) -> 1..Len(sent)] :
        /\ \A k \in 1..Len(done[i]) : Mine(i, sent[f[k]]) /\ sent[f[k]].pdu = done[i][k]
        /\ \A j, k \in 1..Len(done[i]) : j < k => f[j] < f[k]
        /\ \A n \in 1..Len(sent) : Mine(i, sent[n]) => \E k \in 1..Len(done[i]) : f[k] = n
Heard == AllReady /\ waits = {"timeout", "exception"} => AllExecuted

\* The documentation asks for less: "you must take care to set a response
\* timeout of slaves less than response timeout of master (ortherwise other
\* slaves may ignore master requests when one of the slave is not responding)"
\* (doc/libmodbus.txt:69-72).
HeardByTheRule == AllReady /\ "timeout" \in waits => AllExecuted

\* No request makes modbus_reply store outside of the tables.
InTable ==
    \A i \in Slaves, t \in {"bits", "registers"} :
        DOMAIN map[i][t].tab = 0..(map[i][t].nb - 1)

\* After whatever was on the line, every slave comes back to wait for an
\* indication.
ComesToRest == []<>AllReady

=============================================================================
