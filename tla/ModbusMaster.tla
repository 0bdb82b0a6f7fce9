----------------------------- MODULE ModbusMaster -----------------------------
(***************************************************************************)
(* libmodbus as a master (modbus.c with the backends modbus-rtu.c and      *)
(* modbus-tcp.c): one context whose owner calls modbus_read_registers and  *)
(* its siblings one after the other, a server that may answer late, badly  *)
(* or not at all, and the bytes between them.                              *)
(*                                                                         *)
(* Answers are modelled byte for byte, because the receiver finds the end  *)
(* of a message from bytes of the message: what is left over after a       *)
(* timeout is read as the beginning of the next answer.  Requests are      *)
(* records; how a server reads them is the subject of ModbusSlave.         *)
(***************************************************************************)
EXTENDS ModbusFrames

CONSTANTS
    Modes,          \* the contexts checked: pairs <<backend, recovery>>
    Calls,          \* Calls[i]: the choices for the i-th client call
    MaxFaults,      \* bound on what goes wrong on the line
    TidMax,         \* UINT16_MAX, scaled down
    SleepSuffices   \* no answer is later than the end of a recovery sleep

ASSUME ModesAssumption ==
    Modes \subseteq {"RTU", "TCP"} \X SUBSET {"LINK", "PROTOCOL"}
ASSUME BoundsAssumption ==
    /\ MaxFaults \in Nat /\ TidMax \in uint16_t
    /\ SleepSuffices \in BOOLEAN

VARIABLES
    ctx,       \* the context: backend, error_recovery, t_id
    s,         \* ctx->s is an open descriptor
    up,        \* the peer still holds the other end of s open
    pc,        \* where the owner is inside the library
    req,       \* the request of the running, or last, call
    rsp,       \* the answer received so far (msg in _modbus_receive_msg)
    step,      \* _STEP_FUNCTION, _STEP_META or _STEP_DATA
    to_read,   \* length_to_read
    res,       \* what the last call returned
    rx,        \* bytes that have arrived and were not read
    wire,      \* bytes of the server on their way
    pend,      \* requests the server has not answered
    executed,  \* numbers of the calls the server has executed
    faults,    \* what went wrong so far
    quiet,     \* calls returned since the line last misbehaved
    torn       \* an answer was given up without waiting for the rest of it

vars == <<ctx, s, up, pc, req, rsp, step, to_read, res, rx, wire, pend,
          executed, faults, quiet, torn>>

line == <<rx, wire, pend, executed>>

-----------------------------------------------------------------------------
(* The backends.                                                           *)

Rtu == ctx.backend = "RTU"
Link == "LINK" \in ctx.recovery
Protocol == "PROTOCOL" \in ctx.recovery

header_length == IF Rtu THEN 1 ELSE 7
checksum_length == IF Rtu THEN 2 ELSE 0
max_adu_length == IF Rtu THEN 256 ELSE 260

Slave == 15
MaxCalls == Len(Calls)

Word(bs, i) == 256 * bs[i].v + bs[i + 1].v

-----------------------------------------------------------------------------
(* Requests: one constructor per client call.  max is the limit the call   *)
(* checks before it builds anything, nb the two bytes behind the address.  *)

modbus_read_bits(addr, nb) ==
    [fc |-> 1, addr |-> addr, nb |-> nb, max |-> 2000]
modbus_read_input_bits(addr, nb) ==
    [fc |-> 2, addr |-> addr, nb |-> nb, max |-> 2000]
modbus_read_registers(addr, nb) ==
    [fc |-> 3, addr |-> addr, nb |-> nb, max |-> 125]
modbus_read_input_registers(addr, nb) ==
    [fc |-> 4, addr |-> addr, nb |-> nb, max |-> 125]
modbus_write_bit(addr, status) ==
    [fc |-> 5, addr |-> addr, nb |-> IF status THEN 65280 ELSE 0, max |-> 65535]
modbus_write_register(addr, value) ==
    [fc |-> 6, addr |-> addr, nb |-> value, max |-> 65535]
modbus_write_bits(addr, nb) ==
    [fc |-> 15, addr |-> addr, nb |-> nb, max |-> 1968]
modbus_write_registers(addr, nb) ==
    [fc |-> 16, addr |-> addr, nb |-> nb, max |-> 123]
modbus_mask_write_register(addr, and_mask) ==
    [fc |-> 22, addr |-> addr, nb |-> and_mask, max |-> 65535]
modbus_write_and_read_registers(read_addr, read_nb) ==
    [fc |-> 23, addr |-> read_addr, nb |-> read_nb, max |-> 125]
modbus_report_slave_id ==
    [fc |-> 17, addr |-> 0, nb |-> 0, max |-> 65535]

\* The client calls with these two numbers.
ClientCalls(addr, nb) ==
    {modbus_read_bits(addr, nb), modbus_read_input_bits(addr, nb),
     modbus_read_registers(addr, nb), modbus_read_input_registers(addr, nb),
     modbus_write_bit(addr, TRUE), modbus_write_bit(addr, FALSE),
     modbus_write_register(addr, nb), modbus_write_bits(addr, nb),
     modbus_write_registers(addr, nb), modbus_mask_write_register(addr, nb),
     modbus_write_and_read_registers(addr, nb), modbus_report_slave_id}

\* The owner makes client calls, with numbers of 16 bits.
ASSUME CallsAssumption ==
    /\ Calls \in Seq(SUBSET [fc : uint8_t, addr : uint16_t, nb : uint16_t, max : uint16_t])
    /\ \A i \in 1..Len(Calls) : \A c \in Calls[i] : c \in ClientCalls(c.addr, c.nb)

\* What a call returns when all goes well.
Expected(r) == IF r.fc \in BitReads \cup RegisterReads \cup MultipleWrites
                 THEN r.nb
                 ELSE IF r.fc = 17 THEN 2 ELSE 1

-----------------------------------------------------------------------------
(* The server's answers: what it keeps at address a reads as a.            *)

Value(a) == a % 65536

RegisterValues(addr, nb) ==
    [i \in 1..(2 * nb) |-> IF i % 2 = 1 THEN Hi(Value(addr + i \div 2))
                                       ELSE Lo(Value(addr + i \div 2 - 1))]

Pdu(r) ==
    IF r.fc \in BitReads
      THEN <<r.fc, BytesOfBits(r.nb)>>
              \o [i \in 1..BytesOfBits(r.nb) |-> Lo(r.addr + i - 1)]
    ELSE IF r.fc \in RegisterReads
      THEN <<r.fc, 2 * r.nb>> \o RegisterValues(r.addr, r.nb)
    ELSE IF r.fc = 17
      THEN <<17, 2, 180, 255>>
    ELSE <<r.fc, Hi(r.addr), Lo(r.addr), Hi(r.nb), Lo(r.nb)>>
              \o IF r.fc = 22 THEN <<0, 0>> ELSE <<>>

Frame(t_id, pdu) ==
    IF Rtu
      THEN Bytes(<<Slave>> \o pdu) \o crc16(<<Slave>> \o pdu)
      ELSE Bytes(<<Hi(t_id), Lo(t_id), 0, 0, 0, Len(pdu) + 1, Slave>> \o pdu)

Reply(r) == Frame(r.t_id, Pdu(r))
Exception(r) == Frame(r.t_id, <<r.fc + 128, 6>>)

-----------------------------------------------------------------------------
(* Checks of an answer.                                                    *)

\* 0 stands for MSG_LENGTH_UNDEFINED, which matches any length.
compute_response_length_from_request(r) ==
    IF r.fc = 17 THEN 0
    ELSE header_length + checksum_length +
           (IF r.fc \in BitReads THEN 2 + BytesOfBits(r.nb)
            ELSE IF r.fc \in RegisterReads THEN 2 + 2 * r.nb
            ELSE IF r.fc = 22 THEN 7 ELSE 5)

\* The length of the answer, 0 for one of another slave, -1 for a bad CRC.
check_integrity(msg) ==
    IF ~Rtu THEN Len(msg)
    ELSE IF msg[1].v \notin {Slave, 0} THEN 0
    ELSE IF crc_matches(msg) THEN Len(msg)
    ELSE -1

pre_check_noid(r, msg) ==
    IF Rtu THEN msg[1].v = Slave ELSE ~(msg[3].v # 0 /\ msg[4].v # 0)

pre_check_confirmation(r, msg) ==
    IF Rtu THEN msg[1].v = Slave
    ELSE /\ msg[1].v = Hi(r.t_id) /\ msg[2].v = Lo(r.t_id)
         /\ ~(msg[3].v # 0 /\ msg[4].v # 0)

\* The number of values an answer reports, and the one the request asked for.
rsp_nb_value(msg) ==
    LET function == msg[header_length + 1].v
    IN  CASE function \in BitReads -> msg[header_length + 2].v
          [] function \in RegisterReads -> msg[header_length + 2].v \div 2
          [] function \in MultipleWrites -> Word(msg, header_length + 4)
          [] function = 17 -> msg[header_length + 2].v
          [] OTHER -> 1

req_nb_value(r, msg) ==
    CASE r.fc \in BitReads -> BytesOfBits(r.nb)
      [] r.fc \in RegisterReads \cup MultipleWrites -> r.nb
      [] OTHER -> rsp_nb_value(msg)

\* The verdict on an answer of the length check_integrity reported: "ok" or
\* an errno; only EMBBADDATA and EMBBADSLAVE are followed by the recovery.
check_confirmation(r, msg, length) ==
    LET function == msg[header_length + 1].v
        computed == compute_response_length_from_request(r)
    IN  IF ~pre_check_confirmation(r, msg)
          THEN IF Rtu THEN "EMBBADSLAVE" ELSE "EMBBADDATA"
        ELSE IF function >= 128
          THEN IF length = header_length + 2 + checksum_length
                    /\ r.fc = function - 128
                 THEN "EXCEPTION" ELSE "EMBBADEXC"
        ELSE IF length \notin {computed} /\ computed # 0 THEN "EMBBADDATA"
        ELSE IF function # r.fc THEN "EMBBADDATA"
        ELSE IF req_nb_value(r, msg) # rsp_nb_value(msg) THEN "EMBBADDATA"
        ELSE "ok"

\* The value the call hands its caller: nb for the bit reads.
ReturnValue(r, msg) == IF r.fc \in BitReads THEN r.nb ELSE rsp_nb_value(msg)

-----------------------------------------------------------------------------
NoResult == [rc |-> 0, errno |-> "none"]

\* modbus_new_rtu / modbus_new_tcp, modbus_set_slave, modbus_connect and
\* modbus_set_error_recovery have run.
Init ==
    /\ \E m \in Modes : ctx = [backend |-> m[1], recovery |-> m[2], t_id |-> 0]
    /\ s = TRUE /\ up = TRUE
    /\ pc = "idle"
    /\ req = [n |-> 0, t_id |-> 0, fc |-> 0, addr |-> 0, nb |-> 0]
    /\ rsp = <<>> /\ step = "function" /\ to_read = 0
    /\ res = NoResult
    /\ rx = <<>> /\ wire = <<>> /\ pend = <<>> /\ executed = {}
    /\ faults = 0 /\ quiet = 0 /\ torn = FALSE

Quieter == IF quiet < MaxCalls THEN quiet + 1 ELSE quiet

Return(rc, errno) ==
    /\ pc' = "idle"
    /\ res' = [rc |-> rc, errno |-> errno]
    /\ quiet' = Quieter

\* The line misbehaves.
Fault ==
    /\ faults < MaxFaults
    /\ faults' = faults + 1
    /\ quiet' = 0

\* _modbus_*_build_request_basis: a TCP request takes the next transaction
\* id, the id after the largest is 0.
NextTid == IF Rtu THEN 0
           ELSE IF ctx.t_id < TidMax THEN ctx.t_id + 1 ELSE 0

Request(c, t_id) ==
    [n |-> req.n + 1, t_id |-> t_id, fc |-> c.fc, addr |-> c.addr, nb |-> c.nb]

\* A client call up to send_msg; too many values return EMBMDATA at once.
Call(c) ==
    /\ pc = "idle"
    /\ IF c.nb > c.max
         THEN /\ req' = Request(c, ctx.t_id)
              /\ Return(-1, "EMBMDATA")
              /\ UNCHANGED ctx
         ELSE /\ req' = Request(c, NextTid)
              /\ ctx' = [ctx EXCEPT !.t_id = NextTid]
              /\ pc' = "send"
              /\ UNCHANGED <<res, quiet>>
    /\ UNCHANGED <<s, up, rsp, step, to_read, line, faults, torn>>

-----------------------------------------------------------------------------
(* send_msg                                                                *)

\* The request is written whole.
SendMsg ==
    /\ pc = "send" /\ s /\ up
    /\ pend' = Append(pend, req)
    /\ pc' = "recv"
    /\ rsp' = <<>> /\ step' = "function" /\ to_read' = header_length + 1
    /\ UNCHANGED <<ctx, s, up, req, res, rx, wire, executed, faults, quiet, torn>>

\* write or send took only a part of it; the server drops the torso.
SendShort ==
    /\ pc = "send" /\ s /\ up
    /\ faults < MaxFaults
    /\ faults' = faults + 1
    /\ pc' = "idle" /\ quiet' = 0
    /\ res' = [rc |-> -1, errno |-> "EMBBADDATA"]
    /\ UNCHANGED <<ctx, s, up, req, rsp, step, to_read, line, torn>>

\* It failed: EBADF without a descriptor, EPIPE or ECONNRESET without a peer.
\* With link recovery it is tried again, however long that takes.
SendFails ==
    /\ pc = "send" /\ ~(s /\ up)
    /\ IF Link THEN pc' = "reconnect" /\ UNCHANGED <<res, quiet>>
               ELSE Return(-1, IF s THEN "EPIPE" ELSE "EBADF")
    /\ UNCHANGED <<ctx, s, up, req, rsp, step, to_read, line, faults, torn>>

\* It failed with another errno: link recovery sleeps, flushes, sends again.
SendBusy ==
    /\ pc = "send" /\ s /\ up
    /\ faults < MaxFaults
    /\ faults' = faults + 1
    /\ quiet' = 0
    /\ IF Link THEN pc' = "resend" /\ UNCHANGED res
               ELSE pc' = "idle" /\ res' = [rc |-> -1, errno |-> "EAGAIN"]
    /\ UNCHANGED <<ctx, s, up, req, rsp, step, to_read, line, torn>>

\* What modbus_close does to a connection, on top of what the actions below
\* do to s: a TCP socket takes everything in flight with it.
DropLine ==
    /\ rx' = <<>>
    /\ IF Rtu THEN UNCHANGED <<wire, pend>> ELSE wire' = <<>> /\ pend' = <<>>
    /\ UNCHANGED executed

\* modbus_close, a sleep, modbus_connect; the result of the latter is ignored.
Reconnect ==
    /\ pc = "reconnect"
    /\ DropLine
    /\ pc' = "send"
    /\ \/ s' = TRUE /\ up' = TRUE /\ UNCHANGED <<faults, quiet>>
       \/ s' = FALSE /\ up' = FALSE /\ Fault
    /\ UNCHANGED <<ctx, req, rsp, step, to_read, res, torn>>

-----------------------------------------------------------------------------
(* The server and the line between.                                        *)

\* Everything that will arrive has arrived.
Silent == wire = <<>> /\ pend = <<>>

Answer ==
    /\ pend # <<>>
    /\ \/ wire' = wire \o Reply(Head(pend))
          /\ executed' = executed \cup {Head(pend).n}
          /\ UNCHANGED <<faults, quiet>>
       \/ wire' = wire \o Exception(Head(pend)) /\ Fault /\ UNCHANGED executed
    /\ pend' = Tail(pend)
    /\ UNCHANGED <<ctx, s, up, pc, req, rsp, step, to_read, res, rx, torn>>

\* The request, or its answer, is lost.
Lose ==
    /\ pend # <<>>
    /\ pend' = Tail(pend)
    /\ executed' \in {executed, executed \cup {Head(pend).n}}
    /\ Fault
    /\ UNCHANGED <<ctx, s, up, pc, req, rsp, step, to_read, res, rx, wire, torn>>

\* A serial line may swallow or change a byte of an answer.
Noise ==
    /\ Rtu /\ wire # <<>>
    /\ \/ wire' = Tail(wire)
       \/ \E v \in {3, 255} : wire' = <<[Head(wire) EXCEPT !.v = v]>> \o Tail(wire)
    /\ Fault
    /\ UNCHANGED <<ctx, s, up, pc, req, rsp, step, to_read, res, rx, pend, executed, torn>>

\* The next bytes arrive: any number of them while the receiver waits, all of
\* them at any other time (to the receiver, pieces that arrive before it looks
\* are one piece).
Deliver ==
    /\ wire # <<>>
    /\ pc = "recv" => rx = <<>>
    /\ \E k \in IF pc = "recv" THEN 1..Len(wire) ELSE {Len(wire)} :
          /\ rx' = rx \o SubSeq(wire, 1, k)
          /\ wire' = SubSeq(wire, k + 1, Len(wire))
    /\ UNCHANGED <<ctx, s, up, pc, req, rsp, step, to_read, res, pend, executed, faults, quiet, torn>>

\* The server closes a TCP connection.
PeerCloses ==
    /\ ~Rtu /\ s /\ up
    /\ up' = FALSE
    /\ pend' = <<>>
    /\ Fault
    /\ UNCHANGED <<ctx, s, pc, req, rsp, step, to_read, res, rx, wire, executed, torn>>

-----------------------------------------------------------------------------
(* _modbus_receive_msg, and what the call does with its result.            *)

\* The answer given up here may not have been the whole of what the server
\* sends: neither a bad CRC nor, without protocol recovery, a strange slave
\* is followed by a sleep.
LeavesRest(msg) ==
    Rtu /\ \/ check_integrity(msg) = -1
           \/ msg[1].v # Slave /\ ~Protocol

\* The answer is complete, rest is what is there behind it.  A bad CRC is
\* flushed at once, without a sleep; the other disagreements after one.
Complete(msg, rest) ==
    LET length == check_integrity(msg)
        verdict == check_confirmation(req, msg, length)
    IN  /\ rsp' = msg /\ step' = "data" /\ to_read' = 0
        /\ torn' = (torn \/ LeavesRest(msg))
        /\ IF length = -1
             THEN /\ Return(-1, "EMBBADCRC")
                  /\ rx' = IF Protocol THEN <<>> ELSE rest
             ELSE /\ rx' = rest
                  /\ CASE verdict = "ok" -> Return(ReturnValue(req, msg), "none")
                       [] verdict \in {"EMBBADDATA", "EMBBADSLAVE"} /\ Protocol ->
                            /\ pc' = "flush"
                            /\ res' = [rc |-> -1, errno |-> verdict]
                            /\ UNCHANGED quiet
                       [] OTHER -> Return(-1, verdict)

\* What is announced would not fit into the caller's buffer.
TooManyData_own(msg, data) == data > max_adu_length
TooManyData(msg, data) == Len(msg) + data > max_adu_length

\* Reading stops there.
GiveUp(msg, rest) ==
    /\ rsp' = msg /\ rx' = rest /\ to_read' = 0 /\ UNCHANGED step
    /\ Return(-1, "EMBBADDATA")
    /\ torn' = TRUE

\* Reading goes on with the next n bytes.
More(msg, rest, next, n) ==
    /\ rsp' = msg /\ rx' = rest /\ to_read' = n /\ step' = next
    /\ UNCHANGED <<pc, res, quiet, torn>>

\* recv delivers what is there, at most length_to_read; a step that has all
\* its bytes sets the length of the next one.
Recv ==
    /\ pc = "recv" /\ rx # <<>>
    /\ LET k == IF Len(rx) < to_read THEN Len(rx) ELSE to_read
           msg == rsp \o SubSeq(rx, 1, k)
           rest == SubSeq(rx, k + 1, Len(rx))
           pdu == Values(SubSeq(msg, header_length + 1, Len(msg)))
           meta == compute_meta_length_after_function(pdu[1], "CONFIRMATION")
           data == compute_data_length_after_meta(pdu, "CONFIRMATION", checksum_length)
           whole == k = to_read
       IN  CASE ~whole -> More(msg, rest, step, to_read - k)
             [] whole /\ step = "function" -> More(msg, rest, "meta", meta)
             [] whole /\ step = "meta" /\ TooManyData(msg, data) -> GiveUp(msg, rest)
             [] whole /\ step = "meta" /\ ~TooManyData(msg, data) /\ data > 0 ->
                  More(msg, rest, "data", data)
             [] OTHER -> Complete(msg, rest)
    /\ UNCHANGED <<ctx, s, up, req, wire, pend, executed, faults>>

\* select finds nothing to read for the response timeout, or for the byte
\* timeout once the answer has begun.
SelectTimesOut == rx = <<>> /\ up

\* A timeout, on the first byte or between two: nothing will come, or it comes
\* too late.
Timeout ==
    /\ pc = "recv" /\ SelectTimesOut
    /\ IF Silent THEN UNCHANGED faults
                 ELSE faults < MaxFaults /\ faults' = faults + 1
    /\ IF Link
         THEN /\ pc' = "flush"
              /\ res' = [rc |-> -1, errno |-> "ETIMEDOUT"]
              /\ quiet' = IF Silent THEN quiet ELSE 0
         ELSE IF Silent THEN Return(-1, "ETIMEDOUT")
         ELSE /\ pc' = "idle" /\ quiet' = 0
              /\ res' = [rc |-> -1, errno |-> "ETIMEDOUT"]
    /\ torn' = (torn \/ (rsp # <<>> /\ ~Silent /\ ~Link))
    /\ UNCHANGED <<ctx, s, up, req, rsp, step, to_read, line>>

RecvClosed_retry ==
    /\ pc = "recv" /\ rx = <<>> /\ wire = <<>> /\ ~up
    /\ UNCHANGED vars

\* recv returns 0 when the peer has closed: ECONNRESET, and with link
\* recovery one attempt to connect again, whose result is ignored.
RecvClosed ==
    /\ pc = "recv" /\ rx = <<>> /\ wire = <<>> /\ ~up
    /\ pc' = "idle"
    /\ res' = [rc |-> -1, errno |-> "ECONNRESET"]
    /\ \/ Link /\ DropLine /\ s' = TRUE /\ up' = TRUE /\ UNCHANGED faults /\ quiet' = Quieter
       \/ Link /\ DropLine /\ s' = FALSE /\ up' = FALSE /\ Fault
       \/ ~Link /\ UNCHANGED <<s, up, line, faults>> /\ quiet' = Quieter
    /\ UNCHANGED <<ctx, req, rsp, step, to_read, torn>>

Flushed_rtu ==
    /\ SleepSuffices => Silent
    /\ rx' = IF Rtu THEN <<>> ELSE rx
    /\ UNCHANGED <<ctx, s, up, req, rsp, step, to_read, wire, pend, executed, faults, torn>>

\* _sleep_response_timeout, then modbus_flush.
Flushed ==
    /\ SleepSuffices => Silent
    /\ rx' = <<>>
    /\ UNCHANGED <<ctx, s, up, req, rsp, step, to_read, wire, pend, executed, faults, torn>>

Flush ==
    /\ pc = "flush"
    /\ Flushed
    /\ Return(-1, res.errno)

FlushAndResend ==
    /\ pc = "resend"
    /\ Flushed
    /\ pc' = "send"
    /\ UNCHANGED <<res, quiet>>

\* The owner is done.
Done ==
    /\ pc = "idle" /\ req.n = MaxCalls /\ Silent
    /\ UNCHANGED vars

Next ==
    \/ req.n < MaxCalls /\ \E c \in Calls[req.n + 1] : Call(c)
    \/ SendMsg \/ SendShort \/ SendFails \/ SendBusy \/ Reconnect
    \/ Answer \/ Lose \/ Noise \/ Deliver \/ PeerCloses
    \/ Recv \/ Timeout \/ RecvClosed \/ Flush \/ FlushAndResend
    \/ Done

\* The library's own steps are not put off for ever, and neither are the
\* server and the line.
Fairness ==
    /\ WF_vars(SendMsg \/ SendFails \/ Reconnect \/ Recv \/ Timeout
                 \/ RecvClosed \/ Flush \/ FlushAndResend)
    /\ WF_vars(Answer)
    /\ WF_vars(Deliver)

Spec == Init /\ [][Next]_vars /\ Fairness

-----------------------------------------------------------------------------
(* Properties.                                                             *)

TypeOK ==
    /\ ctx.t_id \in 0..TidMax
    /\ s \in BOOLEAN /\ up \in BOOLEAN
    /\ pc \in {"idle", "send", "reconnect", "resend", "recv", "flush"}
    /\ {rsp, rx, wire} \subseteq ByteSeq
    /\ Len(rsp) <= max_adu_length
    /\ step \in {"function", "meta", "data"}
    /\ pc = "recv" => to_read > 0 /\ Len(rsp) + to_read <= max_adu_length
    /\ faults \in 0..MaxFaults /\ quiet \in 0..MaxCalls
    /\ torn \in BOOLEAN

\* The last call got the answer to its own request, and the server had
\* executed that request.
Own == /\ rsp = Reply(req)
       /\ req.n \in executed
       /\ res.rc = Expected(req)

Succeeded == pc = "idle" /\ req.n > 0 /\ res.rc >= 0

\* A call that returns success returns the answer to its own request: a late
\* answer to an earlier call is never taken for it.  A TCP answer is told from
\* an older one by its transaction id; for RTU, which has none, link recovery,
\* which sleeps and flushes after a timeout, is enough.  Neither helps once an
\* answer was given up in the middle without such a sleep: its rest is read as
\* the beginning of the next one.
OwnAnswer == Succeeded /\ (Link \/ ~Rtu) /\ ~torn => Own

\* The same without the conditions: "The transaction identifier is used to
\* associate the future response with the request" (modbus-tcp.c:127-128).
AnswerMatchesRequest == Succeeded => Own

\* With both recoveries a disturbance costs a bounded number of calls: the
\* second call to return after it succeeds again, unless an answer was torn (a
\* bad CRC and an oversized answer are not followed by a sleep, and can throw
\* off one call after the other).
Recovers ==
    pc = "idle" /\ Link /\ Protocol /\ ~torn /\ quiet >= 2
      => res.rc >= 0 \/ res.errno = "EMBMDATA"

\* Every call returns, whatever the line does.
CallReturns == (pc # "idle") ~> (pc = "idle")

=============================================================================
