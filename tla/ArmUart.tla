------------------------------ MODULE ArmUart ------------------------------
(***************************************************************************)
(* Characters on their way from a board's UART to its pseudo terminal:     *)
(* the receive queue of the board's processor (the MCU), the local queue   *)
(* uart_q of armspi.c, which any SPI operation may fill with one           *)
(* character, and the buffer of armpty_readuart.                           *)
(*                                                                         *)
(* Characters are numbered in the order of their arrival.  A step of the   *)
(* server is one SPI message (one ioctl) with the computation up to the    *)
(* next one; the UART receives between any two of them.                    *)
(***************************************************************************)
EXTENDS Naturals, Sequences

CONSTANTS BufLen,     \* sizeof(buffer) of armpty_readuart, 256
          LocalLen,   \* MAX_LOCAL_QUEUE_LEN, 256
          StrMax,     \* SPI_STR_MAX, 240
          RemoteLen,  \* capacity of the MCU's queue, 256; also 2^8
          Boards,     \* the kinds of boards to consider
          MaxChar,    \* bound: characters that arrive
          MaxErr      \* bound: failed transfers and short writes

ASSUME QueueAssumption ==
  /\ {BufLen, LocalLen, StrMax, RemoteLen} \subseteq Nat \ {0}
  /\ StrMax % 2 = 0 /\ MaxChar \in Nat /\ MaxErr \in Nat
  /\ Boards \subseteq [int_mask : BOOLEAN, line : BOOLEAN]

VARIABLES
  board,     \* constant: int_mask, it has an interrupt mask register; line, its
             \* interrupt line was opened (fdint >= 0)
  made,      \* how many characters the UART has received
  remote,    \* the MCU's queue
  local,     \* uart_q.buffer, uart_q.index characters long
  remain,    \* uart_q.remain: what the MCU said it still holds
  overflow,  \* uart_q.overflow
  buffer,    \* buffer of armpty_readuart, nr characters long
  tries,     \* its error countdown
  pty,       \* what was written to the master side of the terminal
  errs,      \* failed transfers and short writes so far
  int,       \* an interrupt of the board is pending
  pc         \* "loop" (event loop); "idle", "drain", "tail" of armpty_readuart

vars == <<board, made, remote, local, remain, overflow, buffer, tries, pty, errs, int, pc>>

Char == 1..MaxChar

TypeOK ==
  /\ board \in Boards /\ made \in 0..MaxChar
  /\ remote \in Seq(Char) /\ Len(remote) <= RemoteLen
  /\ local \in Seq(Char) /\ buffer \in Seq(Char) /\ pty \in Seq(Char)
  /\ remain \in 0..(RemoteLen - 1)
  /\ overflow \in Nat /\ tries \in 0..3 /\ errs \in 0..MaxErr
  /\ int \in BOOLEAN /\ pc \in {"loop", "idle", "drain", "tail"}

Init ==
  /\ board \in Boards /\ made = 0 /\ remote = <<>>
  /\ local = <<>> /\ remain = 0 /\ overflow = 0
  /\ buffer = <<>> /\ tries = 3 /\ pty = <<>>
  /\ errs = 0 /\ int = FALSE /\ pc = "loop"

Least(m, n) == IF m < n THEN m ELSE n
Take(s, n) == SubSeq(s, 1, Least(n, Len(s)))
Drop(s, n) == SubSeq(s, n + 1, Len(s))

-----------------------------------------------------------------------------
(* The board.                                                               *)

\* The interrupt line rises with the first character of an empty queue.
UartReceives ==
  /\ made < MaxChar /\ Len(remote) < RemoteLen
  /\ made' = made + 1
  /\ remote' = Append(remote, made')
  /\ int' = (int \/ (board.int_mask /\ board.line /\ remote = <<>>))
  /\ UNCHANGED <<board, local, remain, overflow, buffer, tries, pty, errs, pc>>

\* In the first phase of any message the MCU may hand over one character.
\* fault: the ioctl fails and the MCU sees nothing; the answer's first CRC is
\* wrong; the second is.  What the MCU has sent it does not send again.
Handover(got, fault) ==
  /\ got => remote # <<>>
  /\ fault = "ioctl" => ~got
  /\ fault # "none" => errs < MaxErr
  /\ errs' = IF fault = "none" THEN errs ELSE errs + 1

Kept(got) == IF got THEN Tail(remote) ELSE remote

-----------------------------------------------------------------------------
(* queue_uart, one_phase_op and two_phase_op.                               *)

\* The answer is believed as far as its first phase.
Heard(got, fault) == got /\ fault \in {"none", "crc2"}

\* Mutants: a length of 0 is not special, or taken for none; the character in
\* hand is counted as still in the MCU.
RemainMinus(len) == (len % RemoteLen) - 1
RemainNotLess(len) == len % RemoteLen

\* A length of 0 means 2^8.
RemainAfter(len) == IF len % RemoteLen = 0 THEN RemoteLen - 1 ELSE (len % RemoteLen) - 1

Queued(got, fault) ==
  IF Heard(got, fault) /\ Len(local) < LocalLen THEN Append(local, Head(remote)) ELSE local

Overflowed(got, fault) ==
  IF Heard(got, fault) /\ Len(local) >= LocalLen THEN overflow + 1 ELSE overflow

QueueUart(got, fault) ==
  /\ remote' = Kept(got)
  /\ local' = Queued(got, fault)
  /\ overflow' = Overflowed(got, fault)
  /\ remain' = IF Heard(got, fault) THEN RemainAfter(Len(remote)) ELSE remain

\* Any other operation on the board: registers and bits for Modbus, characters
\* and settings from the terminal.
OtherOp(got, fault) ==
  /\ pc = "loop" /\ got
  /\ Handover(got, fault)
  /\ QueueUart(got, fault)
  /\ UNCHANGED <<board, made, buffer, tries, pty, int, pc>>

\* ED_INTERRUPT: pread() clears the event, armpty_readuart is called.
Interrupt ==
  /\ pc = "loop" /\ int
  /\ int' = FALSE /\ pc' = "idle"
  /\ UNCHANGED <<board, made, remote, local, remain, overflow, buffer, tries, pty, errs>>

\* Boards without an interrupt mask register are polled on every round.
Poll ==
  /\ pc = "loop" /\ ~board.int_mask
  /\ pc' = "idle"
  /\ UNCHANGED <<board, made, remote, local, remain, overflow, buffer, tries, pty, errs, int>>

\* armpty_readuart begins with idle_op, whose purpose is that the MCU hands
\* over a character, if it has one.
Idle(got, fault) ==
  /\ pc = "idle" /\ fault # "crc2"
  /\ Handover(got, fault)
  /\ remote # <<>> => got \/ fault = "ioctl"
  /\ QueueUart(got, fault)
  /\ buffer' = <<>> /\ tries' = 3
  /\ pc' = "drain"
  /\ UNCHANGED <<board, made, pty, int>>

-----------------------------------------------------------------------------
(* armpty_readuart.                                                         *)

\* write() on the non-blocking terminal: what does not fit is given up.
WritePty(s) ==
  \/ pty' = pty \o s /\ errs' = errs
  \/ /\ s # <<>> /\ errs < MaxErr
     /\ \E n \in 0..(Len(s) - 1) : pty' = pty \o SubSeq(s, 1, n)
     /\ errs' = errs + 1

\* Mutant: the space left in the buffer does not limit the request.
CntUnlimited == remain

\* How many characters read_string is asked for, and how many of them fit its
\* message: an even number, at most SPI_STR_MAX.
Cnt == Least(remain, BufLen - Len(buffer))
Len2 == Least(Cnt + (Cnt % 2), StrMax)

\* Mutant: the string that was just read is put before the local queue.
JoinedReversed(got, s) == s \o Queued(got, "none")

\* The local queue, then the string that was read.
Joined(got, s) == Queued(got, "none") \o s

\* read_string succeeds; the first Cnt characters go to the buffer, the rest to
\* the local queue as far as it reaches.  A full buffer is written out.
ReadString(got) ==
  /\ pc = "drain" /\ remain > 0
  /\ got => remote # <<>>
  /\ LET rcnt == Least(Len2, Len(Kept(got)))
         all == Joined(got, SubSeq(Kept(got), 1, rcnt))
         out == buffer \o Take(all, Cnt)
     IN
       /\ remote' = Drop(Kept(got), rcnt)
       /\ remain' = Len(remote')
       /\ local' = Take(Drop(all, Least(Cnt, Len(all))), LocalLen)
       /\ overflow' = Overflowed(got, "none")
       /\ IF Len(out) = BufLen
          THEN buffer' = <<>> /\ WritePty(out)
          ELSE buffer' = out /\ UNCHANGED <<pty, errs>>
  /\ tries' = 3
  /\ UNCHANGED <<board, made, int, pc>>

\* read_string fails: three times in a row, and the loop is left.  The MCU has
\* sent its string unless it saw nothing.
ReadStringFails(got, fault) ==
  /\ pc = "drain" /\ remain > 0 /\ fault # "none"
  /\ Handover(got, fault)
  /\ LET rcnt == IF fault = "ioctl" THEN 0 ELSE Least(Len2, Len(Kept(got)))
     IN  remote' = Drop(Kept(got), rcnt)
  /\ local' = Queued(got, fault)
  /\ overflow' = Overflowed(got, fault)
  /\ remain' = IF Heard(got, fault) THEN RemainAfter(Len(remote)) ELSE remain
  /\ tries' = tries - 1
  /\ pc' = IF tries' = 0 THEN "tail" ELSE "drain"
  /\ UNCHANGED <<board, made, buffer, pty, int>>

Drained ==
  /\ pc = "drain" /\ remain = 0
  /\ pc' = "tail"
  /\ UNCHANGED <<board, made, remote, local, remain, overflow, buffer, tries, pty, errs, int>>

\* Mutant: only what read_string returned is written.
TailWithoutQueue ==
  /\ pc = "tail"
  /\ WritePty(buffer)
  /\ buffer' = <<>> /\ pc' = "loop"
  /\ UNCHANGED <<board, made, remote, local, remain, overflow, tries, int>>

\* read_qstring tops the buffer up from the local queue and it is written.  When
\* the buffer was filled, the next sizeof(buffer) characters of the local queue
\* are taken too, and written with length nr, which is 0: they are gone.
TailOfReadUart ==
  /\ pc = "tail"
  /\ LET wanted == BufLen - Len(buffer)
         top == Take(local, wanted)
         rest == Drop(local, Len(top))
     IN
       /\ WritePty(buffer \o top)
       /\ local' = IF Len(top) = wanted THEN Drop(rest, Least(BufLen, Len(rest))) ELSE rest
  /\ buffer' = <<>> /\ pc' = "loop"
  /\ UNCHANGED <<board, made, remote, remain, overflow, tries, int>>

-----------------------------------------------------------------------------

Fault == {"none", "ioctl", "crc1", "crc2"}

ReadUart ==
  \/ Interrupt \/ Poll
  \/ \E got \in BOOLEAN, f \in Fault : Idle(got, f) \/ ReadStringFails(got, f)
  \/ \E got \in BOOLEAN : ReadString(got)
  \/ Drained \/ TailOfReadUart

Next ==
  \/ UartReceives
  \/ \E got \in BOOLEAN, f \in Fault : OtherOp(got, f)
  \/ ReadUart

Spec == Init /\ [][Next]_vars

\* The server process is scheduled, serves interrupts and polls.
FairSpec == Spec /\ WF_vars(ReadUart)

-----------------------------------------------------------------------------

\* Every character that is still somewhere, in the order it will leave.
InFlight == pty \o buffer \o local \o remote

\* Whatever fails, characters reach the terminal in the order in which they
\* arrived and none of them twice: read_string and read_qstring join the local
\* queue and the string just read in the right order, on every branch.
InOrder == \A i, j \in 1..Len(InFlight) : i < j => InFlight[i] < InFlight[j]

\* read_string never writes behind the end of buffer, nor any operation behind
\* the end of the local queue; a buffer that is full is written before the next
\* read, so that wanted is never 0.
NoOverrun == Len(buffer) < BufLen /\ Len(local) <= LocalLen

\* The loop of armpty_readuart trusts remain long after the MCU reported it.
\* Unless a transfer failed it never promises more than the MCU holds, and when
\* the loop is left the MCU had no more when it was last asked.
RemainSound ==
  errs = 0 => /\ remain <= Len(remote)
              /\ pc = "tail" => remain = 0

\* No character stays behind for ever, in the MCU's queue, in the local queue
\* or in the buffer, also when it came alone, when another operation took it
\* from the MCU, or when the MCU reported a length of 0.  For a polled board
\* also when transfers fail; a board with an interrupt line as long as none did.
Flushed ==
  \A c \in Char :
    made >= c /\ (board.int_mask => board.line)
      ~> \/ \A s \in {remote, local, buffer} : \A i \in 1..Len(s) : s[i] # c
         \/ board.int_mask /\ errs > 0

\* armspi.c:430, "str is too short, move rest of string to local queue": as long
\* as no transfer fails and no queue overflows no character is lost.
NoCharLost == errs = 0 /\ overflow = 0 => Len(InFlight) = made

=============================================================================
