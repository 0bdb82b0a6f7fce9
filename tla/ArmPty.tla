------------------------------- MODULE ArmPty -------------------------------
(***************************************************************************)
(* The other direction of the serial bridge, from a pseudo terminal to the *)
(* board's UART: characters an application writes to the slave side, and   *)
(* its termios settings, which packet mode announces to the master side    *)
(* (armpty.c and the ED_PTY events of neuron_tcp_server.c).                *)
(*                                                                         *)
(* Characters, and the settings of the terminal, are numbered in the order *)
(* in which the application makes them.  A step of the server is one       *)
(* system call, and the application acts between any two of them.          *)
(***************************************************************************)
EXTENDS Naturals, Sequences

CONSTANTS MaxSet,    \* bound: changes of the settings
          MaxTyped,  \* bound: characters written
          MaxFailed, \* bound: SPI operations that fail
          Hangup,    \* the settings with speed B0
          ReadLen,   \* characters armpty_readpty reads at once, 256
          TmpLen     \* characters armpty_setuart may read, 15

ASSUME PtyAssumption ==
  /\ {MaxSet, MaxTyped, MaxFailed} \subseteq Nat /\ Hangup \subseteq Nat \ {0}
  /\ {ReadLen, TmpLen} \subseteq Nat \ {0}

VARIABLES
  setting,  \* number of the terminal's current settings
  pending,  \* a packet mode status waits to be read
  typed,    \* how many characters were written
  ptyq,     \* the ones the server has not read
  uart,     \* number of the settings the board has (register 100)
  line,     \* characters that reached the board
  conf,     \* the settings armpty_setuart works with
  pri,      \* EPOLLPRI is set in the event being handled (EPOLLIN always is)
  failed,   \* failed SPI operations so far
  ptypc     \* where the server is

ptyvars == <<setting, pending, typed, ptyq, uart, line, conf, pri, failed, ptypc>>

\* armpty_open: packet mode, raw mode, EXTPROC, which may itself be announced.
PtyInit ==
  /\ setting = 0 /\ pending \in BOOLEAN
  /\ typed = 0 /\ ptyq = <<>>
  /\ uart = 0 /\ line = <<>> /\ conf = 0
  /\ pri = FALSE
  /\ failed = 0 /\ ptypc = "wait"

-----------------------------------------------------------------------------
(* The application on the slave side.                                       *)

\* tcsetattr(): the terminal has new settings and the master is told.
Set ==
  /\ setting < MaxSet
  /\ setting' = setting + 1
  /\ pending' = TRUE
  /\ UNCHANGED <<typed, ptyq, uart, line, conf, pri, failed, ptypc>>

Type ==
  /\ typed < MaxTyped
  /\ typed' = typed + 1
  /\ ptyq' = Append(ptyq, typed')
  /\ UNCHANGED <<setting, pending, uart, line, conf, pri, failed, ptypc>>

-----------------------------------------------------------------------------
(* The server.                                                              *)

\* Mutant: the events are looked at in the other order, as alternatives.
EpollInFirst ==
  /\ ptypc = "wait" /\ (pending \/ ptyq # <<>>)
  /\ pri' = FALSE
  /\ ptypc' = "event"
  /\ UNCHANGED <<setting, pending, typed, ptyq, uart, line, conf, failed>>

\* Mutant: the terminal is registered without EPOLLIN.
EpollPriOnly ==
  /\ ptypc = "wait" /\ pending
  /\ pri' = pending
  /\ ptypc' = "event"
  /\ UNCHANGED <<setting, pending, typed, ptyq, uart, line, conf, failed>>

\* epoll_wait, level-triggered.  A status to be read is EPOLLPRI and EPOLLIN.
EpollWait ==
  /\ ptypc = "wait" /\ (pending \/ ptyq # <<>>)
  /\ pri' = pending
  /\ ptypc' = "event"
  /\ UNCHANGED <<setting, pending, typed, ptyq, uart, line, conf, failed>>

\* Mutant: armpty_setuart is called for every event.
DispatchAlways ==
  /\ ptypc = "event"
  /\ conf' = setting
  /\ ptypc' = IF setting \in Hangup THEN "clear" ELSE "write_regs"
  /\ UNCHANGED <<setting, pending, typed, ptyq, uart, line, pri, failed>>

\* EPOLLPRI: armpty_setuart, tcgetattr.  A speed of B0 is not passed on.
Dispatch ==
  /\ ptypc = "event"
  /\ IF pri
     THEN /\ conf' = setting
          /\ ptypc' = IF setting \in Hangup THEN "clear" ELSE "write_regs"
     ELSE ptypc' = "readpty" /\ UNCHANGED conf
  /\ UNCHANGED <<setting, pending, typed, ptyq, uart, line, pri, failed>>

\* write_regs(100): whether it failed nobody asks.
WriteRegs ==
  /\ ptypc = "write_regs"
  /\ \/ uart' = conf /\ UNCHANGED failed
     \/ failed < MaxFailed /\ failed' = failed + 1 /\ UNCHANGED uart
  /\ ptypc' = "clear"
  /\ UNCHANGED <<setting, pending, typed, ptyq, line, conf, pri>>

\* The read() that clears the status.  A status is returned alone; were there
\* none, characters would be read and forgotten.
ClearStatus ==
  /\ ptypc = "clear"
  /\ pending' = FALSE
  /\ ptyq' = IF pending THEN ptyq ELSE SubSeq(ptyq, TmpLen + 1, Len(ptyq))
  /\ ptypc' = "readpty"
  /\ UNCHANGED <<setting, typed, uart, line, conf, pri, failed>>

\* armpty_readpty finds a status instead of characters: one byte, ignored.
ReadStatus ==
  /\ ptypc = "readpty" /\ pending
  /\ pending' = FALSE /\ ptypc' = "wait"
  /\ UNCHANGED <<setting, typed, ptyq, uart, line, conf, pri, failed>>

\* armpty_readpty: write_string, or write_char for a single character (none for
\* EAGAIN).  What a failed operation should have carried is not sent again.
ReadChars ==
  /\ ptypc = "readpty" /\ ~pending
  /\ LET n == IF ReadLen < Len(ptyq) THEN ReadLen ELSE Len(ptyq) IN
       /\ ptyq' = SubSeq(ptyq, n + 1, Len(ptyq))
       /\ \/ line' = line \o SubSeq(ptyq, 1, n) /\ UNCHANGED failed
          \/ /\ n > 0 /\ failed < MaxFailed
             /\ failed' = failed + 1 /\ UNCHANGED line
  /\ ptypc' = "wait"
  /\ UNCHANGED <<setting, pending, typed, uart, conf, pri>>

-----------------------------------------------------------------------------

Server == EpollWait \/ Dispatch \/ WriteRegs \/ ClearStatus \/ ReadStatus \/ ReadChars

PtyNext == Server \/ Set \/ Type

PtySpec == PtyInit /\ [][PtyNext]_ptyvars

\* The server process is scheduled; the application owes nothing.
PtyFairSpec == PtySpec /\ WF_ptyvars(Server)

-----------------------------------------------------------------------------

\* The board gets the characters in the order in which they were written, none
\* twice; as long as no SPI operation fails none is missing: the read() with
\* which armpty_setuart clears the status never takes characters with it, and
\* neither does a change of settings in the middle of armpty_readpty.
LineInOrder ==
  /\ \A i, j \in 1..Len(line) : i < j => line[i] < line[j]
  /\ failed = 0 => line \o ptyq = [i \in 1..typed |-> i]

\* Settings whose announcement epoll_wait reports reach the board, unless they
\* are changed again, are B0, or the SPI operation fails.
AnnouncedIsSet ==
  \A s \in (0..MaxSet) \ Hangup :
    ptypc = "wait" /\ pending /\ setting = s ~> uart = s \/ setting # s \/ failed > 0

\* What was written is read: no change of settings makes the server forget that
\* there are characters.
WrittenIsRead == \A n \in 1..MaxTyped : typed >= n ~> Len(ptyq) <= typed - n

\* armpty.c:25-27, "Required to set this termios together with packet mode.
\* Provides signaling master after ioctl settings of slave pty"; README.md:65,
\* the "serial configuration (comm speed etc.) can be set when opening the PTY":
\* the board ends up with the settings of the terminal.
SettingsReachUart ==
  \A s \in (0..MaxSet) \ Hangup : setting = s ~> uart = s \/ setting # s

=============================================================================
