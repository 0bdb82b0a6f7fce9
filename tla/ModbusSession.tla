--------------------------- MODULE ModbusSession ---------------------------
(***************************************************************************)
(* What the Modbus/TCP server promises a client, without sockets, buffers  *)
(* or epoll: on every connection requests are answered one at a time, in   *)
(* the order they were made, each exactly once, and a connection may be    *)
(* closed at any time.                                                     *)
(***************************************************************************)
EXTENDS Naturals

CONSTANTS Conn, MaxReq

VARIABLES open,      \* open[c]: the connection exists
          asked,     \* asked[c]: requests that have arrived completely
          answered   \* answered[c]: replies handed to the client's socket

svars == <<open, asked, answered>>

Init ==
  /\ open = [c \in Conn |-> FALSE]
  /\ asked = [c \in Conn |-> 0]
  /\ answered = [c \in Conn |-> 0]

Open(c) == ~open[c] /\ open' = [open EXCEPT ![c] = TRUE] /\ UNCHANGED <<asked, answered>>

Ask(c) ==
  /\ open[c]
  /\ \E n \in asked[c]..MaxReq : asked' = [asked EXCEPT ![c] = n]
  /\ UNCHANGED <<open, answered>>

Answer(c) ==
  /\ open[c] /\ answered[c] < asked[c]
  /\ answered' = [answered EXCEPT ![c] = @ + 1]
  /\ UNCHANGED <<open, asked>>

Close(c) ==
  /\ open[c]
  /\ open' = [open EXCEPT ![c] = FALSE]
  /\ asked' = [asked EXCEPT ![c] = 0]
  /\ answered' = [answered EXCEPT ![c] = 0]

Next == \E c \in Conn : Open(c) \/ Ask(c) \/ Answer(c) \/ Close(c)

Spec == Init /\ [][Next]_svars

=============================================================================
