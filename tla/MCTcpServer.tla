---------------------------- MODULE MCTcpServer ----------------------------
(* Instances of TcpServer for TLC. *)
EXTENDS TcpServer, TLC

Symmetry == Permutations(Conn) \cup Permutations(Buf)

\* get_from_pool sets index and sendindex to 0, so what a buffer held when it
\* was returned to the pool tells no two states apart.
View == <<pool, [b \in Buf |-> IF Owners(b) = 0 THEN <<>> ELSE data[b]],
          [b \in Buf |-> IF Owners(b) = 0 THEN 0 ELSE sendindex[b]],
          cvars, ready, batch, lvars, blocked>>

=============================================================================
