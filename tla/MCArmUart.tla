----------------------------- MODULE MCArmUart -----------------------------
(* Instances of ArmUart for TLC. *)
EXTENDS ArmUart

Interrupting == [int_mask |-> TRUE, line |-> TRUE]
Polled == [int_mask |-> FALSE, line |-> FALSE]

WorkingBoards == {Interrupting, Polled}
OneInterrupting == {Interrupting}

=============================================================================
