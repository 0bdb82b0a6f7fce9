------------------------------- MODULE ArmUtil -------------------------------
(***************************************************************************)
(* The board tables of armutil.c: which boards exist, what they are        *)
(* assembled from, which firmware file belongs to which, and what the      *)
(* version registers 1000..1004 of a board mean.  Used by the programs     *)
(* that flash boards (FwSerial) and by the start of the server (Startup).  *)
(***************************************************************************)
EXTENDS Integers, Sequences

HW_BOARD(hw) == hw \div 256
HW_MAJOR(hw) == (hw \div 16) % 16
IS_CALIB(hw) == (hw \div 8) % 2 = 1
SW_MAJOR(sw) == sw \div 256
SW_MINOR(sw) == sw % 256

\* hw with the calibrating bit set.
Calibrating(hw) == IF IS_CALIB(hw) THEN hw ELSE hw + 8

\* up_boards: the version a board put on top of another one has; the entry 0,
\* no such board, has none.
up_boards == [u \in {0, 1, 2, 3, 4, 5, 13} |-> IF u = 0 THEN 0 ELSE 16]
upboard_exists(u) == u \in DOMAIN up_boards

\* compatibility_map: <<base board, upper board>> of each board.
compatibility_map ==
    [b \in 0..15 |->
        <<<<0, 0>>, <<1, 0>>, <<2, 0>>, <<3, 0>>, <<1, 1>>, <<2, 1>>, <<3, 1>>,
          <<2, 2>>, <<3, 2>>, <<2, 3>>, <<3, 3>>, <<11, 0>>, <<11, 4>>,
          <<0, 13>>, <<14, 0>>, <<11, 5>>>>[b + 1]]
get_map(b) == b \in DOMAIN compatibility_map
baseboard(b) == compatibility_map[b][1]
upboard(b) == compatibility_map[b][2]

NULL == <<>>

\* The firmware file of a board, as what its name is made of: base board and
\* version, upper board and version (the name of a base board has only the
\* first two), calibrating or not.
firmware_name(hw, hw_base) ==
    LET b == HW_BOARD(hw)
        bb == HW_BOARD(hw_base)
    IN  IF ~get_map(b) THEN NULL
        ELSE IF baseboard(b) = b
          THEN <<b, HW_MAJOR(hw), 0, 0, IS_CALIB(hw)>>
        ELSE IF ~get_map(bb) THEN NULL
        ELSE IF bb # baseboard(b) THEN NULL
        ELSE <<bb, HW_MAJOR(hw_base), upboard(b), HW_MAJOR(hw), IS_CALIB(hw)>>

check_compatibility_base(hw_base, up) ==
    LET fits == {b \in DOMAIN compatibility_map : compatibility_map[b][1] = HW_BOARD(hw_base)}
        b == CHOOSE x \in fits : \A y \in fits : x <= y
    IN  IF fits = {} THEN 0
        ELSE 256 * b + (IF up_boards[up] = 0 THEN hw_base % 256 ELSE up_boards[up])

\* The hw_version of a base board with an upper board on it, 0 for none: the
\* first entry of the table counts.
check_compatibility(hw_base, up) ==
    LET fits == {b \in DOMAIN compatibility_map :
                    compatibility_map[b] = <<HW_BOARD(hw_base), up>>}
        b == CHOOSE x \in fits : \A y \in fits : x <= y
    IN  IF fits = {} THEN 0
        ELSE 256 * b + (IF up_boards[up] = 0 THEN hw_base % 256 ELSE up_boards[up])

\* The SPI clock in MHz: the boards on E-4Ai4Ao take no more than 8.
get_board_speed(bv) == IF HW_BOARD(bv.base_hw_version) = 11 THEN 8 ELSE 12

\* parse_version of the registers 1000..1004: the versions, the number of
\* UARTs and the register of the interrupt mask, 0 for a board without one.
parse_version(r1000) ==
    LET old == SW_MAJOR(r1000[1]) < 4
        minor == SW_MINOR(r1000[1])
        base == r1000[5]
        none == HW_BOARD(base) = 11 /\ HW_MAJOR(base) <= 1
    IN  [sw_version |-> IF old THEN r1000[1] - minor ELSE r1000[1],
         hw_version |-> IF old THEN 16 * minor + (minor % 16) ELSE r1000[4],
         base_hw_version |-> base,
         uart_count |-> r1000[3] % 16,
         int_mask_register |-> IF none THEN 0
                               ELSE IF old THEN 1003
                               ELSE IF r1000[1] < 1027 THEN 1004 ELSE 1007]
=============================================================================
