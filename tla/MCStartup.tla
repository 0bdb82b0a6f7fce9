------------------------------ MODULE MCStartup ------------------------------
(***************************************************************************)
(* Startup for TLC: three boards of five kinds, or none.                    *)
(***************************************************************************)
EXTENDS Startup

\* Registers 1000..1004; 1002 holds the number of UARTs in its low four bits.
Regs(sw, uarts, hwv, base) == <<sw, 0, uarts, hwv, base>>
B1000 == Regs(1284, 1, 16, 16)          \* a UART, interrupts
B485 == Regs(1284, 2, 3344, 16)         \* two UARTs, interrupts
E4Ai4AoP == Regs(1284, 1, 3088, 2832)   \* on E-4Ai4Ao 1.0: no interrupts, 8 MHz
E8Di8Ro == Regs(1284, 0, 272, 272)      \* no UART
Ancient == Regs(837, 1, 0, 0)           \* firmware 3.69
All == <<TRUE, TRUE, TRUE>>
None == <<FALSE, FALSE, FALSE>>

MCHardware == {[a \in 0..2 |-> IF a = 0 THEN x ELSE IF a = 1 THEN y ELSE z] :
                 x \in {<<>>, B1000, B485, Ancient},
                 y \in {<<>>, E4Ai4AoP, E8Di8Ro},
                 z \in {B485, E4Ai4AoP, Ancient}}

\* An update leaves the board as it was (the program is not sent, see Firmware), new
\* (5.5, with its mask at 1007), or dead.
Updated(r) == Regs(1285, r[3], IF r[4] = 0 THEN 16 ELSE r[4], IF r[4] = 0 THEN 16 ELSE r[5])
Boards == {B1000, B485, E4Ai4AoP, E8Di8Ro, Ancient}
MCFlashed == [r \in Boards |-> {r, Updated(r), <<>>}]

Command(bauds, timeout, gpios, devices, check) ==
    [bauds |-> bauds, timeout |-> timeout, gpios |-> gpios, devices |-> devices,
     check |-> check, fwver |-> <<1285, 1285, 0>>]
Default == Command(<<0, 0, 0>>, 0, All, All, FALSE)
\* neurontcp.service, with -b, -t and a device less, with fewer interrupt lines.
MCCommands == {Default,
               Command(<<0, 0, 0>>, 0, All, All, TRUE),
               Command(<<0, 10, 0>>, 50, All, <<TRUE, TRUE, FALSE>>, FALSE),
               Command(<<0, 0, 0>>, 0, <<TRUE, FALSE, FALSE>>, All, FALSE)}
MCLeftovers == {{}, {0, 1, 2}}

DefaultOnly == {Default}
OneBoard == {[a \in 0..2 |-> IF a = 0 THEN B1000 ELSE <<>>]}
NoLeftovers == {{}}
OldLinks == {{2}}
=============================================================================
