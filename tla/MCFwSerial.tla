----------------------------- MODULE MCFwSerial -----------------------------
(***************************************************************************)
(* FwSerial for TLC: pages of two chunks, the settings behind page 2.      *)
(***************************************************************************)
EXTENDS FwSerial

Opt(prog, verify, resetrw, calibrate, final) ==
    [prog |-> prog, verify |-> verify, resetrw |-> resetrw,
     calibrate |-> calibrate, final |-> final]
Program == Opt(TRUE, FALSE, FALSE, FALSE, -1)
ProgramAll == Opt(TRUE, TRUE, TRUE, FALSE, -1)
Verify == Opt(FALSE, TRUE, FALSE, FALSE, -1)
Calibrate == Opt(TRUE, FALSE, TRUE, TRUE, -1)
Final(u) == Opt(TRUE, FALSE, TRUE, FALSE, u)
Neither == Opt(FALSE, FALSE, TRUE, FALSE, -1)

Board(base, up, sw, hw, basereg) ==
    [base |-> base, up |-> up, r1000 |-> <<sw, 0, 0, hw, basereg>>]
\* Firmware 5.0: E-14Ro with P-11DiR485, E-14Ro with calibrating firmware.
Assembled == Board(2, 1, 1280, 1296, 528)
Blank == Board(2, 0, 1280, 536, 528)
\* Firmware 3.69, E-8Di8Ro with P-11DiR485; it has no version registers.
Ancient == Board(1, 1, 837, 0, 0)
\* Firmware 4.1, whose register 1004 is the interrupt mask.
Devel == Board(2, 1, 1025, 1296, 0)

MCJobs == {Program, ProgramAll, Verify, Calibrate, Final(1), Neither} \X {Assembled}
            \cup {Final(0), Final(1), Final(5)} \X {Blank}
            \cup {<<Program, Ancient>>}
MCBin == {-1, 0, 1, 2}
MCRw == {-1, 1}

PlainJob == {<<Program, Assembled>>}
FullJob == {<<ProgramAll, Assembled>>}
PlainAndDevel == PlainJob \cup {<<Calibrate, Devel>>}
=============================================================================
