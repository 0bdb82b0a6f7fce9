-------------------------------- MODULE Startup --------------------------------
(***************************************************************************)
(* The start of the server: main of neuron_tcp_server.c up to its loop,    *)
(* add_arm, arm_init and arm_firmware for every board, armpty_open for     *)
(* every UART, and the part of the loop that serves the UARTs, by          *)
(* interrupt or by polling.                                                *)
(*                                                                         *)
(* A board is found, its version read, its interrupt line opened, perhaps  *)
(* newer firmware sent to it, and a pseudo terminal opened for each of its *)
(* UARTs; each of these steps may fail, most failures are ignored, and     *)
(* what is left decides how the board is served later on.  What            *)
(* armpty_readuart does is the subject of ArmUart, what arm_firmware sends *)
(* that of Firmware; here the one empties the UART and the other leaves    *)
(* one of the boards that may come of it.                                  *)
(***************************************************************************)
EXTENDS ArmUtil, FiniteSets

CONSTANTS
    MAX_ARMS,
    UARTS,         \* uarts a handle has room for, 4
    Hardware,      \* sets of boards: functions from 0..MAX_ARMS-1 to the registers
                   \* 1000..1004, or to <<>> where no board is plugged or answers
    Flashed,       \* for the registers of a board, those it may have after
                   \* arm_firmware has sent something to it
    Commands,      \* command lines: [bauds, timeout, gpios, devices, check, fwver],
                   \* fwver the versions of the files in fwdir, 0 for none
    Leftovers,     \* links in /dev/extcomm of an earlier run: sets of boards
    FaultKinds,    \* the steps that may fail
    MaxFaults

\* A board with more UARTs than a handle has room for is not one the server is made
\* for: armpty_open would write behind the array.
ASSUME StartupAssumption ==
    /\ MAX_ARMS \in Nat \ {0} /\ UARTS \in Nat \ {0} /\ MaxFaults \in Nat
    /\ FaultKinds \subseteq {"open", "read", "gpio", "reread", "pty", "mask"}
    /\ \A h \in Hardware, a \in 0..(MAX_ARMS - 1) :
          h[a] # <<>> => h[a][3] % 16 <= UARTS
    /\ \A r \in DOMAIN Flashed : \A new \in Flashed[r] : new # <<>> => new[3] % 16 <= UARTS

VARIABLES
    hw, cmd,
    pc,            \* "arms", "firmware", "epoll", "uarts" or "loop"
    ai, pi,
    arm,           \* nb_ctx->arm
    poll_timeout,
    epoll,         \* the descriptors watched: <<"int", board>>, <<"pty", board, uart>>
    extcomm_counter,
    link,          \* /dev/extcomm/<board + 1>/<uart>: the pty it leads to
    link0,         \* /dev/extcomm/0/<n>
    pts,           \* the number of the next pty
    mask,          \* the board raises its interrupt line for received characters
    uart,          \* UART 0 of the board has characters nobody has read
    line,          \* the interrupt line has had an edge nobody has seen
    faults

vars == <<hw, cmd, pc, ai, pi, arm, poll_timeout, epoll, extcomm_counter, link,
          link0, pts, mask, uart, line, faults>>
boards == <<mask, uart, line>>
names == <<extcomm_counter, link, link0, pts>>

Arm == 0..(MAX_ARMS - 1)
Uart == 0..(UARTS - 1)
NoArm == <<>>
NoLink == -1
DEFAULT_POLL_TIMEOUT == 20
START_SPI_SPEED == 5

Init ==
    /\ hw \in Hardware /\ cmd \in Commands
    /\ pc = "arms" /\ ai = 0 /\ pi = 0
    /\ arm = [a \in Arm |-> NoArm]
    /\ poll_timeout = cmd.timeout
    /\ epoll = {}
    /\ extcomm_counter = 0
    \* an earlier run had opened its ptys in the opposite order
    /\ \E old \in Leftovers :
          link = [w \in Arm \X Uart |-> IF w[1] \in old
                                         THEN UARTS * (MAX_ARMS - 1 - w[1]) + w[2] ELSE NoLink]
    /\ link0 = <<>> /\ pts = 0
    /\ mask = [a \in Arm |-> FALSE] /\ uart = mask /\ line = mask
    /\ faults = 0

\* A step that works, or, while faults last, does not.
Works(kind, ok) ==
    IF ok THEN UNCHANGED faults
          ELSE kind \in FaultKinds /\ faults < MaxFaults /\ faults' = faults + 1

-----------------------------------------------------------------------------
(* add_arm and arm_init                                                    *)

Zero == [sw_version |-> 0, hw_version |-> 0, base_hw_version |-> 0,
         uart_count |-> 0, int_mask_register |-> 0]

\* speed and the speed of board 0 for boards without one of their own; 0: found
\* out from the board.
Speed(a) == IF cmd.bauds[a + 1] > 0 THEN cmd.bauds[a + 1] ELSE cmd.bauds[1]

\* arm_init with the outcome of its two reads of the version registers.  Only
\* the first is parsed; the second tries out the board's own speed.
arm_init(a, first, second, gpio) ==
    LET bv == IF first THEN parse_version(hw[a]) ELSE Zero
        speed == IF Speed(a) > 0 THEN Speed(a)
                 ELSE IF second THEN get_board_speed(bv) ELSE START_SPI_SPEED
    IN  IF bv.sw_version = 0 THEN NoArm
        ELSE [bv |-> bv, speed |-> speed, ptys |-> [u \in Uart |-> NoLink],
              fdint |-> cmd.gpios[a + 1] /\ bv.int_mask_register > 0 /\ gpio]

\* One turn of the loop over the devices.
AddArm ==
    /\ pc = "arms" /\ ai < MAX_ARMS
    /\ \E opens, first, second, gpio \in BOOLEAN :
         /\ \/ opens /\ first /\ second /\ gpio /\ UNCHANGED faults
            \/ ~opens /\ first /\ second /\ gpio /\ Works("open", FALSE)
            \/ opens /\ ~(first /\ second) /\ gpio /\ Works("read", FALSE)
            \/ opens /\ first /\ second /\ ~gpio /\ Works("gpio", FALSE)
         /\ arm' = [arm EXCEPT ![ai] =
                      IF cmd.devices[ai + 1] /\ opens
                        THEN arm_init(ai, first /\ hw[ai] # <<>>, second /\ hw[ai] # <<>>, gpio)
                        ELSE NoArm]
    /\ IF arm'[ai] # NoArm /\ cmd.check THEN pc' = "firmware" /\ UNCHANGED ai
                                        ELSE ai' = ai + 1 /\ UNCHANGED pc
    /\ UNCHANGED <<hw, cmd, pi, poll_timeout, epoll, names, boards>>

\* The version is read again after an update; what was decided by the old one, the
\* interrupt line and the speed, stays.
Reloaded(handle, bv) ==
    [bv |-> bv, speed |-> handle.speed, ptys |-> handle.ptys, fdint |-> handle.fdint]

\* --check-firmware: a board whose settings file is newer is sent its files.
CheckFirmware ==
    /\ pc = "firmware"
    /\ IF cmd.fwver[ai + 1] <= arm[ai].bv.sw_version
         THEN UNCHANGED <<hw, arm, faults>>
         ELSE \E new \in Flashed[hw[ai]], read \in BOOLEAN :
                /\ hw' = [hw EXCEPT ![ai] = new]
                /\ Works("reread", read)
                /\ arm' = IF read /\ new # <<>>
                            THEN [arm EXCEPT ![ai] = Reloaded(@, parse_version(new))] ELSE arm
    /\ pc' = "arms" /\ ai' = ai + 1
    /\ UNCHANGED <<cmd, pi, poll_timeout, epoll, names, boards>>

\* All devices are done; the next loop goes through the boards found.
ArmsAdded ==
    /\ pc = "arms" /\ ai = MAX_ARMS
    /\ pc' = "epoll" /\ ai' = 0
    /\ UNCHANGED <<hw, cmd, pi, arm, poll_timeout, epoll, names, boards, faults>>

-----------------------------------------------------------------------------
(* The descriptors of a board, and armpty_open for its UARTs.              *)

\* Where armpty_open ends: without a pty, before its first link, between the two,
\* with the second one only removed, behind both, or well.
PtySteps == {"nopty", "early", "between", "unlinked", "behind", "well"}

Relink_kept(w, to) == IF link[w] = NoLink THEN [link EXCEPT ![w] = to] ELSE link
\* unlink, symlink
Relink(w, to) == [link EXCEPT ![w] = to]

WithPty(handle, u, n) ==
    [bv |-> handle.bv, speed |-> handle.speed, ptys |-> [handle.ptys EXCEPT ![u] = n],
     fdint |-> handle.fdint]

armpty_open(a, u, end) ==
    /\ pts' = IF end = "nopty" THEN pts ELSE pts + 1
    /\ IF end \in {"nopty", "early"}
         THEN UNCHANGED <<extcomm_counter, link0>>
         ELSE /\ link0' = Append(IF extcomm_counter = 0 THEN <<>> ELSE link0, pts)
              /\ extcomm_counter' = extcomm_counter + 1
    /\ link' = CASE end \in {"behind", "well"} -> Relink(<<a, u>>, pts)
                 [] end = "unlinked" -> [link EXCEPT ![<<a, u>>] = NoLink]
                 [] OTHER -> link
    /\ arm' = [arm EXCEPT ![a] = WithPty(@, u, IF end = "well" THEN pts ELSE NoLink)]

\* A line that is watched needs no polling; one board that has none makes the
\* loop poll, unless the command line has set the time.
PollTimeout_given(a) == poll_timeout
PollTimeout(a) == IF ~arm[a].fdint /\ poll_timeout = 0 THEN DEFAULT_POLL_TIMEOUT
                  ELSE poll_timeout

\* A board that was not found is passed over.
NoBoard ==
    /\ pc = "epoll" /\ ai < MAX_ARMS /\ arm[ai] = NoArm
    /\ ai' = ai + 1
    /\ UNCHANGED <<hw, cmd, pc, pi, arm, poll_timeout, epoll, names, boards, faults>>

\* The interrupt line of a board.
Register ==
    /\ pc = "epoll" /\ ai < MAX_ARMS /\ arm[ai] # NoArm
    /\ poll_timeout' = PollTimeout(ai)
    /\ epoll' = IF arm[ai].fdint THEN epoll \cup {<<"int", ai>>} ELSE epoll
    /\ pc' = "uarts" /\ pi' = 0
    /\ UNCHANGED <<hw, cmd, ai, arm, names, boards, faults>>

\* The write meets the mask if the board is there and has it where the handle says.
MaskHit(a) ==
    /\ hw[a] # <<>> /\ arm[a].bv.int_mask_register > 0
    /\ arm[a].bv.int_mask_register = parse_version(hw[a]).int_mask_register

\* One turn of the loop over the UARTs of a board.  The interrupt mask is written
\* when the pty is open; whether that worked nobody asks.
OpenUart ==
    /\ pc = "uarts" /\ pi \in Uart /\ pi < arm[ai].bv.uart_count
    /\ \E end \in PtySteps, written \in BOOLEAN :
         /\ armpty_open(ai, pi, end)
         /\ mask' = [mask EXCEPT ![ai] = @ \/ (end = "well" /\ written /\ MaskHit(ai))]
         /\ \/ end = "well" /\ Works("mask", written)
            \/ end # "well" /\ ~written /\ Works("pty", FALSE)
    /\ epoll' = IF arm'[ai].ptys[pi] # NoLink THEN epoll \cup {<<"pty", ai, pi>>} ELSE epoll
    /\ pi' = pi + 1
    /\ UNCHANGED <<hw, cmd, pc, ai, poll_timeout, uart, line>>

UartsOpened ==
    /\ pc = "uarts" /\ pi >= arm[ai].bv.uart_count
    /\ pc' = "epoll" /\ ai' = ai + 1
    /\ UNCHANGED <<hw, cmd, pi, arm, poll_timeout, epoll, names, boards, faults>>

\* Everything is registered: a time of 0 stands for none.
EnterLoop ==
    /\ pc = "epoll" /\ ai = MAX_ARMS
    /\ pc' = "loop"
    /\ poll_timeout' = IF poll_timeout = 0 THEN -1 ELSE poll_timeout
    /\ UNCHANGED <<hw, cmd, ai, pi, arm, epoll, names, boards, faults>>

-----------------------------------------------------------------------------
(* The loop, as far as it concerns the UARTs: armpty_readuart reads UART 0. *)

Interrupts == {a \in Arm : <<"int", a>> \in epoll /\ line[a]}
Polled == {a \in Arm : /\ poll_timeout > 0 /\ arm[a] # NoArm
                       /\ arm[a].bv.int_mask_register <= 0
                       /\ arm[a].bv.uart_count > 0}

\* epoll_wait returns for an interrupt, when the time is over, or because of a
\* client; the boards whose lines have risen are read, then the ones that have
\* no interrupts.
Woken == Interrupts # {} \/ poll_timeout >= 0
Iterate ==
    /\ pc = "loop"
    /\ uart' = [a \in Arm |-> uart[a] /\ a \notin Interrupts \cup Polled]
    /\ line' = [a \in Arm |-> line[a] /\ a \notin Interrupts]
    /\ UNCHANGED <<hw, cmd, pc, ai, pi, arm, poll_timeout, epoll, names, mask, faults>>

\* A character reaches UART 0 of a board once the server runs.
CharArrives(a) ==
    /\ hw[a] # <<>> /\ ~uart[a] /\ pc = "loop"
    /\ hw[a][3] % 16 > 0
    /\ uart' = [uart EXCEPT ![a] = TRUE]
    /\ line' = [line EXCEPT ![a] = @ \/ mask[a]]
    /\ UNCHANGED <<hw, cmd, pc, ai, pi, arm, poll_timeout, epoll, names, mask, faults>>

Start == \/ AddArm \/ CheckFirmware \/ ArmsAdded
         \/ NoBoard \/ Register \/ OpenUart \/ UartsOpened \/ EnterLoop

Next == Start \/ Iterate \/ \E a \in Arm : CharArrives(a)

\* The process is scheduled, and epoll_wait returns when it has reason to: that
\* clients come is not assumed.
Spec == /\ Init /\ [][Next]_vars
        /\ WF_vars(Start)
        /\ WF_vars(Woken /\ Iterate)

-----------------------------------------------------------------------------
(* Properties.                                                             *)

Found == {a \in Arm : arm[a] # NoArm}
\* The UARTs that have a pty.
Open == {w \in Found \X Uart : arm[w[1]].ptys[w[2]] # NoLink}
Pty(w) == arm[w[1]].ptys[w[2]]

\* A board with a register for the interrupt mask needs an interrupt line (-i):
\* without one it is not read, and nothing says so.
LineGiven(a) == cmd.gpios[a + 1] \/ arm[a].bv.int_mask_register = 0

\* README.md:56, "Serial lines of all products can be accessed": what reaches the
\* first UART of a board is read when that has a pty, whichever mixture of boards with
\* and without interrupts was found, whichever of them lack a line they do not need,
\* and after an update too.  (Lines and masks that are there must work, and an update
\* is read back and does not take the interrupts away: FaultKinds has neither "gpio",
\* "mask" nor "reread".)
Served ==
    \A a \in Arm : (pc = "loop" /\ <<a, 0>> \in Open /\ LineGiven(a) /\ uart[a]) ~> ~uart[a]

\* /dev/extcomm/<board + 1>/<uart> and one of /dev/extcomm/0/<n> lead to the pty of
\* the UART, if it has one, and no link of a UART that has a pty leads to the one of
\* another, whatever an earlier run has left behind and whichever steps failed.
LinksLead ==
    pc = "loop" => \A w \in Open : /\ link[w] = Pty(w)
                                   /\ \E n \in 1..Len(link0) : link0[n] = Pty(w)
                                   /\ \A v \in Open \ {w} : link[v] # Pty(w)

\* The same for UARTs that have no pty: their links lead nowhere else.
NoStaleLink ==
    pc = "loop" => \A w \in Open : \A v \in (Arm \X Uart) \ {w} : link[v] # Pty(w)

\* Every board that is there and answers gets a handle.
BoardsFound ==
    pc \in {"epoll", "uarts", "loop"} =>
      \A a \in Arm : hw[a] # <<>> /\ cmd.devices[a + 1] => arm[a] # NoArm

=============================================================================
