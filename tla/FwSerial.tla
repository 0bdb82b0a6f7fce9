------------------------------- MODULE FwSerial -------------------------------
(***************************************************************************)
(* fwserial: programming and verifying a board over Modbus RTU             *)
(* (fwserial.c).  The tool is a master without error recovery, so that a   *)
(* late answer stays in the receive buffer and is taken for the answer to  *)
(* the next request (see ModbusMaster): write_register and write_registers *)
(* compare no more than the function code and the count.                   *)
(*                                                                         *)
(* The boot loader of the board is external: a page register, a buffer of  *)
(* one page, and a command that burns the buffer.                          *)
(***************************************************************************)
EXTENDS ArmUtil, FiniteSets

CONSTANTS
    Jobs,           \* pairs of a command line [prog, verify, resetrw, calibrate,
                    \* final] and a board [base, up, r1000]: the base board
                    \* and the one on top of it, 0 for none, and its registers
    BinPages,       \* choices for the size of the program file; -1: no file
    RwPages,        \* choices for the size of the settings file; -1: no file
    RW_START_PAGE,  \* 56
    LastPage,       \* 63
    Chunks,         \* 8
    MaxErrors,      \* 200
    MaxFaults       \* bound on the calls that go wrong

\* MAX_RW_SIZE: main allocates one page for the settings.
MAX_RW_PAGES == 1

\* load_fw reads up to 64 KiB into either buffer: a settings file of more than a page
\* overruns the heap, and what happens then is not modelled.
ASSUME FwSerialAssumption ==
    /\ {RW_START_PAGE, LastPage, Chunks, MaxErrors, MaxFaults} \subseteq Nat
    /\ Chunks > 0
    /\ BinPages \subseteq -1..LastPage /\ RwPages \subseteq -1..MAX_RW_PAGES

VARIABLES
    opt, board,
    bin, rw,     \* pages read from the files
    name,        \* the firmware file chosen
    pc,
    page, chunk, errors,
    ans,         \* answers that have come, or will, and that nobody waits for
    pagereg, buf, flash, mode,   \* the board
    clean,       \* every call for the page at hand has succeeded
    burned,      \* pages reported OK by flashit after nothing but successes
    verified,    \* the same for verify
    faults

vars == <<opt, board, bin, rw, name, pc, page, chunk, errors, ans, pagereg,
          buf, flash, mode, clean, burned, verified, faults>>
files == <<opt, board, bin, rw>>
progress == <<name, page, chunk, errors, clean, burned, verified>>

Page == 0..LastPage
Chunk == 0..(Chunks - 1)
Old == <<"old", 0, 0>>

\* last_prog_page and last_page.  A missing settings file counts as an empty one.
red == bin
rwred == RW_START_PAGE + (IF opt.resetrw /\ rw > 0 THEN rw ELSE 0)

bv == parse_version(board.r1000)

\* pd: what the tool sends for a chunk of a page.
Data(p, c) == IF p < red THEN <<"bin", p, c>> ELSE <<"rw", p - RW_START_PAGE, c>>
Image(p) == [c \in Chunk |-> Data(p, c)]

Init ==
    /\ \E job \in Jobs : opt = job[1] /\ board = job[2]
    /\ bin \in BinPages /\ rw \in RwPages
    /\ name = NULL
    /\ pc = "version" /\ page = 0 /\ chunk = 0 /\ errors = 0
    /\ ans = <<>>
    /\ pagereg = 0 /\ buf = [c \in Chunk |-> Old]
    /\ flash = [p \in Page |-> [c \in Chunk |-> Old]]
    /\ mode = "run"
    /\ clean = TRUE /\ burned = {} /\ verified = {} /\ faults = 0

-----------------------------------------------------------------------------
(* A call of libmodbus: the board executes the request or not, its answer  *)
(* comes in time, late or not at all, and the call takes the first answer  *)
(* there is.                                                               *)

\* The exception that stands for an answer.
Refused(answer) == [fc |-> answer.fc + 128, val |-> answer.val]

\* The board executes effect and answers [fc, val]; rest is what becomes of the
\* answer behind those that are already there.
Arrives(effect, answer, rest) ==
    \/ effect /\ rest = <<answer>> /\ UNCHANGED faults
    \/ /\ faults < MaxFaults /\ faults' = faults + 1
       /\ \/ rest = <<>> /\ UNCHANGED <<pagereg, buf, flash, mode>>
          \/ rest = <<>> /\ effect
          \/ rest = <<Refused(answer)>> /\ UNCHANGED <<pagereg, buf, flash, mode>>

\* The answer comes, but after the timeout of its own call.
Delayed(effect, answer) ==
    /\ faults < MaxFaults /\ faults' = faults + 1
    /\ effect
    /\ ans' = Append(ans, answer)

\* A call that succeeds (ok) or not and returns val.
Call(effect, answer, ok, val) ==
    \/ \E rest \in {<<>>, <<answer>>, <<Refused(answer)>>} :
         /\ Arrives(effect, answer, rest)
         /\ LET all == ans \o rest
            IN  IF all = <<>> THEN ~ok /\ val = 0 /\ ans' = <<>>
                ELSE /\ ok = (Head(all).fc = answer.fc) /\ val = Head(all).val
                     /\ ans' = Tail(all)
    \/ ans = <<>> /\ Delayed(effect, answer) /\ ~ok /\ val = 0

Answer(fc) == [fc |-> fc, val |-> 0]

\* What the requests do to a board: in programming mode only, but for the
\* request that switches it on.
SetsPage(p) ==
    /\ pagereg' = IF mode = "prog" THEN p ELSE pagereg
    /\ UNCHANGED <<buf, flash, mode>>
Fills(c, d) ==
    /\ buf' = IF mode = "prog" THEN [buf EXCEPT ![c] = d] ELSE buf
    /\ UNCHANGED <<pagereg, flash, mode>>
Burns ==
    /\ flash' = IF mode = "prog" THEN [flash EXCEPT ![pagereg] = buf] ELSE flash
    /\ UNCHANGED <<pagereg, buf, mode>>
Switches(m) == mode' = m /\ UNCHANGED <<pagereg, buf, flash>>
Nothing == UNCHANGED <<pagereg, buf, flash, mode>>

-----------------------------------------------------------------------------
(* main                                                                    *)

\* Registers 1000..1004.
ReadVersion ==
    /\ pc = "version"
    /\ \E ok \in BOOLEAN, val \in 0..1 :
         /\ Call(Nothing, Answer(3), ok, val)
         /\ pc' = IF ~ok THEN "failed"
                  ELSE IF opt.prog \/ opt.verify THEN "select" ELSE "done"
    /\ UNCHANGED <<files, progress>>

\* The hw_version the firmware is chosen for.
HwVersion ==
    IF opt.calibrate THEN Calibrating(bv.base_hw_version)
    ELSE IF opt.final >= 0 THEN check_compatibility(bv.base_hw_version, opt.final)
    ELSE bv.hw_version

\* Which file is loaded.  Only a board with calibrating firmware gets a final
\* one, and load_fw fails on a missing or empty file.
Select ==
    /\ pc = "select"
    /\ LET refused == ~opt.calibrate /\ opt.final >= 0
                        /\ (~IS_CALIB(bv.hw_version) \/ HwVersion = 0)
           chosen == firmware_name(HwVersion, bv.base_hw_version)
       IN  IF refused \/ chosen = NULL \/ bin <= 0
             THEN pc' = "failed" /\ UNCHANGED name
             ELSE pc' = "progmode" /\ name' = chosen
    /\ UNCHANGED <<files, page, chunk, errors, ans, pagereg, buf, flash, mode,
                   clean, burned, verified, faults>>

\* write_bit(1006).
ProgMode ==
    /\ pc = "progmode"
    /\ \E ok \in BOOLEAN, val \in 0..1 :
         /\ Call(Switches("prog"), Answer(5), ok, val)
         /\ pc' = IF ~ok THEN "failed" ELSE IF opt.prog THEN "flash" ELSE "verify"
    /\ UNCHANGED <<files, progress>>

-----------------------------------------------------------------------------
(* flashit                                                                 *)

\* The loop ends at last_page or after too many errors; neither is reported.
EndOfFlash_never(p, e) == p >= rwred
EndOfFlash_short(p, e) == p + 1 >= rwred \/ e > MaxErrors
EndOfFlash(p, e) == p >= rwred \/ e > MaxErrors

\* errors++, up to where more of them change nothing.
Plus(e) == IF e <= MaxErrors THEN e + 1 ELSE e

\* Where the loop goes with page p and e errors.
Loop(p, e) ==
    /\ page' = p /\ errors' = e
    /\ chunk' = 0
    /\ IF EndOfFlash(p, e)
         THEN pc' = IF opt.verify THEN "verify" ELSE "reboot"
         ELSE pc' = "flash"

\* Without an error for this page, the page after it; the program is followed
\* by the settings.
NextPage == IF page + 1 = red THEN RW_START_PAGE ELSE page + 1

SetPage ==
    /\ pc = "flash"
    /\ \E ok \in BOOLEAN, val \in 0..1 :
         /\ Call(SetsPage(page), Answer(6), ok, val)
         /\ clean' = ok
         /\ IF ok THEN pc' = "chunk" /\ chunk' = 0 /\ UNCHANGED <<page, errors>>
                  ELSE Loop(page, Plus(errors))
    /\ UNCHANGED <<files, name, burned, verified>>

\* chunk counts the chunks sent; each has its register, 0x7700 + chunk.
LastChunk_late(c) == c > Chunks
LastChunk(c) == c = Chunks
chunk_register_first(c) == 0
chunk_register(c) == c

\* A chunk that fails is counted and left out.
SendChunk ==
    /\ pc = "chunk"
    /\ \E ok \in BOOLEAN, val \in 0..1 :
         /\ Call(Fills(chunk_register(chunk), Data(page, chunk)), Answer(16), ok, val)
         /\ errors' = IF ok THEN errors ELSE Plus(errors)
         /\ clean' = (clean /\ ok)
    /\ chunk' = chunk + 1
    /\ pc' = IF LastChunk(chunk + 1) THEN "burn" ELSE "chunk"
    /\ UNCHANGED <<files, name, page, burned, verified>>

\* The page is reported OK when the burning is confirmed, whatever became of
\* its chunks.
BurnPage ==
    /\ pc = "burn"
    /\ \E ok \in BOOLEAN, val \in 0..1 :
         /\ Call(Burns, Answer(6), ok, val)
         /\ IF ok THEN Loop(NextPage, errors) ELSE Loop(page, Plus(errors))
         /\ burned' = IF ok /\ clean THEN burned \cup {page} ELSE burned
    /\ UNCHANGED <<files, name, clean, verified>>

-----------------------------------------------------------------------------
(* verify                                                                  *)

\* verify counts its own pages from 0.
VerifyBegins ==
    /\ pc = "verify"
    /\ page' = 0 /\ chunk' = 0
    /\ pc' = "v_page"
    /\ UNCHANGED <<files, name, errors, ans, pagereg, buf, flash, mode, clean,
                   burned, verified, faults>>

VerifyPage ==
    /\ pc = "v_page"
    /\ \E ok \in BOOLEAN, val \in 0..1 :
         /\ Call(SetsPage(page), Answer(6), ok, val)
         /\ clean' = ok
         /\ pc' = IF ok THEN "v_chunk" ELSE "reboot"
    /\ chunk' = 0
    /\ UNCHANGED <<files, name, page, errors, burned, verified>>

VerifyChunk ==
    /\ pc = "v_chunk"
    /\ \E ok \in BOOLEAN, val \in 0..1 :
         /\ Call(Fills(chunk_register(chunk), Data(page, chunk)), Answer(16), ok, val)
         /\ clean' = (clean /\ ok)
    /\ chunk' = chunk + 1
    /\ pc' = IF LastChunk(chunk + 1) THEN "v_read" ELSE "v_chunk"
    /\ UNCHANGED <<files, name, page, errors, burned, verified>>

\* The board counts how much of the buffer is in the page: 1 stands for all.
Matching == [fc |-> 3, val |-> IF flash[pagereg] = buf THEN 1 ELSE 0]

\* The page is reported OK (and, here, no call before has failed).
VerifyOk(ok, val) == ok /\ clean /\ val = 1

VerifyRead ==
    /\ pc = "v_read"
    /\ \E ok \in BOOLEAN, val \in 0..1 :
         /\ Call(Nothing, Matching, ok, val)
         /\ verified' = IF VerifyOk(ok, val) THEN verified \cup {page} ELSE verified
         /\ page' = NextPage
         /\ pc' = IF ok /\ NextPage < rwred THEN "v_page" ELSE "reboot"
    /\ UNCHANGED <<files, name, chunk, errors, clean, burned>>

\* The result is ignored.
Reboot ==
    /\ pc = "reboot"
    /\ \E ok \in BOOLEAN, val \in 0..1 : Call(Switches("run"), Answer(6), ok, val)
    /\ pc' = "done"
    /\ UNCHANGED <<files, progress>>

-----------------------------------------------------------------------------
Ended == pc \in {"failed", "done"} /\ UNCHANGED vars

Tool == \/ ReadVersion \/ Select \/ ProgMode
        \/ SetPage \/ SendChunk \/ BurnPage
        \/ VerifyBegins \/ VerifyPage \/ VerifyChunk \/ VerifyRead
        \/ Reboot

Next == Tool \/ Ended

\* The tool runs, and every call ends within its timeout.
Spec == Init /\ [][Next]_vars /\ WF_vars(Tool)

-----------------------------------------------------------------------------
(* Properties.                                                             *)

TypeOK ==
    /\ pc \in {"version", "select", "progmode", "flash", "chunk", "burn", "verify",
               "v_page", "v_chunk", "v_read", "reboot", "failed", "done"}
    /\ page \in 0..(LastPage + 1) /\ chunk \in 0..Chunks
    /\ pc \in {"chunk", "burn", "v_page", "v_chunk", "v_read"} => page \in Page
    /\ errors \in 0..(MaxErrors + 1)
    /\ \A k \in DOMAIN ans : ans[k].fc % 128 \in {3, 5, 6, 16}
    /\ pagereg \in Page /\ mode \in {"run", "prog"}
    /\ burned \subseteq Page /\ verified \subseteq Page
    /\ faults \in 0..MaxFaults

\* A page that flashit or verify reports OK after nothing but successful calls is
\* in the board as it is in the file, and stays so: no call of it was confirmed by
\* an answer to an earlier one, and no later page is burned in its place.
OkIsBurned == \A p \in burned \cup verified : flash[p] = Image(p)

\* When flashit has counted no error, everything in the two files is in the
\* board.
Programmed ==
    pc = "done" /\ opt.prog /\ errors = 0 =>
      \A p \in 0..(red - 1) \cup RW_START_PAGE..(rwred - 1) : flash[p] = Image(p)

\* The upper board the image is to be for: none in calibrating, the one the user
\* names with --final, otherwise the one that is there.
Upper == IF opt.calibrate THEN 0 ELSE IF opt.final >= 0 THEN opt.final ELSE board.up

\* The firmware that reaches a board is made for its base board and its upper board.
FitsBoards ==
    (\E p \in Page : flash[p] # [c \in Chunk |-> Old]) =>
      name[1] = board.base /\ name[3] = Upper

\* The tool ends, however the line behaves: a late answer makes every attempt at
\* a page fail from then on, and only the bound on the errors ends that.
Ends == <>(pc \in {"failed", "done"})

\* " OK." is printed when "write page to flash" succeeds (fwserial.c:118-120):
\* the page is in the board then.
OkPrinted == pc = "flash" /\ page > 0 /\ page < red => flash[page - 1] = Image(page - 1)

\* " Trying again." (fwserial.c:127, 132): one call that fails does not keep the
\* image from being written.
TryingAgainHelps ==
    pc = "done" /\ opt.prog => \A p \in 0..(red - 1) : \E c \in Chunk : flash[p][c] # Old

=============================================================================
