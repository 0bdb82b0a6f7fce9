----------------------------- MODULE Firmware ------------------------------
(***************************************************************************)
(* Flashing a board over SPI: start_firmware, send_firmware and            *)
(* finish_firmware of armspi.c, called by the fwspi tool (program image,   *)
(* then settings) or by arm_firmware of the server.                        *)
(*                                                                         *)
(* Addresses and lengths are counted in pages; a part of a page is sent as *)
(* a page, filled up.  The answer to an operation tells whether the        *)
(* operation before it succeeded, so the sender is always one page ahead   *)
(* of what it knows.                                                       *)
(***************************************************************************)
EXTENDS Integers, Sequences

CONSTANTS Flows,      \* "fwspi", "fwspi_R" (settings too), "server" (arm_firmware)
          BinPages,   \* pages of the program image
          RwPages,    \* pages of the settings
          RwStart,    \* first page of the settings, 0xe000
          ReadOnly,   \* the page 0xF400
          BadPages,   \* pages the board can never burn
          MaxFault,   \* bound: operations that go wrong
          MaxIoctl    \* bound: ioctl calls that fail

\* MAX_RW_SIZE: fwspi allocates one page for the settings.
MAX_RW_PAGES == 1

\* load_fw reads a longer settings file all the same and overruns the heap, and what
\* happens then is not modelled; the server takes less than 256 bytes.
ASSUME FirmwareAssumption ==
  /\ Flows \subseteq {"fwspi", "fwspi_R", "server"}
  /\ {BinPages, RwPages} \subseteq Nat \ {0}
  /\ RwPages <= MAX_RW_PAGES
  /\ {RwStart, ReadOnly, MaxFault, MaxIoctl} \subseteq Nat
  /\ BinPages <= RwStart /\ RwStart + RwPages < ReadOnly
  /\ BadPages \subseteq 0..ReadOnly

VARIABLES
  mode,      \* the board: "run" or "prog"
  good,      \* the board: its last operation succeeded
  flash,     \* the board: what each page holds
  pc,        \* "start", "next" (image), "send", "done" or "crashed"
  todo,      \* images still to be sent
  img,       \* the image being sent
  address,   \* send_firmware: page to send
  len,       \* send_firmware: pages left; 0 is the confirming operation
  prev,      \* send_firmware: prev_addr
  txdata,    \* contents of the transmit buffer, kept between operations
  key,       \* rx->address is ARM_FIRMWARE_KEY
  complete,  \* history: images whose transfer ended with a confirmation
  faults, ioctls

bvars == <<mode, good, flash>>
svars == <<img, address, len, prev, txdata, key>>
vars == <<mode, good, flash, pc, todo, img, address, len, prev, txdata, key,
          complete, faults, ioctls>>

Page == 0..ReadOnly
Image == {"bin", "rw"}
Start(i) == IF i = "bin" THEN 0 ELSE RwStart
Pages(i) == IF i = "bin" THEN BinPages ELSE RwPages
Contents == (Image \cup {"old", "garbage", "zero"}) \X Nat
Old == <<"old", 0>>
Garbage == <<"garbage", 0>>

TypeOK ==
  /\ mode \in {"run", "prog"} /\ good \in BOOLEAN
  /\ flash \in [Page -> Contents]
  /\ pc \in {"start", "next", "send", "done", "crashed"}
  /\ todo \in Seq(Image \cup {"swapped"})
  /\ img \in Image
  /\ pc = "send" => address \in Start(img)..(Start(img) + Pages(img))
                    /\ len = Start(img) + Pages(img) - address
  /\ prev \in -1..ReadOnly
  /\ txdata \in Contents /\ key \in BOOLEAN
  /\ complete \subseteq Image
  /\ faults \in 0..MaxFault /\ ioctls \in 0..MaxIoctl

\* What main of fwspi and arm_firmware send, in this order.  arm_firmware hands
\* the wrong arguments to _firmware_name and arm_flash_file for the program.
Plan(flow) == CASE flow = "server" -> <<"rw", "swapped">>
                [] flow = "fwspi_R" -> <<"bin", "rw">>
                [] flow = "fwspi" -> <<"bin">>

Init ==
  /\ mode = "run" /\ good = TRUE
  /\ flash = [p \in Page |-> Old]
  /\ pc = "start" /\ todo \in {Plan(flow) : flow \in Flows}
  /\ img = "bin" /\ address = 0 /\ len = 0 /\ prev = -1
  /\ txdata = <<"zero", 0>> /\ key = FALSE
  /\ complete = {} /\ faults = 0 /\ ioctls = 0

-----------------------------------------------------------------------------
(* The board.                                                               *)

\* The board leaves programming mode by itself (a reset).
Reset ==
  /\ mode = "prog" /\ faults < MaxFault
  /\ mode' = "run" /\ faults' = faults + 1
  /\ UNCHANGED <<good, flash, pc, todo, svars, complete, ioctls>>

\* One operation with page p: first the answer about the operation before, then
\* the page is burned.  It may fail, or the answer may be garbled.
Answers == key' = (mode = "prog" /\ good)

Burns(p, d) ==
  IF mode # "prog" THEN UNCHANGED bvars
  ELSE /\ mode' = mode
       /\ flash' = CASE p = ReadOnly -> flash
                     [] p \in BadPages -> [flash EXCEPT ![p] = Garbage]
                     [] OTHER -> [flash EXCEPT ![p] = d]
       /\ good' = (p \notin BadPages)

BurnsNot(p) ==
  /\ mode = "prog" /\ p # ReadOnly
  /\ \E d \in {flash[p], Garbage} : flash' = [flash EXCEPT ![p] = d]
  /\ good' = FALSE /\ mode' = mode

\* firmware_op.  Its result is ignored; when the ioctl fails the receive buffer
\* keeps the answer of the operation before.
FirmwareOp(p, d) ==
  \/ Answers /\ Burns(p, d) /\ UNCHANGED <<faults, ioctls>>
  \/ /\ faults < MaxFault /\ faults' = faults + 1 /\ ioctls' = ioctls
     /\ \/ Answers /\ BurnsNot(p)
        \/ key' = FALSE /\ Burns(p, d)
  \/ /\ ioctls < MaxIoctl /\ ioctls' = ioctls + 1 /\ faults' = faults
     /\ key' = key /\ UNCHANGED bvars

-----------------------------------------------------------------------------
(* The sender.                                                              *)

\* start_firmware: whether write_bit worked nobody asks.
StartFirmware ==
  /\ pc = "start"
  /\ \/ mode' = "prog" /\ UNCHANGED faults
     \/ mode' = "run" /\ faults < MaxFault /\ faults' = faults + 1
  /\ pc' = "next"
  /\ UNCHANGED <<good, flash, todo, svars, complete, ioctls>>

\* send_firmware is called.
SendFirmware ==
  /\ pc = "next" /\ todo # <<>> /\ Head(todo) \in Image
  /\ img' = Head(todo) /\ todo' = Tail(todo)
  /\ address' = Start(img') /\ len' = Pages(img') /\ prev' = -1
  /\ pc' = "send"
  /\ UNCHANGED <<bvars, txdata, key, complete, faults, ioctls>>

\* No such file (fwspi: a length of -1), a wrong length, or settings that cannot
\* be read from the board (arm_flash_rw_file): the image is left out.
SkipRw ==
  /\ pc = "next" /\ todo # <<>> /\ Head(todo) = "rw"
  /\ todo' = Tail(todo)
  /\ UNCHANGED <<bvars, pc, svars, complete, faults, ioctls>>

\* Lines 462-463 of nb_modbus.c: the board's name is read from behind the end of
\* the firmware context, and the board is passed as the context.  Mostly there is
\* no such file; if there is one, send_firmware follows wild pointers.
Swapped ==
  /\ pc = "next" /\ todo # <<>> /\ Head(todo) = "swapped"
  /\ todo' = Tail(todo)
  /\ pc' \in {"next", "crashed"}
  /\ UNCHANGED <<bvars, svars, complete, faults, ioctls>>

\* The page the loop means to send: with nothing left, the read-only one, whose
\* only purpose is the answer about the last page.  tx->address is set before
\* this, so that the board is sent the page behind the image instead, with the
\* data of the last page.
Meant == IF len = 0 THEN ReadOnly ELSE address
TxData == IF len = 0 THEN txdata ELSE <<img, address - Start(img)>>

Leave(ended) ==
  /\ pc' = "next"
  /\ complete' = IF ended THEN complete \cup {img} ELSE complete

\* The answer was the key: go on; after the confirming operation, end.
Advance ==
  /\ key'
  /\ prev' = Meant
  /\ address' = Meant + 1 /\ len' = len - 1
  /\ IF len = 0 THEN Leave(TRUE) ELSE UNCHANGED <<pc, complete>>

\* Mutant: a second error in a row does not end the loop.
GiveUpAtStart ==
  /\ ~key' /\ prev = -1
  /\ Leave(FALSE)
  /\ UNCHANGED <<address, len, prev>>

\* An error at the start, or a second one in a row.
GiveUp ==
  /\ ~key' /\ (Meant = prev \/ prev = -1)
  /\ Leave(FALSE)
  /\ UNCHANGED <<address, len, prev>>

\* Mutants: the error is ignored; the way back is one page short.
RetryIgnored ==
  /\ ~key' /\ Meant # prev /\ prev # -1
  /\ prev' = Meant /\ address' = Meant + 1 /\ len' = len - 1
  /\ IF len = 0 THEN Leave(TRUE) ELSE UNCHANGED <<pc, complete>>
RetryShort ==
  /\ ~key' /\ Meant # prev /\ prev # -1
  /\ address' = prev /\ len' = Pages(img) - (prev - Start(img)) - 1
  /\ UNCHANGED <<prev, pc, complete>>

\* The page before failed: back to it.
Retry ==
  /\ ~key' /\ Meant # prev /\ prev # -1
  /\ address' = prev /\ len' = Pages(img) - (prev - Start(img))
  /\ UNCHANGED <<prev, pc, complete>>

SendPage ==
  /\ pc = "send"
  /\ txdata' = TxData
  /\ FirmwareOp(address, TxData)
  /\ Advance \/ GiveUp \/ Retry
  /\ UNCHANGED <<todo, img>>

\* finish_firmware: the key as the address restarts the board, if it arrives.
FinishFirmware ==
  /\ pc = "next" /\ todo = <<>>
  /\ \/ mode' = "run" /\ UNCHANGED faults
     \/ faults < MaxFault /\ faults' = faults + 1 /\ UNCHANGED mode
  /\ pc' = "done"
  /\ UNCHANGED <<good, flash, todo, svars, complete, ioctls>>

-----------------------------------------------------------------------------

Sender == \/ StartFirmware \/ SendFirmware \/ SkipRw \/ Swapped
          \/ SendPage \/ FinishFirmware

Next == Sender \/ Reset

Spec == Init /\ [][Next]_vars

\* The sending process is scheduled.
FairSpec == Spec /\ WF_vars(Sender)

-----------------------------------------------------------------------------

\* A transfer that ended with the confirming operation has left every page of
\* its image in the board, whatever pages failed and whatever answers were
\* garbled on the way (as long as no ioctl failed): the answers are one operation
\* behind, and the way back to a failed page never skips one.
CompleteIsBurned ==
  ioctls = 0 => \A i \in complete : \A n \in 0..(Pages(i) - 1) :
    flash[Start(i) + n] = <<i, n>>

\* send_firmware comes to an end when errors are transient or the board stops
\* answering.
Ends == <>(pc \in {"done", "crashed"})

\* armspi.c:660, "read-only page; operation is performed only for last page
\* confirmation": sending an image writes the pages of the image and no other.
OnlyImagePages ==
  \A p \in Page : flash[p] # Old =>
    \E i \in Image : p \in Start(i)..(Start(i) + Pages(i) - 1)

\* The same comment: the operation confirms the last page; so an image whose
\* transfer ended with it is in the board.
ConfirmedIsBurned ==
  \A i \in complete : \A n \in 0..(Pages(i) - 1) : flash[Start(i) + n] = <<i, n>>

\* armspi.c:666, "double error or start error": a page that fails again and
\* again ends the transfer.
RepeatedErrorEnds == <>(pc \in {"done", "crashed"})

\* README.md:29, the daemon "is able to update our firmware": when an update is
\* through without a fault, the board has the program image.
UpdateHasProgram ==
  pc = "done" /\ faults = 0 /\ ioctls = 0 =>
    \A n \in 0..(BinPages - 1) : flash[n] = <<"bin", n>>

=============================================================================
